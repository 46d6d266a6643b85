------------------------ MODULE BoardDialogs_proofs ------------------------
(***************************************************************************)
(* Safety of a tab's session and of the dialogs over it for any emails,    *)
(* tokens, authentications and calls: DialogIInv is inductive.             *)
(***************************************************************************)
EXTENDS BoardDialogs, SequenceLemmas

-----------------------------------------------------------------------------
(* auth.                                                                   *)

\* None is none of the values it stands for the lack of, and no token a promise.
LEMMA NoneIsNothing ==
    /\ None \notin UserInfo /\ None \notin Auth /\ None \notin Nat /\ None \notin Emails
    /\ None \notin Token /\ None \notin Pending
    /\ \A token \in Token : token \notin Pending
    /\ \A i \in Auths : [auth |-> i] \in Pending
<1>1. \A token \in Token : token \notin Pending
    BY DEF Token, Pending
<1>2. \A i \in Auths : [auth |-> i] \in Pending
    BY DEF Pending
<1>3. QED
    BY <1>1, <1>2, NoneAssumption, SessionAssumption DEF Promise, Emails

\* auth's email is the one it is called with, or the user's.
LEMMA CurrentEmailType ==
    ASSUME SessionTypeOK, NEW email \in Emails \cup {None}
    PROVE  currentEmail(email) \in Emails \cup {None}
    BY DEF SessionTypeOK, currentEmail, UserName, UserInfo

\* The token is the user's, if there is a user.
LEMMA AccessTokenType ==
    ASSUME SessionTypeOK
    PROVE  AccessToken \in Token \cup {None} /\ (userInfo = None => AccessToken = None)
    BY DEF SessionTypeOK, AccessToken, UserInfo

(* The promise auth returns is of a token there is, or settled by an       *)
(* authentication under way, which may have begun just now.                *)
LEMMA AuthEffect ==
    ASSUME SessionTypeOK, NEW email, NEW again, NEW login, NEW p \in Promise,
           auth(email, again, login, p)
    PROVE  /\ authPromise' = p
           /\ \/ /\ p \in Token /\ auths' = auths
                 /\ p = authPromise \/ p = AccessToken
              \/ /\ p \in Pending /\ p = authPromise
                 /\ auths' = IF login = None THEN auths
                             ELSE [auths EXCEPT ![p.auth].login = login]
              \/ /\ p \in Pending /\ auths[p.auth] = None
                 /\ auths' = [auths EXCEPT ![p.auth] =
                                [email |-> currentEmail(email), again |-> again, login |-> login]]
<1> DEFINE cached == authPromise # None /\ ~again
<1>1. /\ authPromise' = p
      /\ \/ cached /\ p = authPromise
         \/ ~cached /\ AccessToken # None /\ p = AccessToken
         \/ ~cached /\ AccessToken = None /\ p \in Pending /\ auths[p.auth] = None
      /\ auths' =
            CASE p \notin Pending -> auths
              [] p \in Pending /\ cached ->
                    IF login = None THEN auths ELSE [auths EXCEPT ![p.auth].login = login]
              [] OTHER ->
                    [auths EXCEPT ![p.auth] =
                        [email |-> currentEmail(email), again |-> again, login |-> login]]
    BY DEF auth
<1>2. p \in Token \/ p \in Pending
    BY DEF Promise
<1> HIDE DEF cached
<1>3. CASE p \in Token
    <2>1. p \notin Pending
        BY <1>3, NoneIsNothing
    <2>2. QED
        BY <1>1, <1>3, <2>1
<1>4. CASE p \in Pending /\ cached
    <2>1. p = authPromise
        BY <1>1, <1>4
    <2>2. auths' = IF login = None THEN auths ELSE [auths EXCEPT ![p.auth].login = login]
        BY <1>1, <1>4
    <2>3. QED
        BY <1>1, <1>4, <2>1, <2>2
<1>5. CASE p \in Pending /\ ~cached
    <2>1. p # AccessToken \/ AccessToken = None
        BY <1>5, AccessTokenType, NoneIsNothing
    <2>2. auths[p.auth] = None
        BY <1>1, <1>5, <2>1
    <2>3. auths' = [auths EXCEPT ![p.auth] =
                        [email |-> currentEmail(email), again |-> again, login |-> login]]
        BY <1>1, <1>5
    <2>4. QED
        BY <1>1, <1>5, <2>2, <2>3
<1>6. QED
    BY <1>2, <1>3, <1>4, <1>5

(* An authentication under way stays under way, and is one of some email.  *)
LEMMA AuthTypes ==
    ASSUME SessionTypeOK, NEW email \in Emails \cup {None}, NEW again \in BOOLEAN,
           NEW login \in Emails \cup {None}, NEW p \in Promise, auth(email, again, login, p)
    PROVE  /\ auths' \in [Auths -> Auth \cup {None}]
           /\ \A i \in Auths : auths[i] # None => auths'[i] # None
           /\ p \in Pending => auths'[p.auth] # None
<1>1. auths \in [Auths -> Auth \cup {None}] /\ Awaited(authPromise)
    BY DEF SessionTypeOK
<1>2. p \in Pending => p.auth \in Auths
    BY DEF Pending
<1>3. CASE p \in Token /\ auths' = auths
    BY <1>1, <1>3, NoneIsNothing
<1>4. CASE p \in Pending /\ p = authPromise
           /\ auths' = IF login = None THEN auths ELSE [auths EXCEPT ![p.auth].login = login]
    <2>1. auths[p.auth] \in Auth
        BY <1>1, <1>2, <1>4 DEF Awaited
    <2>2. [auths[p.auth] EXCEPT !.login = login] \in Auth
        BY <2>1 DEF Auth
    <2>3. auths' = IF login = None THEN auths
                   ELSE [auths EXCEPT ![p.auth] = [auths[p.auth] EXCEPT !.login = login]]
        BY <1>4
    <2>4. QED
        BY <1>1, <1>2, <1>4, <2>1, <2>2, <2>3, NoneIsNothing
<1>5. CASE p \in Pending
           /\ auths' = [auths EXCEPT ![p.auth] =
                         [email |-> currentEmail(email), again |-> again, login |-> login]]
    <2>1. [email |-> currentEmail(email), again |-> again, login |-> login] \in Auth
        BY CurrentEmailType DEF Auth
    <2>2. QED
        BY <1>1, <1>2, <1>5, <2>1, NoneIsNothing
<1>6. QED
    BY <1>3, <1>4, <1>5, AuthEffect
-----------------------------------------------------------------------------
(* The session.                                                            *)

\* The POSTs that are crossed after a step.
LEMMA CrossedEffect ==
    ASSUME NEW others
    PROVE  \A i : i \in Crossed(others) <=>
              \/ i \in crossed
              \/ i \in others
              \/ i \in Auths /\ auths[i] # None /\ auths[i].login = None /\ UserName' # UserName
    BY DEF Crossed

\* The history variables' part of SessionTypeOK.
LEMMA HistoryTypes ==
    ASSUME SessionTypeOK
    PROVE  loggedOut \in 0..MaxTokens /\ crossed \subseteq Auths /\ strays \subseteq 1..MaxTokens
    BY DEF SessionTypeOK

\* SessionIInv is kept by a request that waits for the promise,
LEMMA AskIInv ==
    ASSUME SessionIInv, NEW request \in Request, NEW again \in BOOLEAN, Ask(request, again)
    PROVE  SessionIInv'
<1>1. /\ page = "board"
      /\ page' = page /\ isLoggedIn' = isLoggedIn /\ userInfo' = userInfo /\ stored' = stored
      /\ lastEmail' = lastEmail /\ issued' = issued /\ expired' = expired
      /\ loggedOut' = loggedOut /\ strays' = strays
    BY DEF Ask
<1>2. PICK p \in Promise :
         /\ auth(None, again, None, p)
         /\ calls' = Append(calls, [request |-> request, token |-> p])
         /\ crossed' = crossed \cup {i \in Auths : userInfo = None /\ p = [auth |-> i]}
    BY DEF Ask
<1>3. SessionTypeOK
    BY DEF SessionIInv
<1>4. /\ auths' \in [Auths -> Auth \cup {None}]
      /\ \A i \in Auths : auths[i] # None => auths'[i] # None
      /\ p \in Pending => auths'[p.auth] # None
    BY <1>2, <1>3, AuthTypes
<1>5. /\ authPromise' = p
      /\ \/ /\ p \in Token /\ auths' = auths
            /\ p = authPromise \/ p = AccessToken
         \/ /\ p \in Pending /\ p = authPromise
            /\ auths' = auths
         \/ /\ p \in Pending /\ auths[p.auth] = None
            /\ auths' = [auths EXCEPT ![p.auth] =
                           [email |-> currentEmail(None), again |-> again, login |-> None]]
    <2>1. auth(None, again, None, p)
        BY <1>2
    <2>2. /\ authPromise' = p
          /\ \/ /\ p \in Token /\ auths' = auths
                /\ p = authPromise \/ p = AccessToken
             \/ /\ p \in Pending /\ p = authPromise
                /\ auths' = IF None = None THEN auths
                            ELSE [auths EXCEPT ![p.auth].login = None]
             \/ /\ p \in Pending /\ auths[p.auth] = None
                /\ auths' = [auths EXCEPT ![p.auth] =
                               [email |-> currentEmail(None), again |-> again, login |-> None]]
        BY <1>3, <2>1, AuthEffect, Zenon
    <2>3. QED
        BY <2>2
<1>6. /\ calls \in Seq(Call) /\ Len(calls) \in Nat
      /\ calls' \in Seq(Call)
      /\ DOMAIN calls = 1..Len(calls) /\ DOMAIN calls' = 1..(Len(calls) + 1)
      /\ \A k \in 1..Len(calls) : calls'[k] = calls[k]
      /\ calls'[Len(calls) + 1].token = p
    <2>1. [request |-> request, token |-> p] \in Call
        BY DEF Call
    <2>2. calls \in Seq(Call) /\ Len(calls) \in Nat /\ DOMAIN calls = 1..Len(calls)
        BY <1>3 DEF SessionTypeOK
    <2>3. QED
        BY <1>2, <2>1, <2>2
<1>7. \A k \in DOMAIN calls' : k = Len(calls) + 1 \/ k \in 1..Len(calls)
    BY <1>6
<1>8. /\ \A i \in crossed' : i \in crossed \/ (i \in Auths /\ p = [auth |-> i])
      /\ \A i \in crossed : i \in crossed'
      /\ \A i \in Auths : p = [auth |-> i] /\ userInfo = None => i \in crossed'
    BY <1>2
<1>9. SessionTypeOK'
    <2>1. ASSUME NEW k \in DOMAIN calls', calls'[k].token \in Pending
          PROVE  auths'[calls'[k].token.auth] # None
        <3>1. CASE k = Len(calls) + 1
            BY <1>4, <1>6, <2>1, <3>1
        <3>2. CASE k \in 1..Len(calls)
            <4>1. calls'[k] = calls[k] /\ Awaited(calls[k].token) /\ calls[k].token.auth \in Auths
                BY <1>3, <1>6, <2>1, <3>2 DEF SessionTypeOK, Pending
            <4>2. QED
                BY <1>4, <2>1, <4>1 DEF Awaited
        <3>3. QED
            BY <1>7, <2>1, <3>1, <3>2
    <2>2. Awaited(authPromise)' /\ \A k \in DOMAIN calls' : Awaited(calls[k].token)'
        BY <1>4, <1>5, <2>1 DEF Awaited
    <2>3. crossed' \subseteq Auths
        BY <1>3, <1>8, HistoryTypes
    <2>4. QED
        BY <1>1, <1>3, <1>4, <1>5, <1>6, <2>2, <2>3 DEF SessionTypeOK
<1>10. StoredWithUser' /\ NamesAreLower' /\ StoredIsOneUser'
    BY <1>1 DEF SessionIInv, StoredWithUser, NamesAreLower, StoredIsOneUser
<1>11. OneUser'
    <2>1. UserName' = UserName /\ AccessToken' = AccessToken
        BY <1>1 DEF UserName, AccessToken
    <2>2. authPromise' = p /\ (p \in Token => p = authPromise \/ p = AccessToken)
        BY <1>5, NoneIsNothing
    <2>3. OfUser(AccessToken) /\ OfUser(authPromise) /\ \A k \in DOMAIN calls : OfUser(calls[k].token)
        BY DEF SessionIInv, OneUser
    <2>4. OfUser(AccessToken)' /\ OfUser(authPromise)'
        BY <1>1, <2>1, <2>2, <2>3 DEF OfUser
    <2>5. ASSUME NEW k \in DOMAIN calls' PROVE OfUser(calls[k].token)'
        <3>1. CASE k = Len(calls) + 1
            BY <1>6, <2>2, <2>4, <3>1 DEF OfUser
        <3>2. CASE k \in 1..Len(calls)
            BY <1>1, <1>6, <2>1, <2>3, <3>2 DEF OfUser
        <3>3. QED
            BY <1>7, <2>5, <3>1, <3>2
    <2>6. userInfo = None => AccessToken \notin Token
        BY <1>3, AccessTokenType, NoneIsNothing
    <2>7. authPromise' \in Token /\ userInfo' = None => authPromise'.n \in strays'
        BY <1>1, <2>2, <2>6 DEF SessionIInv, OneUser
    <2>8. lastEmail' # None => issued' > loggedOut'
        BY <1>1 DEF SessionIInv, OneUser
    <2>9. QED
        BY <2>4, <2>5, <2>7, <2>8 DEF OneUser
<1>12. AuthsAreOfUser'
    <2> SUFFICES ASSUME NEW i \in Auths, i \notin crossed', auths'[i] # None
                 PROVE  /\ auths'[i].email # None
                        /\ IF auths'[i].login = None
                           THEN userInfo # None /\ Lower[auths'[i].email] = UserName
                           ELSE Lower[auths'[i].email] = Lower[auths'[i].login]
        BY <1>1 DEF AuthsAreOfUser, UserName
    <2>1. CASE auths'[i] = auths[i]
        BY <1>8, <2>1 DEF SessionIInv, AuthsAreOfUser
    <2>2. CASE auths'[i] # auths[i]
        <3>1. /\ auths'[i] = [email |-> currentEmail(None), again |-> again, login |-> None]
              /\ p \in Pending /\ p.auth = i
            BY <1>3, <1>5, <2>2 DEF SessionTypeOK
        <3>2. p = [auth |-> i]
            BY <3>1 DEF Pending
        <3>3. userInfo # None
            BY <1>8, <3>2
        <3>4. UserName # None /\ currentEmail(None) = UserName /\ Lower[UserName] = UserName
            <4>1. userInfo.userName \in Emails
                BY <1>3, <3>3 DEF SessionTypeOK, UserInfo
            <4>2. Lower[userInfo.userName] = userInfo.userName
                BY <3>3 DEF SessionIInv, NamesAreLower
            <4>3. UserName = userInfo.userName
                BY <3>3 DEF UserName
            <4>4. UserName # None
                BY <4>1, <4>3, NoneIsNothing
            <4>5. currentEmail(None) = UserName
                BY <4>4 DEF currentEmail
            <4>6. QED
                BY <4>2, <4>3, <4>4, <4>5
        <3>5. QED
            BY <3>1, <3>3, <3>4
    <2>3. QED
        BY <2>1, <2>2
<1>13. HistoryAgrees'
    <2>1. \A i \in crossed' : auths'[i] # None
        <3> SUFFICES ASSUME NEW i \in crossed' PROVE auths'[i] # None
            OBVIOUS
        <3>1. CASE i \in crossed
            BY <1>3, <1>4, <3>1, HistoryTypes DEF SessionIInv, HistoryAgrees
        <3>2. CASE i \in Auths /\ p = [auth |-> i]
            BY <1>4, <3>2, NoneIsNothing
        <3>3. QED
            BY <1>8, <3>1, <3>2
    <2>2. QED
        BY <1>1, <2>1 DEF SessionIInv, HistoryAgrees
<1>14. QED
    BY <1>9, <1>10, <1>11, <1>12, <1>13 DEF SessionIInv

\* by a login,
LEMMA LoginIInv ==
    ASSUME SessionIInv, NEW email \in Typed, Login(email)
    PROVE  SessionIInv'
<1>1. /\ page = "login" /\ loggedOut' = loggedOut
      /\ lastEmail' = lastEmail /\ issued' = issued /\ expired' = expired
    BY DEF Login
<1>2. PICK p \in Promise :
         /\ auth(email, FALSE, email, p)
         /\ IF p \in Pending
            THEN /\ UNCHANGED <<page, isLoggedIn, userInfo, stored, calls, strays>>
                 /\ crossed' = Crossed({i \in {p.auth} : ~SameEmail(auths'[i].email, email)})
            ELSE /\ LoggedIn(p, email) /\ Open("board", userInfo')
                 /\ strays' = IF SameEmail(p.user, email) THEN strays ELSE strays \cup {p.n}
                 /\ crossed' = Crossed({})
    BY DEF Login
<1>3. SessionTypeOK /\ email \in Emails /\ email # None
    BY SessionAssumption, NoneIsNothing DEF SessionIInv, Emails
<1>4. /\ auths' \in [Auths -> Auth \cup {None}]
      /\ \A i \in Auths : auths[i] # None => auths'[i] # None
      /\ p \in Pending => auths'[p.auth] # None
    BY <1>2, <1>3, AuthTypes
<1>5. /\ authPromise' = p
      /\ \/ /\ p \in Token /\ auths' = auths
            /\ p = authPromise \/ p = AccessToken
         \/ /\ p \in Pending /\ p = authPromise
            /\ auths' = [auths EXCEPT ![p.auth].login = email]
         \/ /\ p \in Pending /\ auths[p.auth] = None
            /\ auths' = [auths EXCEPT ![p.auth] =
                           [email |-> currentEmail(email), again |-> FALSE, login |-> email]]
    <2>1. auth(email, FALSE, email, p)
        BY <1>2
    <2>2. /\ authPromise' = p
          /\ \/ /\ p \in Token /\ auths' = auths
                /\ p = authPromise \/ p = AccessToken
             \/ /\ p \in Pending /\ p = authPromise
                /\ auths' = IF email = None THEN auths
                            ELSE [auths EXCEPT ![p.auth].login = email]
             \/ /\ p \in Pending /\ auths[p.auth] = None
                /\ auths' = [auths EXCEPT ![p.auth] =
                               [email |-> currentEmail(email), again |-> FALSE, login |-> email]]
        BY <1>3, <2>1, AuthEffect, Zenon
    <2>3. QED
        BY <1>3, <2>2
<1>6. Awaited(authPromise)'
    BY <1>4, <1>5 DEF Awaited
<1>7. CASE p \in Pending
    <2>1. /\ page' = page /\ isLoggedIn' = isLoggedIn /\ userInfo' = userInfo
          /\ stored' = stored /\ calls' = calls /\ strays' = strays
          /\ crossed' = Crossed({i \in {p.auth} : ~SameEmail(auths'[i].email, email)})
        BY <1>2, <1>7
    <2>2. UserName' = UserName /\ AccessToken' = AccessToken
        BY <2>1 DEF UserName, AccessToken
    <2>3. /\ \A i \in crossed' : i \in crossed \/ i = p.auth
          /\ \A i \in crossed : i \in crossed'
          /\ p.auth \notin crossed' => SameEmail(auths'[p.auth].email, email)
        <3>1. \A i : i \in crossed' <=>
                 \/ i \in crossed
                 \/ i \in {j \in {p.auth} : ~SameEmail(auths'[j].email, email)}
                 \/ i \in Auths /\ auths[i] # None /\ auths[i].login = None /\ UserName' # UserName
            BY <2>1, CrossedEffect, Zenon
        <3>2. QED
            BY <2>2, <3>1
    <2>4. p.auth \in Auths
        BY <1>7 DEF Pending
    <2>5. \A k \in DOMAIN calls' : Awaited(calls[k].token)'
        <3> SUFFICES ASSUME NEW k \in DOMAIN calls, calls[k].token \in Pending
                     PROVE  auths'[calls[k].token.auth] # None
            BY <2>1 DEF Awaited
        <3>1. auths[calls[k].token.auth] # None /\ calls[k].token.auth \in Auths
            BY <1>3 DEF SessionTypeOK, Awaited, Pending
        <3>2. QED
            BY <1>4, <3>1
    <2>6. crossed' \subseteq Auths
        BY <1>3, <2>3, <2>4, HistoryTypes
    <2>7. SessionTypeOK'
        BY <1>1, <1>3, <1>4, <1>5, <1>6, <2>1, <2>5, <2>6 DEF SessionTypeOK
    <2>8. StoredWithUser' /\ NamesAreLower' /\ StoredIsOneUser'
        BY <1>1, <2>1 DEF SessionIInv, StoredWithUser, NamesAreLower, StoredIsOneUser
    <2>9. OneUser'
        <3>1. authPromise' \notin Token
            BY <1>5, <1>7, NoneIsNothing
        <3>2. QED
            BY <1>1, <2>1, <2>2, <3>1 DEF SessionIInv, OneUser, OfUser
    <2>10. AuthsAreOfUser'
        <3> SUFFICES ASSUME NEW i \in Auths, i \notin crossed', auths'[i] # None
                     PROVE  /\ auths'[i].email # None
                            /\ IF auths'[i].login = None
                               THEN userInfo # None /\ Lower[auths'[i].email] = UserName
                               ELSE Lower[auths'[i].email] = Lower[auths'[i].login]
            BY <2>1, <2>2 DEF AuthsAreOfUser
        <3>1. CASE i # p.auth
            <4>1. auths'[i] = auths[i]
                BY <1>3, <1>5, <1>7, <3>1, NoneIsNothing DEF SessionTypeOK
            <4>2. QED
                BY <2>3, <4>1 DEF SessionIInv, AuthsAreOfUser
        <3>2. CASE i = p.auth
            <4>1. SameEmail(auths'[i].email, email)
                BY <2>3, <3>2
            <4>2. auths'[i].login = email
                <5>1. p \notin Token
                    BY <1>7, NoneIsNothing
                <5>2. CASE p = authPromise /\ auths' = [auths EXCEPT ![p.auth].login = email]
                    <6>1. auths[i] \in Auth
                        BY <1>3, <1>7, <3>2, <5>2 DEF SessionTypeOK, Awaited
                    <6>2. QED
                        BY <1>3, <3>2, <5>2, <6>1 DEF SessionTypeOK, Auth
                <5>3. CASE auths' = [auths EXCEPT ![p.auth] =
                               [email |-> currentEmail(email), again |-> FALSE, login |-> email]]
                    BY <1>3, <3>2, <5>3 DEF SessionTypeOK
                <5>4. QED
                    BY <1>5, <5>1, <5>2, <5>3
            <4>3. QED
                BY <1>3, <4>1, <4>2 DEF SameEmail
        <3>3. QED
            BY <3>1, <3>2
    <2>11. HistoryAgrees'
        <3>1. \A i \in crossed' : auths'[i] # None
            BY <1>3, <1>4, <1>7, <2>3, HistoryTypes DEF SessionIInv, HistoryAgrees
        <3>2. QED
            BY <1>1, <3>1 DEF SessionIInv, HistoryAgrees
    <2>12. QED
        BY <2>7, <2>8, <2>9, <2>10, <2>11 DEF SessionIInv
<1>8. CASE p \notin Pending
    <2>1. /\ page' = "board" /\ isLoggedIn' = (userInfo' # None) /\ calls' = <<>>
          /\ userInfo' = [accessToken |-> p, userName |-> Lower[email]]
          /\ stored' = userInfo'
          /\ p \in Token /\ auths' = auths
          /\ p = authPromise \/ p = AccessToken
          /\ strays' = IF SameEmail(p.user, email) THEN strays ELSE strays \cup {p.n}
          /\ crossed' = Crossed({})
        BY <1>2, <1>5, <1>8 DEF LoggedIn, Open
    <2>2. /\ userInfo' \in UserInfo /\ userInfo' # None /\ Lower[Lower[email]] = Lower[email]
          /\ AccessToken' = p /\ UserName' = Lower[email]
        <3>1. userInfo' \in UserInfo
            BY <1>3, <2>1, SessionAssumption DEF UserInfo, Emails
        <3>2. userInfo' # None
            BY <3>1, NoneIsNothing
        <3>3. QED
            BY <1>3, <2>1, <3>1, <3>2, SessionAssumption DEF AccessToken, UserName, Emails
    <2>3. p.user \in Emails /\ p.user # None /\ p.n \in 1..MaxTokens
        BY <2>1, NoneIsNothing DEF Token
    <2>4. calls' \in Seq(Call) /\ DOMAIN calls' = {}
        BY <2>1
    <2>5. /\ \A i \in crossed' : i \in Auths /\ auths[i] # None
          /\ \A i \in crossed : i \in crossed'
          /\ \A i \in Auths : auths[i] # None /\ auths[i].login = None /\ UserName' # UserName
                              => i \in crossed'
        BY <1>3, <2>1, CrossedEffect, HistoryTypes DEF SessionIInv, HistoryAgrees
    <2>6. SessionTypeOK'
        <3>1. isLoggedIn' \in BOOLEAN /\ authPromise' \in Promise
            BY <1>5, <2>1
        <3>2. crossed' \subseteq Auths /\ strays' \subseteq 1..MaxTokens
            BY <1>3, <2>1, <2>3, <2>5, HistoryTypes
        <3>3. QED
            BY <1>1, <1>3, <1>4, <1>6, <2>1, <2>2, <2>4, <3>1, <3>2 DEF SessionTypeOK
    <2>7. StoredWithUser' /\ NamesAreLower'
        BY <2>1, <2>2 DEF StoredWithUser, NamesAreLower
    <2>8. p.n > loggedOut /\ (p.n \in strays' \/ Lower[p.user] = Lower[email])
        <3>1. OfUser(p)
            BY <2>1 DEF SessionIInv, OneUser
        <3>2. p.n \in strays' \/ SameEmail(p.user, email)
            BY <2>1
        <3>3. QED
            BY <2>1, <3>1, <3>2 DEF OfUser, SameEmail
    <2>9. OneUser' /\ StoredIsOneUser'
        BY <1>1, <1>5, <2>1, <2>2, <2>4, <2>8
        DEF SessionIInv, OneUser, OfUser, StoredIsOneUser
    <2>10. AuthsAreOfUser'
        <3> SUFFICES ASSUME NEW i \in Auths, i \notin crossed', auths[i] # None
                     PROVE  /\ auths[i].email # None
                            /\ IF auths[i].login = None THEN Lower[auths[i].email] = UserName'
                               ELSE Lower[auths[i].email] = Lower[auths[i].login]
            BY <2>1, <2>2 DEF AuthsAreOfUser
        <3>1. QED
            BY <2>5 DEF SessionIInv, AuthsAreOfUser
    <2>11. HistoryAgrees'
        BY <1>1, <2>1, <2>5 DEF SessionIInv, HistoryAgrees
    <2>12. QED
        BY <2>6, <2>7, <2>9, <2>10, <2>11 DEF SessionIInv
<1>9. QED
    BY <1>7, <1>8
(* What waited for an authentication no longer does.                       *)
LEMMA ResumeTypes ==
    ASSUME SessionTypeOK, NEW i \in Auths, NEW token \in Token \cup {None}, Resume(i, token)
    PROVE  /\ auths' = [auths EXCEPT ![i] = None]
           /\ auths' \in [Auths -> Auth \cup {None}]
           /\ page' \in {"login", "board"} /\ isLoggedIn' \in BOOLEAN
           /\ calls' \in Seq(Call)
           /\ \A k \in DOMAIN calls' : Awaited(calls[k].token)'
           /\ \A k \in DOMAIN calls' :
                 calls'[k].token = token \/ (k \in DOMAIN calls /\ calls'[k].token = calls[k].token)
<1>1. auths' = [auths EXCEPT ![i] = None] /\ auths' \in [Auths -> Auth \cup {None}]
    BY DEF Resume, SessionTypeOK
<1>2. CASE auths[i].login # None
    <2>1. page' = "board" /\ isLoggedIn' \in BOOLEAN /\ calls' = <<>>
        BY <1>2 DEF Resume, Open
    <2>2. DOMAIN calls' = {}
        BY <2>1
    <2>3. QED
        BY <1>1, <2>1, <2>2
<1>3. CASE auths[i].login = None
    <2>1. /\ page' = page /\ isLoggedIn' = isLoggedIn
          /\ calls' = [k \in DOMAIN calls |->
                IF calls[k].token = [auth |-> i] THEN [calls[k] EXCEPT !.token = token]
                ELSE calls[k]]
        BY <1>3 DEF Resume
    <2>2. calls \in Seq(Call) /\ Len(calls) \in Nat /\ DOMAIN calls = 1..Len(calls)
        BY DEF SessionTypeOK
    <2>3. ASSUME NEW k \in 1..Len(calls)
          PROVE  /\ calls'[k] \in Call /\ Awaited(calls[k].token)'
                 /\ calls'[k].token \in {token, calls[k].token}
        <3>1. calls[k] \in Call /\ Awaited(calls[k].token)
            BY <2>2 DEF SessionTypeOK
        <3>2. CASE calls[k].token = [auth |-> i]
            <4>1. calls'[k] = [calls[k] EXCEPT !.token = token]
                BY <2>1, <2>2, <3>2
            <4>2. calls'[k] \in Call /\ calls'[k].token = token
                BY <3>1, <4>1 DEF Call, Promise
            <4>3. calls'[k].token \notin Pending
                BY <4>2, NoneIsNothing
            <4>4. QED
                BY <4>2, <4>3 DEF Awaited
        <3>3. CASE calls[k].token # [auth |-> i]
            <4>1. calls'[k] = calls[k]
                BY <2>1, <2>2, <3>3
            <4>2. calls[k].token \in Pending =>
                     calls[k].token.auth \in Auths /\ calls[k].token.auth # i
                BY <3>3 DEF Pending
            <4>3. QED
                BY <1>1, <3>1, <4>1, <4>2 DEF Awaited, SessionTypeOK
        <3>4. QED
            BY <3>2, <3>3
    <2>4. DOMAIN calls' = 1..Len(calls)
        BY <2>1, <2>2
    <2>5. calls' \in [1..Len(calls) -> Call]
        BY <2>1, <2>2, <2>3
    <2>6. calls' \in Seq(Call)
        BY <2>2, <2>5
    <2>7. page' \in {"login", "board"} /\ isLoggedIn' \in BOOLEAN
        BY <2>1 DEF SessionTypeOK
    <2>8. QED
        BY <1>1, <2>3, <2>4, <2>6, <2>7
<1>4. QED
    BY <1>2, <1>3

\* by an authentication's answer,
LEMMA AuthSucceedsIInv ==
    ASSUME SessionIInv, NEW i \in Auths, AuthSucceeds(i)
    PROVE  SessionIInv'
<1> DEFINE token == [user |-> auths[i].email, n |-> issued + 1]
<1>1. /\ auths[i] # None /\ auths[i].email # None /\ issued < MaxTokens
      /\ issued' = issued + 1
      /\ authPromise' = token
      /\ lastEmail' = auths[i].email
      /\ Resume(i, token)
      /\ strays' = IF i \in crossed THEN strays \cup {issued'} ELSE strays
      /\ crossed' = Crossed({}) \ {i}
      /\ expired' = expired /\ loggedOut' = loggedOut
    BY DEF AuthSucceeds
<1>2. IF auths[i].login = None THEN userInfo' = userInfo /\ stored' = stored
      ELSE LoggedIn(token, auths[i].login)
    BY DEF AuthSucceeds
<1>3. /\ SessionTypeOK /\ auths[i] \in Auth /\ auths[i].email \in Emails
      /\ auths[i].login \in Emails \cup {None}
      /\ issued \in 0..MaxTokens /\ MaxTokens \in Nat
    BY <1>1, SessionAssumption DEF SessionIInv, SessionTypeOK, Auth
<1>4. token \in Token /\ token.user = auths[i].email /\ token.n = issued + 1
    BY <1>1, <1>3 DEF Token
<1> HIDE DEF token
<1>5. /\ auths' = [auths EXCEPT ![i] = None]
      /\ auths' \in [Auths -> Auth \cup {None}]
      /\ page' \in {"login", "board"} /\ isLoggedIn' \in BOOLEAN
      /\ calls' \in Seq(Call)
      /\ \A k \in DOMAIN calls' : Awaited(calls[k].token)'
      /\ \A k \in DOMAIN calls' :
            calls'[k].token = token \/ (k \in DOMAIN calls /\ calls'[k].token = calls[k].token)
    BY <1>1, <1>3, <1>4, ResumeTypes
<1>6. auths[i].login # None =>
         /\ userInfo' = [accessToken |-> token, userName |-> Lower[auths[i].login]]
         /\ stored' = userInfo'
         /\ userInfo' \in UserInfo
         /\ Lower[Lower[auths[i].login]] = Lower[auths[i].login]
    BY <1>2, <1>3, <1>4, SessionAssumption DEF LoggedIn, UserInfo, Emails
<1>7. /\ \A j \in crossed' : j \in Auths /\ j # i /\ auths[j] # None
      /\ \A j \in crossed : j # i => j \in crossed'
      /\ \A j \in Auths : j # i /\ auths[j] # None /\ auths[j].login = None /\ UserName' # UserName
                          => j \in crossed'
    BY <1>1, <1>3, CrossedEffect, HistoryTypes DEF SessionIInv, HistoryAgrees
<1>8. SessionTypeOK'
    <2>1. userInfo' \in UserInfo \cup {None} /\ stored' \in UserInfo \cup {None}
        BY <1>2, <1>3, <1>6 DEF SessionTypeOK
    <2>2. Awaited(authPromise)'
        BY <1>1, <1>4, NoneIsNothing DEF Awaited
    <2>3. issued' \in 0..MaxTokens /\ expired' \in 0..MaxTokens
        BY <1>1, <1>3 DEF SessionTypeOK
    <2>4. authPromise' \in Promise \cup {None} /\ lastEmail' \in Emails \cup {None}
        BY <1>1, <1>3, <1>4 DEF Promise
    <2>5. loggedOut' \in 0..MaxTokens /\ crossed' \subseteq Auths /\ strays' \subseteq 1..MaxTokens
        BY <1>1, <1>3, <1>7, HistoryTypes
    <2>6. QED
        BY <1>5, <2>1, <2>2, <2>3, <2>4, <2>5 DEF SessionTypeOK
<1>9. StoredWithUser' /\ NamesAreLower'
    <2>1. CASE auths[i].login = None
        BY <1>2, <2>1 DEF SessionIInv, StoredWithUser, NamesAreLower
    <2>2. CASE auths[i].login # None
        BY <1>6, <2>2 DEF StoredWithUser, NamesAreLower
    <2>3. QED
        BY <2>1, <2>2
<1>10. \A j \in Auths : auths'[j] # None => j # i /\ auths'[j] = auths[j]
    BY <1>3, <1>5 DEF SessionTypeOK
<1>11. HistoryAgrees'
    <2>1. loggedOut <= issued /\ loggedOut \in Nat
        BY <1>3, HistoryTypes DEF SessionIInv, HistoryAgrees
    <2>2. \A j \in crossed' : auths'[j] # None
        BY <1>3, <1>5, <1>7 DEF SessionTypeOK
    <2>3. QED
        BY <1>1, <1>3, <2>1, <2>2 DEF HistoryAgrees
<1>12. /\ token.n > loggedOut /\ issued' > loggedOut
       /\ i \in crossed => token.n \in strays'
       /\ \A n \in strays : n \in strays'
    BY <1>1, <1>3, <1>4, HistoryTypes DEF SessionIInv, HistoryAgrees
<1>13. i \notin crossed =>
          IF auths[i].login = None THEN userInfo # None /\ Lower[token.user] = UserName
          ELSE Lower[token.user] = Lower[auths[i].login]
    BY <1>1, <1>4 DEF SessionIInv, AuthsAreOfUser
<1>14. CASE auths[i].login = None
    <2>1. userInfo' = userInfo /\ stored' = stored
        BY <1>2, <1>14
    <2>2. UserName' = UserName /\ AccessToken' = AccessToken
        BY <2>1 DEF UserName, AccessToken
    <2>3. OfUser(AccessToken)'
        BY <1>1, <1>12, <2>1, <2>2 DEF SessionIInv, OneUser, OfUser
    <2>4. OfUser(authPromise)'
        BY <1>1, <1>12, <1>13, <1>14, <2>2 DEF OfUser
    <2>5. ASSUME NEW k \in DOMAIN calls' PROVE OfUser(calls[k].token)'
        <3>1. CASE calls'[k].token = token
            BY <1>1, <2>4, <3>1 DEF OfUser
        <3>2. CASE k \in DOMAIN calls /\ calls'[k].token = calls[k].token
            BY <1>1, <1>12, <2>1, <2>2, <3>2 DEF SessionIInv, OneUser, OfUser
        <3>3. QED
            BY <1>5, <2>5, <3>1, <3>2
    <2>6. OneUser'
        <3>1. userInfo' = None => token.n \in strays'
            BY <1>12, <1>13, <1>14, <2>1
        <3>2. QED
            BY <1>1, <1>12, <2>3, <2>4, <2>5, <3>1 DEF OneUser
    <2>7. StoredIsOneUser'
        BY <1>1, <1>12, <2>1 DEF SessionIInv, StoredIsOneUser
    <2>8. AuthsAreOfUser'
        BY <1>7, <1>10, <2>1, <2>2 DEF SessionIInv, AuthsAreOfUser
    <2>9. QED
        BY <1>8, <1>9, <1>11, <2>6, <2>7, <2>8 DEF SessionIInv
<1>15. CASE auths[i].login # None
    <2>1. /\ userInfo' = [accessToken |-> token, userName |-> Lower[auths[i].login]]
          /\ stored' = userInfo' /\ userInfo' # None
          /\ UserName' = Lower[auths[i].login] /\ AccessToken' = token
        BY <1>6, <1>15, NoneIsNothing DEF UserName, AccessToken
    <2>2. calls' = <<>> /\ DOMAIN calls' = {}
        <3>1. calls' = <<>>
            BY <1>1, <1>15 DEF Resume, Open
        <3>2. QED
            BY <3>1
    <2>3. token.n \in strays' \/ Lower[token.user] = UserName'
        BY <1>12, <1>13, <1>15, <2>1
    <2>4. OneUser' /\ StoredIsOneUser'
        BY <1>1, <1>12, <2>1, <2>2, <2>3 DEF OneUser, OfUser, StoredIsOneUser
    <2>5. AuthsAreOfUser'
        BY <1>7, <1>10, <2>1 DEF SessionIInv, AuthsAreOfUser
    <2>6. QED
        BY <1>8, <1>9, <1>11, <2>4, <2>5 DEF SessionIInv
<1>16. QED
    BY <1>14, <1>15

\* by its repetition,
LEMMA AuthRetriesIInv ==
    ASSUME SessionIInv, NEW i \in Auths, AuthRetries(i)
    PROVE  SessionIInv'
<1>1. /\ auths[i] # None
      /\ auths' = [auths EXCEPT ![i] = [auths[i] EXCEPT !.again = FALSE]]
      /\ page' = page /\ isLoggedIn' = isLoggedIn /\ userInfo' = userInfo /\ stored' = stored
      /\ authPromise' = authPromise /\ lastEmail' = lastEmail /\ calls' = calls
      /\ issued' = issued /\ expired' = expired
      /\ loggedOut' = loggedOut /\ crossed' = crossed /\ strays' = strays
    BY DEF AuthRetries, Retried, serviceVars, historyVars
<1>2. SessionTypeOK /\ auths[i] \in Auth
    BY <1>1 DEF SessionIInv, SessionTypeOK
<1> DEFINE again == [auths[i] EXCEPT !.again = FALSE]
<1>3. again \in Auth /\ again.email = auths[i].email /\ again.login = auths[i].login
    BY <1>2 DEF Auth
<1>4. auths' = [auths EXCEPT ![i] = again]
    BY <1>1
<1> HIDE DEF again
<1>5. \A j \in Auths : /\ auths'[j] = None <=> auths[j] = None
                       /\ auths'[j].email = auths[j].email /\ auths'[j].login = auths[j].login
    BY <1>1, <1>2, <1>3, <1>4, NoneIsNothing DEF SessionTypeOK
<1>6. SessionTypeOK'
    <2>1. auths' \in [Auths -> Auth \cup {None}]
        BY <1>2, <1>3, <1>4 DEF SessionTypeOK
    <2>2. ASSUME NEW q, Awaited(q) PROVE q \in Pending => auths'[q.auth] # None
        BY <1>5, <2>2 DEF Awaited, Pending
    <2>3. Awaited(authPromise)' /\ \A k \in DOMAIN calls' : Awaited(calls[k].token)'
        BY <1>1, <1>2, <2>2 DEF SessionTypeOK, Awaited
    <2>4. QED
        BY <1>1, <1>2, <2>1, <2>3 DEF SessionTypeOK
<1>7. StoredWithUser' /\ NamesAreLower' /\ StoredIsOneUser'
    BY <1>1 DEF SessionIInv, StoredWithUser, NamesAreLower, StoredIsOneUser
<1>8. UserName' = UserName /\ AccessToken' = AccessToken
    BY <1>1 DEF UserName, AccessToken
<1>9. OneUser'
    BY <1>1, <1>8 DEF SessionIInv, OneUser, OfUser
<1>10. AuthsAreOfUser'
    BY <1>1, <1>5, <1>8 DEF SessionIInv, AuthsAreOfUser
<1>11. HistoryAgrees'
    BY <1>1, <1>2, <1>5, HistoryTypes DEF SessionIInv, HistoryAgrees
<1>12. QED
    BY <1>6, <1>7, <1>9, <1>10, <1>11 DEF SessionIInv

\* by its failure,
LEMMA AuthFailsIInv ==
    ASSUME SessionIInv, NEW i \in Auths, AuthFails(i)
    PROVE  SessionIInv'
<1>1. /\ auths[i] # None /\ authPromise' = None /\ lastEmail' = None
      /\ Resume(i, None)
      /\ crossed' = Crossed({}) \ {i}
      /\ issued' = issued /\ expired' = expired /\ loggedOut' = loggedOut /\ strays' = strays
    BY DEF AuthFails, Failed
<1>2. IF auths[i].login = None THEN userInfo' = None /\ stored' = stored
      ELSE LoggedIn(None, auths[i].login)
    BY DEF AuthFails
<1>3. SessionTypeOK /\ auths[i] \in Auth /\ auths[i].login \in Emails \cup {None}
    BY <1>1 DEF SessionIInv, SessionTypeOK, Auth
<1>4. /\ auths' = [auths EXCEPT ![i] = None]
      /\ auths' \in [Auths -> Auth \cup {None}]
      /\ page' \in {"login", "board"} /\ isLoggedIn' \in BOOLEAN
      /\ calls' \in Seq(Call)
      /\ \A k \in DOMAIN calls' : Awaited(calls[k].token)'
      /\ \A k \in DOMAIN calls' :
            calls'[k].token = None \/ (k \in DOMAIN calls /\ calls'[k].token = calls[k].token)
    BY <1>1, <1>3, ResumeTypes
<1>5. auths[i].login # None =>
         /\ userInfo' = [accessToken |-> None, userName |-> Lower[auths[i].login]]
         /\ stored' = userInfo'
         /\ userInfo' \in UserInfo
         /\ Lower[Lower[auths[i].login]] = Lower[auths[i].login]
    BY <1>2, <1>3, SessionAssumption DEF LoggedIn, UserInfo, Emails
<1>6. /\ \A j \in crossed' : j \in Auths /\ j # i /\ auths[j] # None
      /\ \A j \in crossed : j # i => j \in crossed'
      /\ \A j \in Auths : j # i /\ auths[j] # None /\ auths[j].login = None /\ UserName' # UserName
                          => j \in crossed'
    BY <1>1, <1>3, CrossedEffect, HistoryTypes DEF SessionIInv, HistoryAgrees
<1>7. SessionTypeOK'
    <2>1. userInfo' \in UserInfo \cup {None} /\ stored' \in UserInfo \cup {None}
        BY <1>2, <1>3, <1>5 DEF SessionTypeOK
    <2>2. Awaited(authPromise)'
        BY <1>1, NoneIsNothing DEF Awaited
    <2>3. crossed' \subseteq Auths
        BY <1>6
    <2>4. QED
        BY <1>1, <1>3, <1>4, <2>1, <2>2, <2>3 DEF SessionTypeOK
<1>8. StoredWithUser' /\ NamesAreLower'
    <2>1. CASE auths[i].login = None
        BY <1>2, <2>1 DEF SessionIInv, StoredWithUser, NamesAreLower
    <2>2. CASE auths[i].login # None
        BY <1>5, <2>2 DEF StoredWithUser, NamesAreLower
    <2>3. QED
        BY <2>1, <2>2
<1>9. AccessToken' = None
    BY <1>2, <1>5 DEF AccessToken
<1>10. \A j \in Auths : auths'[j] # None => j # i /\ auths'[j] = auths[j]
    BY <1>3, <1>4 DEF SessionTypeOK
<1>11. HistoryAgrees'
    <2>1. \A j \in crossed' : auths'[j] # None
        BY <1>3, <1>4, <1>6 DEF SessionTypeOK
    <2>2. QED
        BY <1>1, <2>1 DEF SessionIInv, HistoryAgrees
<1>12. StoredIsOneUser'
    BY <1>1, <1>2, <1>5 DEF SessionIInv, StoredIsOneUser
<1>13. OneUser'
    <2>1. \A k \in DOMAIN calls' : OfUser(calls[k].token)'
        <3> SUFFICES ASSUME NEW k \in DOMAIN calls', calls'[k].token \in Token
                     PROVE  /\ calls'[k].token.n > loggedOut
                            /\ userInfo' = None
            BY <1>1 DEF OfUser
        <3>1. k \in DOMAIN calls /\ calls'[k].token = calls[k].token
            BY <1>4, NoneIsNothing
        <3>2. auths[i].login = None
            <4>1. auths[i].login # None => calls' = <<>>
                BY <1>1 DEF Resume, Open
            <4>2. QED
                BY <4>1
        <3>3. QED
            BY <1>2, <3>1, <3>2 DEF SessionIInv, OneUser, OfUser
    <2>2. OfUser(AccessToken)' /\ OfUser(authPromise)'
        BY <1>1, <1>9, NoneIsNothing DEF OfUser
    <2>3. QED
        BY <1>1, <2>1, <2>2, NoneIsNothing DEF OneUser
<1>14. AuthsAreOfUser'
    <2> SUFFICES ASSUME NEW j \in Auths, j \notin crossed', auths'[j] # None
                 PROVE  /\ auths[j].email # None
                        /\ IF auths[j].login = None
                           THEN userInfo' # None /\ Lower[auths[j].email] = UserName'
                           ELSE Lower[auths[j].email] = Lower[auths[j].login]
        BY <1>10 DEF AuthsAreOfUser
    <2>1. /\ auths[j] # None /\ j # i /\ j \notin crossed
          /\ auths[j].login = None => UserName' = UserName
        BY <1>6, <1>10
    <2>2. /\ auths[j].email # None
          /\ IF auths[j].login = None THEN userInfo # None /\ Lower[auths[j].email] = UserName
             ELSE Lower[auths[j].email] = Lower[auths[j].login]
        BY <2>1 DEF SessionIInv, AuthsAreOfUser
    <2>3. userInfo # None => UserName # None
        BY <1>3, NoneIsNothing DEF SessionTypeOK, UserName, UserInfo
    <2>4. QED
        BY <2>1, <2>2, <2>3 DEF UserName
<1>15. QED
    BY <1>7, <1>8, <1>11, <1>12, <1>13, <1>14 DEF SessionIInv
\* by a logout,
LEMMA LogoutIInv ==
    ASSUME SessionIInv, Logout
    PROVE  SessionIInv'
<1>1. /\ userInfo' = None /\ stored' = None /\ authPromise' = None /\ lastEmail' = None
      /\ page' = "login" /\ isLoggedIn' \in BOOLEAN /\ calls' = <<>>
      /\ loggedOut' = issued /\ crossed' = Crossed({}) /\ strays' = {}
      /\ auths' = auths /\ issued' = issued /\ expired' = expired
    BY DEF Logout, Forget, Open
<1>2. SessionTypeOK /\ issued \in 0..MaxTokens
    BY DEF SessionIInv, SessionTypeOK
<1>3. /\ \A i \in crossed' : i \in Auths /\ auths[i] # None
      /\ \A i \in crossed : i \in crossed'
      /\ \A i \in Auths : auths[i] # None /\ auths[i].login = None /\ UserName' # UserName
                          => i \in crossed'
    BY <1>1, <1>2, CrossedEffect, HistoryTypes DEF SessionIInv, HistoryAgrees
<1>4. calls' \in Seq(Call) /\ DOMAIN calls' = {}
    BY <1>1
<1>5. SessionTypeOK'
    <2>1. Awaited(authPromise)'
        BY <1>1, NoneIsNothing DEF Awaited
    <2>2. crossed' \subseteq Auths
        BY <1>3
    <2>3. QED
        BY <1>1, <1>2, <1>4, <2>1, <2>2 DEF SessionTypeOK
<1>6. StoredWithUser' /\ NamesAreLower' /\ StoredIsOneUser'
    BY <1>1, NoneIsNothing DEF StoredWithUser, NamesAreLower, StoredIsOneUser
<1>7. OneUser'
    BY <1>1, <1>4, NoneIsNothing DEF OneUser, OfUser, AccessToken
<1>8. AuthsAreOfUser'
    <2> SUFFICES ASSUME NEW i \in Auths, i \notin crossed', auths[i] # None
                 PROVE  /\ auths[i].email # None
                        /\ auths[i].login # None
                        /\ Lower[auths[i].email] = Lower[auths[i].login]
        BY <1>1 DEF AuthsAreOfUser
    <2>1. /\ auths[i].email # None
          /\ IF auths[i].login = None THEN userInfo # None
             ELSE Lower[auths[i].email] = Lower[auths[i].login]
        BY <1>3 DEF SessionIInv, AuthsAreOfUser
    <2>2. userInfo # None => UserName # None
        BY <1>2, NoneIsNothing DEF SessionTypeOK, UserName, UserInfo
    <2>3. UserName' = None
        BY <1>1 DEF UserName
    <2>4. QED
        BY <1>3, <2>1, <2>2, <2>3
<1>9. HistoryAgrees'
    BY <1>1, <1>2, <1>3 DEF HistoryAgrees
<1>10. QED
    BY <1>5, <1>6, <1>7, <1>8, <1>9 DEF SessionIInv

\* by the routes' guard,
LEMMA VisitIInv ==
    ASSUME SessionIInv, VisitLogin \/ VisitBoard
    PROVE  SessionIInv'
<1>1. /\ page' \in {"login", "board"} /\ isLoggedIn' \in BOOLEAN /\ calls' = <<>>
      /\ userInfo' = userInfo /\ stored' = stored /\ authPromise' = authPromise
      /\ lastEmail' = lastEmail /\ auths' = auths /\ issued' = issued
      /\ expired' = expired /\ loggedOut' = loggedOut /\ crossed' = crossed /\ strays' = strays
    BY DEF VisitLogin, VisitBoard, Open, serviceVars, historyVars
<1>2. SessionTypeOK'
    <2>1. calls' \in Seq(Call) /\ DOMAIN calls' = {}
        BY <1>1
    <2>2. Awaited(authPromise)'
        BY <1>1 DEF SessionIInv, SessionTypeOK, Awaited
    <2>3. QED
        BY <1>1, <2>1, <2>2 DEF SessionIInv, SessionTypeOK
<1>3. StoredWithUser' /\ NamesAreLower' /\ StoredIsOneUser'
    BY <1>1 DEF SessionIInv, StoredWithUser, NamesAreLower, StoredIsOneUser
<1>4. UserName' = UserName /\ AccessToken' = AccessToken /\ DOMAIN calls' = {}
    BY <1>1 DEF UserName, AccessToken
<1>5. OneUser'
    BY <1>1, <1>4 DEF SessionIInv, OneUser, OfUser
<1>6. AuthsAreOfUser' /\ HistoryAgrees'
    BY <1>1, <1>4 DEF SessionIInv, AuthsAreOfUser, HistoryAgrees
<1>7. QED
    BY <1>2, <1>3, <1>5, <1>6 DEF SessionIInv

\* by a reload from the storage,
LEMMA ReloadIInv ==
    ASSUME SessionIInv, Reload
    PROVE  SessionIInv'
<1>1. /\ userInfo' = stored /\ stored' = stored /\ authPromise' = None /\ lastEmail' = None
      /\ auths' = [i \in Auths |-> None]
      /\ page' = IF stored = None THEN "login" ELSE page
      /\ isLoggedIn' \in BOOLEAN /\ calls' = <<>>
      /\ loggedOut' = loggedOut /\ crossed' = {} /\ strays' = strays
      /\ issued' = issued /\ expired' = expired
    BY DEF Reload, Open
<1>2. SessionTypeOK /\ issued \in 0..MaxTokens
    BY DEF SessionIInv, SessionTypeOK
<1>3. SessionTypeOK'
    <2>1. calls' \in Seq(Call) /\ DOMAIN calls' = {}
        BY <1>1
    <2>2. Awaited(authPromise)'
        BY <1>1, NoneIsNothing DEF Awaited
    <2>3. page' \in {"login", "board"} /\ crossed' \subseteq Auths
        BY <1>1, <1>2 DEF SessionTypeOK
    <2>4. QED
        BY <1>1, <1>2, <2>1, <2>2, <2>3 DEF SessionTypeOK
<1>4. StoredWithUser' /\ NamesAreLower' /\ StoredIsOneUser'
    BY <1>1 DEF SessionIInv, StoredWithUser, NamesAreLower, StoredIsOneUser
<1>5. OneUser'
    <2>1. userInfo' # None =>
             UserName' = stored.userName /\ AccessToken' = stored.accessToken
        BY <1>1 DEF UserName, AccessToken
    <2>2. userInfo' = None => AccessToken' = None
        BY DEF AccessToken
    <2>3. OfUser(AccessToken)'
        BY <1>1, <2>1, <2>2, NoneIsNothing DEF SessionIInv, StoredIsOneUser, OfUser
    <2>4. OfUser(authPromise)' /\ DOMAIN calls' = {}
        BY <1>1, NoneIsNothing DEF OfUser
    <2>5. QED
        BY <1>1, <2>3, <2>4, NoneIsNothing DEF OneUser
<1>6. AuthsAreOfUser' /\ HistoryAgrees'
    BY <1>1 DEF SessionIInv, AuthsAreOfUser, HistoryAgrees
<1>7. QED
    BY <1>3, <1>4, <1>5, <1>6 DEF SessionIInv

(* Steps that leave the service alone: a token's day ends, a call's does.  *)
LEMMA SameServiceIInv ==
    ASSUME SessionIInv,
           page' = page, isLoggedIn' = isLoggedIn, UNCHANGED serviceVars, auths' = auths,
           issued' = issued, expired' \in 0..MaxTokens, UNCHANGED historyVars,
           calls' \in Seq(Call), \A k \in DOMAIN calls' : Awaited(calls'[k].token),
           \A k \in DOMAIN calls' : \E j \in DOMAIN calls : calls'[k] = calls[j]
    PROVE  SessionIInv'
<1>1. /\ userInfo' = userInfo /\ stored' = stored /\ authPromise' = authPromise
      /\ lastEmail' = lastEmail
      /\ loggedOut' = loggedOut /\ crossed' = crossed /\ strays' = strays
    BY DEF serviceVars, historyVars
<1>2. Awaited(authPromise)' /\ \A k \in DOMAIN calls' : Awaited(calls[k].token)'
    BY <1>1 DEF SessionIInv, SessionTypeOK, Awaited
<1>3. SessionTypeOK'
    BY <1>1, <1>2 DEF SessionIInv, SessionTypeOK
<1>4. StoredWithUser' /\ NamesAreLower' /\ StoredIsOneUser'
    BY <1>1 DEF SessionIInv, StoredWithUser, NamesAreLower, StoredIsOneUser
<1>5. UserName' = UserName /\ AccessToken' = AccessToken
    BY <1>1 DEF UserName, AccessToken
<1>6. OneUser'
    <2>1. OfUser(AccessToken)' /\ OfUser(authPromise)'
        BY <1>1, <1>5 DEF SessionIInv, OneUser, OfUser
    <2>2. ASSUME NEW k \in DOMAIN calls' PROVE OfUser(calls[k].token)'
        <3>1. PICK j \in DOMAIN calls : calls'[k] = calls[j]
            BY <2>2
        <3>2. QED
            BY <1>1, <1>5, <3>1 DEF SessionIInv, OneUser, OfUser
    <2>3. QED
        BY <1>1, <2>1, <2>2 DEF SessionIInv, OneUser
<1>7. AuthsAreOfUser' /\ HistoryAgrees'
    BY <1>1, <1>5 DEF SessionIInv, AuthsAreOfUser, HistoryAgrees
<1>8. QED
    BY <1>3, <1>4, <1>6, <1>7 DEF SessionIInv

\* by tokens that get old,
LEMMA ExpireIInv ==
    ASSUME SessionIInv, Expire
    PROVE  SessionIInv'
<1>1. /\ expired < issued /\ expired' = expired + 1
      /\ page' = page /\ isLoggedIn' = isLoggedIn /\ UNCHANGED serviceVars /\ auths' = auths
      /\ issued' = issued /\ UNCHANGED historyVars /\ calls' = calls
    BY DEF Expire
<1>2. /\ expired' \in 0..MaxTokens
      /\ calls' \in Seq(Call) /\ \A k \in DOMAIN calls' : Awaited(calls'[k].token)
    BY <1>1, SessionAssumption DEF SessionIInv, SessionTypeOK
<1>3. QED
    BY <1>1, <1>2, SameServiceIInv

(* The k-th call is taken out, the others stay.                            *)
LEMMA AnswerEffect ==
    ASSUME SessionIInv, NEW k \in DOMAIN calls, NEW outcome, Answer(k, outcome)
    PROVE  /\ SessionIInv'
           /\ k \in 1..Len(calls) /\ Len(calls) \in Nat
           /\ DOMAIN calls = 1..Len(calls) /\ DOMAIN calls' = 1..(Len(calls) - 1)
           /\ \A j \in 1..(Len(calls) - 1) :
                 calls'[j] = IF j < k THEN calls[j] ELSE calls[j + 1]
<1>1. /\ calls' = RemoveAt(calls, k)
      /\ page' = page /\ isLoggedIn' = isLoggedIn /\ UNCHANGED serviceVars /\ auths' = auths
      /\ issued' = issued /\ expired' = expired /\ UNCHANGED historyVars
    BY DEF Answer
<1>2. /\ calls \in Seq(Call) /\ Len(calls) \in Nat /\ DOMAIN calls = 1..Len(calls)
      /\ expired \in 0..MaxTokens
      /\ \A j \in 1..Len(calls) : Awaited(calls[j].token)
    BY DEF SessionIInv, SessionTypeOK
<1>3. /\ calls' \in Seq(Call) /\ Len(calls') = Len(calls) - 1
      /\ \A j \in 1..(Len(calls) - 1) : calls'[j] = IF j < k THEN calls[j] ELSE calls[j + 1]
    BY <1>1, <1>2, RemoveAtProperties
<1>4. DOMAIN calls' = 1..(Len(calls) - 1)
    BY <1>3, LenProperties
<1>5. \A j \in DOMAIN calls' : Awaited(calls'[j].token)
    <2> SUFFICES ASSUME NEW j \in 1..(Len(calls) - 1) PROVE Awaited(calls'[j].token)
        BY <1>4
    <2>1. j \in 1..Len(calls) /\ j + 1 \in 1..Len(calls)
        BY <1>2
    <2>2. calls'[j] = calls[j] \/ calls'[j] = calls[j + 1]
        BY <1>3
    <2>3. QED
        BY <1>2, <2>1, <2>2
<1>6. \A j \in DOMAIN calls' : \E h \in DOMAIN calls : calls'[j] = calls[h]
    <2> SUFFICES ASSUME NEW j \in 1..(Len(calls) - 1)
                 PROVE  \E h \in 1..Len(calls) : calls'[j] = calls[h]
        BY <1>2, <1>4
    <2>1. j \in 1..Len(calls) /\ j + 1 \in 1..Len(calls)
        BY <1>2
    <2>2. calls'[j] = calls[j] \/ calls'[j] = calls[j + 1]
        BY <1>3
    <2>3. QED
        BY <2>1, <2>2
<1>7. SessionIInv'
    BY <1>1, <1>2, <1>3, <1>5, <1>6, SameServiceIInv
<1>8. QED
    BY <1>2, <1>3, <1>4, <1>7

\* and by what leaves the session alone.
LEMMA SameSessionIInv ==
    ASSUME SessionIInv, UNCHANGED sessionVars
    PROVE  SessionIInv'
<1>1. /\ page' = page /\ isLoggedIn' = isLoggedIn /\ UNCHANGED serviceVars /\ auths' = auths
      /\ issued' = issued /\ expired' = expired /\ UNCHANGED historyVars /\ calls' = calls
    BY DEF sessionVars, serviceVars, historyVars
<1>2. /\ calls \in Seq(Call) /\ \A k \in DOMAIN calls : Awaited(calls[k].token)
      /\ expired \in 0..MaxTokens
    BY DEF SessionIInv, SessionTypeOK
<1>3. QED
    BY <1>1, <1>2, SameServiceIInv
-----------------------------------------------------------------------------
(* The dialogs.                                                            *)

\* What DialogIInv says of the dialogs, call by call.
Busy(kind) == \E k \in DOMAIN calls : calls[k].request = kind

DialogsAgree ==
    /\ createTaskLock \in BOOLEAN /\ deleteTaskLock \in BOOLEAN /\ deletion \in BOOLEAN
    /\ historyMarkup \in {None, "loading", "history", "error"}
    /\ createTaskLock <=> Busy("createTask")
    /\ deleteTaskLock <=> Busy("deleteTask")
    /\ historyMarkup = "loading" => Busy("taskHistory")
    /\ \A j, k \in DOMAIN calls : calls[j].request = "createTask" /\ calls[k].request = "createTask" => j = k
    /\ \A j, k \in DOMAIN calls : calls[j].request = "deleteTask" /\ calls[k].request = "deleteTask" => j = k

\* DialogIInv is SessionIInv and what the dialogs have to agree on.
LEMMA DialogsAgreeNow ==
    ASSUME DialogIInv PROVE SessionIInv /\ DialogsAgree
<1>1. \A kind : Ongoing(kind) # {} <=> Busy(kind)
    BY DEF Ongoing, Busy
<1>2. createTaskLock \in BOOLEAN /\ deleteTaskLock \in BOOLEAN
    BY DEF DialogIInv, DialogTypeOK
<1>3. createTaskLock <=> Busy("createTask")
    BY <1>1, <1>2 DEF DialogIInv, LocksFollowRequests
<1>4. deleteTaskLock <=> Busy("deleteTask")
    BY <1>1, <1>2 DEF DialogIInv, LocksFollowRequests
<1>5. historyMarkup = "loading" => Busy("taskHistory")
    BY <1>1 DEF DialogIInv, HistoryIsAwaited
<1>6. QED
    BY <1>3, <1>4, <1>5 DEF DialogIInv, DialogTypeOK, DialogsAgree, OneRequest, Ongoing

\* The same after a step.
LEMMA DialogsAgreeNext ==
    ASSUME SessionIInv', DialogsAgree' PROVE DialogIInv'
<1>1. \A kind : Ongoing(kind)' # {} <=> Busy(kind)'
    BY DEF Ongoing, Busy
<1>2. createTaskLock' \in BOOLEAN /\ deleteTaskLock' \in BOOLEAN
    BY DEF DialogsAgree
<1>3. createTaskLock' = (Ongoing("createTask")' # {})
    BY <1>1, <1>2 DEF DialogsAgree
<1>4. deleteTaskLock' = (Ongoing("deleteTask")' # {})
    BY <1>1, <1>2 DEF DialogsAgree
<1>5. historyMarkup' = "loading" => Ongoing("taskHistory")' # {}
    BY <1>1 DEF DialogsAgree
<1>6. LocksFollowRequests' /\ HistoryIsAwaited'
    BY <1>3, <1>4, <1>5 DEF LocksFollowRequests, HistoryIsAwaited
<1>7. OneRequest("createTask")' /\ OneRequest("deleteTask")'
    BY DEF DialogsAgree, OneRequest, Ongoing
<1>8. DialogTypeOK'
    BY DEF SessionIInv, DialogsAgree, DialogTypeOK
<1>9. QED
    BY <1>6, <1>7, <1>8 DEF DialogIInv

\* A new page has no dialog and no request.
LEMMA NewPageAgrees ==
    ASSUME NewPage, calls' = <<>>
    PROVE  DialogsAgree'
<1>1. DOMAIN calls' = {}
    OBVIOUS
<1>2. QED
    BY <1>1, MarkupAssumption DEF NewPage, DialogsAgree, Busy

\* The dialogs agree as long as the requests are the same.
LEMMA SameRequestsAgree ==
    ASSUME DialogsAgree, SamePage, DOMAIN calls' = DOMAIN calls,
           \A k \in DOMAIN calls : calls'[k].request = calls[k].request
    PROVE  DialogsAgree'
<1>1. /\ createTaskLock' = createTaskLock /\ deleteTaskLock' = deleteTaskLock
      /\ deletion' = deletion /\ historyMarkup' = historyMarkup
    BY DEF SamePage, dialogVars
<1>2. \A kind : Busy(kind)' <=> Busy(kind)
    BY DEF Busy
<1>3. QED
    BY <1>1, <1>2 DEF DialogsAgree

(* Ask adds a call.                                                        *)
LEMMA AskEffect ==
    ASSUME SessionIInv, NEW request \in Request, NEW again \in BOOLEAN, Ask(request, again)
    PROVE  /\ SessionIInv'
           /\ Len(calls) \in Nat
           /\ DOMAIN calls = 1..Len(calls) /\ DOMAIN calls' = 1..(Len(calls) + 1)
           /\ \A k \in 1..Len(calls) : calls'[k] = calls[k]
           /\ calls'[Len(calls) + 1].request = request
           /\ \A kind : Busy(kind)' <=> Busy(kind) \/ kind = request
<1>1. PICK p \in Promise : calls' = Append(calls, [request |-> request, token |-> p])
    BY DEF Ask
<1>2. calls \in Seq(Call) /\ Len(calls) \in Nat /\ DOMAIN calls = 1..Len(calls)
    BY DEF SessionIInv, SessionTypeOK
<1>3. [request |-> request, token |-> p] \in Call
    BY DEF Call
<1>4. /\ DOMAIN calls' = 1..(Len(calls) + 1)
      /\ \A k \in 1..Len(calls) : calls'[k] = calls[k]
      /\ calls'[Len(calls) + 1].request = request
    BY <1>1, <1>2, <1>3
<1>5. \A k \in 1..(Len(calls) + 1) : k \in 1..Len(calls) \/ k = Len(calls) + 1
    BY <1>2
<1>6. Len(calls) + 1 \in 1..(Len(calls) + 1) /\ \A k \in 1..Len(calls) : k \in 1..(Len(calls) + 1)
    BY <1>2
<1>7. \A kind : Busy(kind)' <=> Busy(kind) \/ kind = request
    BY <1>2, <1>4, <1>5, <1>6 DEF Busy
<1>8. QED
    BY <1>2, <1>4, <1>7, AskIInv
\* A dialog that is not locked sends its only request of a kind.
LEMMA AskIsOnlyOne ==
    ASSUME SessionIInv, NEW request \in Request, NEW again \in BOOLEAN, Ask(request, again),
           NEW kind, kind = request => ~Busy(kind),
           \A j, k \in DOMAIN calls : calls[j].request = kind /\ calls[k].request = kind => j = k
    PROVE  \A j, k \in DOMAIN calls' :
              calls'[j].request = kind /\ calls'[k].request = kind => j = k
<1>1. /\ Len(calls) \in Nat
      /\ DOMAIN calls = 1..Len(calls) /\ DOMAIN calls' = 1..(Len(calls) + 1)
      /\ \A k \in 1..Len(calls) : calls'[k] = calls[k]
      /\ calls'[Len(calls) + 1].request = request
    BY AskEffect
<1>2. \A k \in 1..(Len(calls) + 1) : k \in 1..Len(calls) \/ k = Len(calls) + 1
    BY <1>1
<1>3. CASE kind = request
    <2>1. \A k \in 1..Len(calls) : calls'[k].request # kind
        BY <1>1, <1>3 DEF Busy
    <2>2. QED
        BY <1>1, <1>2, <2>1
<1>4. CASE kind # request
    <2>1. calls'[Len(calls) + 1].request # kind
        BY <1>1, <1>4
    <2>2. QED
        BY <1>1, <1>2, <2>1
<1>5. QED
    BY <1>3, <1>4

\* DialogIInv is kept by a dialog's request,
LEMMA AskingIInv ==
    ASSUME DialogIInv, createTask \/ deleteTask \/ showTaskHistory
    PROVE  DialogIInv'
<1>1. SessionIInv /\ DialogsAgree
    BY DialogsAgreeNow
<1>2. ASSUME createTask PROVE SessionIInv' /\ DialogsAgree'
    <2>1. /\ ~createTaskLock /\ Ask("createTask", FALSE) /\ createTaskLock' = TRUE
          /\ deleteTaskLock' = deleteTaskLock /\ deletion' = deletion
          /\ historyMarkup' = historyMarkup
        BY <1>2 DEF createTask
    <2>2. "createTask" \in Request
        BY DEF Request
    <2>3. SessionIInv' /\ \A kind : Busy(kind)' <=> Busy(kind) \/ kind = "createTask"
        BY <1>1, <2>1, <2>2, AskEffect
    <2>4. ~Busy("createTask")
        BY <1>1, <2>1 DEF DialogsAgree
    <2>5. \A j, k \in DOMAIN calls' :
             calls'[j].request = "createTask" /\ calls'[k].request = "createTask" => j = k
        BY <1>1, <2>1, <2>2, <2>4, AskIsOnlyOne DEF DialogsAgree
    <2>6. \A j, k \in DOMAIN calls' :
             calls'[j].request = "deleteTask" /\ calls'[k].request = "deleteTask" => j = k
        BY <1>1, <2>1, <2>2, AskIsOnlyOne DEF DialogsAgree
    <2>7. QED
        BY <1>1, <2>1, <2>3, <2>5, <2>6 DEF DialogsAgree
<1>3. ASSUME deleteTask PROVE SessionIInv' /\ DialogsAgree'
    <2>1. /\ ~deleteTaskLock /\ Ask("deleteTask", FALSE) /\ deleteTaskLock' = TRUE
          /\ createTaskLock' = createTaskLock /\ deletion' = deletion
          /\ historyMarkup' = historyMarkup
        BY <1>3 DEF deleteTask
    <2>2. "deleteTask" \in Request
        BY DEF Request
    <2>3. SessionIInv' /\ \A kind : Busy(kind)' <=> Busy(kind) \/ kind = "deleteTask"
        BY <1>1, <2>1, <2>2, AskEffect
    <2>4. ~Busy("deleteTask")
        BY <1>1, <2>1 DEF DialogsAgree
    <2>5. \A j, k \in DOMAIN calls' :
             calls'[j].request = "deleteTask" /\ calls'[k].request = "deleteTask" => j = k
        BY <1>1, <2>1, <2>2, <2>4, AskIsOnlyOne DEF DialogsAgree
    <2>6. \A j, k \in DOMAIN calls' :
             calls'[j].request = "createTask" /\ calls'[k].request = "createTask" => j = k
        BY <1>1, <2>1, <2>2, AskIsOnlyOne DEF DialogsAgree
    <2>7. QED
        BY <1>1, <2>1, <2>3, <2>5, <2>6 DEF DialogsAgree
<1>4. ASSUME showTaskHistory PROVE SessionIInv' /\ DialogsAgree'
    <2>1. /\ Ask("taskHistory", TRUE) /\ historyMarkup' = "loading"
          /\ createTaskLock' = createTaskLock /\ deletion' = deletion
          /\ deleteTaskLock' = deleteTaskLock
        BY <1>4 DEF showTaskHistory
    <2>2. "taskHistory" \in Request
        BY DEF Request
    <2>3. SessionIInv' /\ \A kind : Busy(kind)' <=> Busy(kind) \/ kind = "taskHistory"
        BY <1>1, <2>1, <2>2, AskEffect
    <2>4. \A j, k \in DOMAIN calls' :
             calls'[j].request = "deleteTask" /\ calls'[k].request = "deleteTask" => j = k
        BY <1>1, <2>1, <2>2, AskIsOnlyOne DEF DialogsAgree
    <2>5. \A j, k \in DOMAIN calls' :
             calls'[j].request = "createTask" /\ calls'[k].request = "createTask" => j = k
        BY <1>1, <2>1, <2>2, AskIsOnlyOne DEF DialogsAgree
    <2>6. QED
        BY <1>1, <2>1, <2>3, <2>4, <2>5 DEF DialogsAgree
<1>5. QED
    BY <1>2, <1>3, <1>4, DialogsAgreeNext

(* An answer takes away the call it answers, and no other.                 *)
LEMMA AnswerTakesOne ==
    ASSUME SessionIInv, NEW k \in DOMAIN calls, NEW outcome, Answer(k, outcome), NEW kind
    PROVE  /\ kind # calls[k].request => (Busy(kind)' <=> Busy(kind))
           /\ (\A i, j \in DOMAIN calls :
                  calls[i].request = kind /\ calls[j].request = kind => i = j) =>
                 /\ \A i, j \in DOMAIN calls' :
                       calls'[i].request = kind /\ calls'[j].request = kind => i = j
                 /\ kind = calls[k].request => ~Busy(kind)'
<1> DEFINE old(j) == IF j < k THEN j ELSE j + 1
<1>1. /\ k \in 1..Len(calls) /\ Len(calls) \in Nat
      /\ DOMAIN calls = 1..Len(calls) /\ DOMAIN calls' = 1..(Len(calls) - 1)
      /\ \A j \in 1..(Len(calls) - 1) :
            calls'[j] = IF j < k THEN calls[j] ELSE calls[j + 1]
    BY AnswerEffect
<1>2. \A j \in 1..(Len(calls) - 1) :
         /\ old(j) \in 1..Len(calls) /\ old(j) # k
         /\ calls'[j] = calls[old(j)]
    BY <1>1
<1>3. \A i, j \in 1..(Len(calls) - 1) : old(i) = old(j) => i = j
    BY <1>1
<1>4. ASSUME NEW i \in 1..Len(calls), i # k
      PROVE  \E j \in 1..(Len(calls) - 1) : old(j) = i
    <2>1. CASE i < k
        BY <1>1, <2>1
    <2>2. CASE i > k
        <3>1. i - 1 \in 1..(Len(calls) - 1) /\ old(i - 1) = i
            BY <1>1, <2>2
        <3>2. QED
            BY <3>1
    <2>3. QED
        BY <1>1, <1>4, <2>1, <2>2
<1> HIDE DEF old
<1>5. ASSUME kind # calls[k].request
      PROVE  Busy(kind)' <=> Busy(kind)
    <2>1. ASSUME Busy(kind) PROVE Busy(kind)'
        <3>1. PICK i \in 1..Len(calls) : calls[i].request = kind
            BY <1>1, <2>1 DEF Busy
        <3>2. PICK j \in 1..(Len(calls) - 1) : old(j) = i
            BY <1>4, <1>5, <3>1
        <3>3. QED
            BY <1>1, <1>2, <3>1, <3>2 DEF Busy
    <2>2. ASSUME Busy(kind)' PROVE Busy(kind)
        <3>1. PICK j \in 1..(Len(calls) - 1) : calls'[j].request = kind
            BY <1>1, <2>2 DEF Busy
        <3>2. QED
            BY <1>1, <1>2, <3>1 DEF Busy
    <2>3. QED
        BY <2>1, <2>2
<1>6. ASSUME \A i, j \in DOMAIN calls :
                calls[i].request = kind /\ calls[j].request = kind => i = j
      PROVE  /\ \A i, j \in DOMAIN calls' :
                   calls'[i].request = kind /\ calls'[j].request = kind => i = j
             /\ kind = calls[k].request => ~Busy(kind)'
    <2>1. \A i, j \in DOMAIN calls' :
             calls'[i].request = kind /\ calls'[j].request = kind => i = j
        BY <1>1, <1>2, <1>3, <1>6
    <2>2. kind = calls[k].request => ~Busy(kind)'
        BY <1>1, <1>2, <1>6 DEF Busy
    <2>3. QED
        BY <2>1, <2>2
<1>7. QED
    BY <1>5, <1>6

\* by its answer,
LEMMA AnsweredIInv ==
    ASSUME DialogIInv, NEW k \in DOMAIN calls, Answered(k)
    PROVE  DialogIInv'
<1>1. SessionIInv /\ DialogsAgree
    BY DialogsAgreeNow
<1>2. PICK outcome \in {"ok", "hollow", "error"} :
         /\ Answer(k, outcome)
         /\ TaskCreated(k, outcome) \/ TaskDeleted(k) \/ HistoryLoaded(k, outcome)
    BY DEF Answered
<1>3. SessionIInv'
    BY <1>1, <1>2, AnswerEffect
<1>4. \A kind :
         /\ kind # calls[k].request => (Busy(kind)' <=> Busy(kind))
         /\ (\A i, j \in DOMAIN calls :
                calls[i].request = kind /\ calls[j].request = kind => i = j) =>
               /\ \A i, j \in DOMAIN calls' :
                     calls'[i].request = kind /\ calls'[j].request = kind => i = j
               /\ kind = calls[k].request => ~Busy(kind)'
    BY <1>1, <1>2, AnswerTakesOne
<1>5. /\ \A i, j \in DOMAIN calls' :
            calls'[i].request = "createTask" /\ calls'[j].request = "createTask" => i = j
      /\ \A i, j \in DOMAIN calls' :
            calls'[i].request = "deleteTask" /\ calls'[j].request = "deleteTask" => i = j
      /\ \A kind \in {"createTask", "deleteTask"} : kind = calls[k].request => ~Busy(kind)'
      /\ \A kind : kind # calls[k].request => (Busy(kind)' <=> Busy(kind))
    BY <1>1, <1>4 DEF DialogsAgree
<1>6. CASE TaskCreated(k, outcome)
    <2>1. /\ calls[k].request = "createTask" /\ createTaskLock' = FALSE
          /\ deleteTaskLock' = deleteTaskLock /\ deletion' = deletion
          /\ historyMarkup' = historyMarkup
        BY <1>6 DEF TaskCreated, resetCreateTask, Ongoing
    <2>2. /\ ~Busy("createTask")' /\ (Busy("deleteTask")' <=> Busy("deleteTask"))
          /\ (Busy("taskHistory")' <=> Busy("taskHistory"))
        BY <1>5, <2>1
    <2>3. DialogsAgree'
        BY <1>1, <1>5, <2>1, <2>2 DEF DialogsAgree
    <2>4. QED
        BY <1>3, <2>3, DialogsAgreeNext
<1>7. CASE TaskDeleted(k)
    <2>1. /\ calls[k].request = "deleteTask" /\ deleteTaskLock' = FALSE
          /\ createTaskLock' = createTaskLock /\ deletion' = FALSE
          /\ historyMarkup' = historyMarkup
        BY <1>7 DEF TaskDeleted, Ongoing
    <2>2. /\ ~Busy("deleteTask")' /\ (Busy("createTask")' <=> Busy("createTask"))
          /\ (Busy("taskHistory")' <=> Busy("taskHistory"))
        BY <1>5, <2>1
    <2>3. DialogsAgree'
        BY <1>1, <1>5, <2>1, <2>2 DEF DialogsAgree
    <2>4. QED
        BY <1>3, <2>3, DialogsAgreeNext
<1>8. CASE HistoryLoaded(k, outcome)
    <2>1. /\ calls[k].request = "taskHistory" /\ deleteTaskLock' = deleteTaskLock
          /\ createTaskLock' = createTaskLock /\ deletion' = deletion
          /\ historyMarkup' \in {"history", "error"}
        BY <1>8 DEF HistoryLoaded, HistoryShown, Ongoing
    <2>2. /\ (Busy("deleteTask")' <=> Busy("deleteTask"))
          /\ (Busy("createTask")' <=> Busy("createTask"))
        BY <1>5, <2>1
    <2>3. historyMarkup' # "loading"
        BY <2>1
    <2>4. DialogsAgree'
        BY <1>1, <1>5, <2>1, <2>2, <2>3 DEF DialogsAgree
    <2>5. QED
        BY <1>3, <2>4, DialogsAgreeNext
<1>9. QED
    BY <1>2, <1>6, <1>7, <1>8

\* by a login,
LEMMA LoginUserIInv ==
    ASSUME DialogIInv, LoginUser
    PROVE  DialogIInv'
<1>1. PICK email \in Typed : Login(email) /\ IF page' = page THEN SamePage ELSE NewPage
    BY DEF LoginUser
<1>2. SessionIInv /\ DialogsAgree
    BY DialogsAgreeNow
<1>3. SessionIInv'
    BY <1>1, <1>2, LoginIInv
<1>4. /\ page = "login"
      /\ (page' = page /\ calls' = calls) \/ (page' = "board" /\ calls' = <<>>)
    <2>1. PICK p \in Promise :
             IF p \in Pending THEN UNCHANGED <<page, isLoggedIn, userInfo, stored, calls, strays>>
             ELSE LoggedIn(p, email) /\ Open("board", userInfo')
        BY <1>1 DEF Login
    <2>2. page = "login"
        BY <1>1 DEF Login
    <2>3. CASE p \in Pending
        BY <2>1, <2>2, <2>3
    <2>4. CASE p \notin Pending
        BY <2>1, <2>2, <2>4 DEF Open
    <2>5. QED
        BY <2>3, <2>4
<1>5. CASE page' = page /\ calls' = calls
    <2>1. SamePage
        BY <1>1, <1>5
    <2>2. DialogsAgree'
        BY <1>2, <1>5, <2>1, SameRequestsAgree
    <2>3. QED
        BY <1>3, <2>2, DialogsAgreeNext
<1>6. CASE page' = "board" /\ calls' = <<>>
    <2>1. NewPage
        BY <1>1, <1>4, <1>6
    <2>2. DialogsAgree'
        BY <1>6, <2>1, NewPageAgrees
    <2>3. QED
        BY <1>3, <2>2, DialogsAgreeNext
<1>7. QED
    BY <1>4, <1>5, <1>6

\* by an authentication's end,
LEMMA AuthenticatedIInv ==
    ASSUME DialogIInv, NEW i \in Auths, Authenticated(i)
    PROVE  DialogIInv'
<1>1. SessionIInv /\ DialogsAgree
    BY DialogsAgreeNow
<1>2. CASE AuthRetries(i) /\ SamePage
    <2>1. SessionIInv' /\ calls' = calls
        BY <1>1, <1>2, AuthRetriesIInv DEF AuthRetries
    <2>2. DialogsAgree'
        BY <1>1, <1>2, <2>1, SameRequestsAgree
    <2>3. QED
        BY <2>1, <2>2, DialogsAgreeNext
<1>3. CASE /\ AuthSucceeds(i) \/ AuthFails(i)
           /\ IF auths[i].login = None THEN SamePage ELSE NewPage
    <2>1. SessionIInv'
        BY <1>1, <1>3, AuthSucceedsIInv, AuthFailsIInv
    <2>2. PICK token : Resume(i, token)
        BY <1>3 DEF AuthSucceeds, AuthFails
    <2>3. CASE auths[i].login = None
        <3>1. calls' = [k \in DOMAIN calls |->
                 IF calls[k].token = [auth |-> i] THEN [calls[k] EXCEPT !.token = token]
                 ELSE calls[k]]
            BY <2>2, <2>3 DEF Resume
        <3>2. \A k \in DOMAIN calls : calls[k] \in Call
            BY <1>1 DEF SessionIInv, SessionTypeOK
        <3>3. \A k \in DOMAIN calls : [calls[k] EXCEPT !.token = token].request = calls[k].request
            BY <3>2 DEF Call
        <3>4. DOMAIN calls' = DOMAIN calls /\ \A k \in DOMAIN calls : calls'[k].request = calls[k].request
            BY <3>1, <3>3
        <3>5. DialogsAgree'
            BY <1>1, <1>3, <2>3, <3>4, SameRequestsAgree
        <3>6. QED
            BY <2>1, <3>5, DialogsAgreeNext
    <2>4. CASE auths[i].login # None
        <3>1. calls' = <<>>
            BY <2>2, <2>4 DEF Resume, Open
        <3>2. DialogsAgree'
            BY <1>3, <2>4, <3>1, NewPageAgrees
        <3>3. QED
            BY <2>1, <3>2, DialogsAgreeNext
    <2>5. QED
        BY <2>3, <2>4
<1>4. QED
    BY <1>2, <1>3 DEF Authenticated

\* by leaving and opening pages,
LEMMA NavigateIInv ==
    ASSUME DialogIInv, Navigate
    PROVE  DialogIInv'
<1>1. SessionIInv
    BY DialogsAgreeNow
<1>2. SessionIInv'
    BY <1>1, LogoutIInv, VisitIInv, ReloadIInv DEF Navigate
<1>3. NewPage /\ calls' = <<>>
    BY DEF Navigate, Logout, VisitLogin, VisitBoard, Reload, Open
<1>4. DialogsAgree'
    BY <1>3, NewPageAgrees
<1>5. QED
    BY <1>2, <1>4, DialogsAgreeNext

\* and by the choice of a task, old tokens and no step at all.
LEMMA OtherStepsIInv ==
    ASSUME DialogIInv, startDeleteTask \/ (Expire /\ SamePage) \/ UNCHANGED vars
    PROVE  DialogIInv'
<1>1. SessionIInv /\ DialogsAgree
    BY DialogsAgreeNow
<1>2. CASE startDeleteTask
    <2>1. /\ UNCHANGED sessionVars /\ deletion' = TRUE
          /\ createTaskLock' = createTaskLock /\ deleteTaskLock' = deleteTaskLock
          /\ historyMarkup' = historyMarkup
        BY <1>2 DEF startDeleteTask
    <2>2. calls' = calls
        BY <2>1 DEF sessionVars
    <2>3. DialogsAgree'
        BY <1>1, <2>1, <2>2 DEF DialogsAgree, Busy
    <2>4. SessionIInv'
        BY <1>1, <2>1, SameSessionIInv
    <2>5. QED
        BY <2>3, <2>4, DialogsAgreeNext
<1>3. CASE Expire /\ SamePage
    <2>1. SessionIInv' /\ calls' = calls
        BY <1>1, <1>3, ExpireIInv DEF Expire
    <2>2. DialogsAgree'
        BY <1>1, <1>3, <2>1, SameRequestsAgree
    <2>3. QED
        BY <2>1, <2>2, DialogsAgreeNext
<1>4. CASE UNCHANGED vars
    <2>1. UNCHANGED sessionVars /\ SamePage /\ calls' = calls
        BY <1>4 DEF vars, SamePage, sessionVars
    <2>2. SessionIInv' /\ DialogsAgree'
        BY <1>1, <2>1, SameSessionIInv, SameRequestsAgree
    <2>3. QED
        BY <2>2, DialogsAgreeNext
<1>5. QED
    BY <1>2, <1>3, <1>4

-----------------------------------------------------------------------------
\* Nobody is logged in at first.
LEMMA InitDialogIInv == Init => DialogIInv
<1> SUFFICES ASSUME Init PROVE DialogIInv
    OBVIOUS
<1>1. /\ page = "login" /\ isLoggedIn = FALSE /\ userInfo = None /\ stored = None
      /\ authPromise = None /\ lastEmail = None /\ auths = [i \in Auths |-> None]
      /\ calls = <<>> /\ issued = 0 /\ expired = 0
      /\ loggedOut = 0 /\ crossed = {} /\ strays = {}
    BY DEF Init, SessionInit
<1>2. calls \in Seq(Call) /\ DOMAIN calls = {} /\ MaxTokens \in Nat
    BY <1>1, SessionAssumption
<1>3. SessionTypeOK
    <2>1. issued \in 0..MaxTokens /\ expired \in 0..MaxTokens /\ loggedOut \in 0..MaxTokens
        BY <1>1, <1>2
    <2>2. auths \in [Auths -> Auth \cup {None}] /\ isLoggedIn \in BOOLEAN
        BY <1>1
    <2>3. Awaited(authPromise)
        BY <1>1, NoneIsNothing DEF Awaited
    <2>4. QED
        BY <1>1, <1>2, <2>1, <2>2, <2>3 DEF SessionTypeOK
<1>4. StoredWithUser /\ NamesAreLower /\ StoredIsOneUser /\ HistoryAgrees
    BY <1>1 DEF StoredWithUser, NamesAreLower, StoredIsOneUser, HistoryAgrees
<1>5. OneUser /\ AuthsAreOfUser
    BY <1>1, <1>2, NoneIsNothing DEF OneUser, OfUser, AuthsAreOfUser, AccessToken
<1>6. SessionIInv
    BY <1>3, <1>4, <1>5 DEF SessionIInv
<1>7. \A kind : Ongoing(kind) = {}
    BY <1>2 DEF Ongoing
<1>8. /\ createTaskLock = FALSE /\ deleteTaskLock = FALSE /\ deletion = FALSE
      /\ historyMarkup = None /\ None # "loading"
    BY MarkupAssumption DEF Init
<1>9. LocksFollowRequests /\ HistoryIsAwaited /\ OneRequest("createTask") /\ OneRequest("deleteTask")
    BY <1>7, <1>8 DEF LocksFollowRequests, HistoryIsAwaited, OneRequest
<1>10. QED
    BY <1>3, <1>6, <1>8, <1>9 DEF DialogIInv, DialogTypeOK

\* Every step keeps it.
LEMMA NextDialogIInv == DialogIInv /\ [Next]_vars => DialogIInv'
<1> SUFFICES ASSUME DialogIInv, [Next]_vars PROVE DialogIInv'
    OBVIOUS
<1>1. CASE LoginUser
    BY <1>1, LoginUserIInv
<1>2. CASE Navigate
    BY <1>2, NavigateIInv
<1>3. CASE createTask \/ deleteTask \/ showTaskHistory
    BY <1>3, AskingIInv
<1>4. CASE startDeleteTask \/ (Expire /\ SamePage) \/ UNCHANGED vars
    BY <1>4, OtherStepsIInv
<1>5. ASSUME NEW i \in Auths, Authenticated(i) PROVE DialogIInv'
    BY <1>5, AuthenticatedIInv
<1>6. ASSUME NEW k \in DOMAIN calls, Answered(k) PROVE DialogIInv'
    BY <1>6, AnsweredIInv
<1>7. QED
    BY <1>1, <1>2, <1>3, <1>4, <1>5, <1>6 DEF Next

(* The inductive invariant, and the safety properties it implies.          *)
THEOREM DialogInvariance == Spec => []DialogIInv
<1>1. Init => DialogIInv
    BY InitDialogIInv
<1>2. DialogIInv /\ [Next]_vars => DialogIInv'
    BY NextDialogIInv
<1>3. QED
    BY <1>1, <1>2, PTL DEF Spec

(* The state of session and dialogs has its type; above all, whoever waits *)
(* for a token waits for an authentication that is under way.              *)
THEOREM DialogTypeCorrectness == Spec => []DialogTypeOK
<1>1. DialogIInv => DialogTypeOK
    BY DEF DialogIInv
<1>2. QED
    BY <1>1, DialogInvariance, PTL

(* A reload finds the user there is, for any number of authentications.    *)
THEOREM UserIsStored == Spec => []StoredWithUser
<1>1. DialogIInv => StoredWithUser
    BY DEF DialogIInv, SessionIInv
<1>2. QED
    BY <1>1, DialogInvariance, PTL

(* However logins, logouts, reloads and authentications overlap: a token   *)
(* the tab keeps or sends came after the last logout, and is its user's    *)
(* unless its POST crossed a change of the user or a login took it over    *)
(* from another email.                                                     *)
THEOREM TokensOfOneUser == Spec => []OneUser
<1>1. DialogIInv => OneUser
    BY DEF DialogIInv, SessionIInv
<1>2. QED
    BY <1>1, DialogInvariance, PTL

(* A dialog is locked while a request of it is under way, and only then.   *)
THEOREM LocksAreForRequests == Spec => []LocksFollowRequests
<1>1. DialogIInv => LocksFollowRequests
    BY DEF DialogIInv
<1>2. QED
    BY <1>1, DialogInvariance, PTL

(* A history dialog that shows it is loading has a request under way.      *)
THEOREM HistoryHasRequest == Spec => []HistoryIsAwaited
<1>1. DialogIInv => HistoryIsAwaited
    BY DEF DialogIInv
<1>2. QED
    BY <1>1, DialogInvariance, PTL
=============================================================================
