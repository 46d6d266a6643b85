------------------------------ MODULE Session ------------------------------
(***************************************************************************)
(* The session of one browser tab: AuthenticationService keeps its user    *)
(* and a promise of a token, ApiService asks it for the token before each  *)
(* request, the login page and the header log in and out, and the gateway  *)
(* issues tokens and lets them in for a day.                               *)
(*                                                                         *)
(* A callback runs to its end before the next one: an answer and all that  *)
(* waited for it are one action.  What the pages ask for is left to the    *)
(* modules that extend this one.                                           *)
(***************************************************************************)
EXTENDS Naturals, Sequences, SequencesExt

CONSTANTS
    Typed,      \* the emails that users type
    Lower,      \* Lower[e]: e in lower case
    None,       \* null and undefined
    MaxTokens,  \* bound on the tokens issued
    MaxAuths,   \* bound on the authentications under way
    MaxCalls    \* bound on the calls of ApiService under way

ASSUME SessionAssumption ==
    /\ Typed \subseteq DOMAIN Lower
    /\ \A e \in DOMAIN Lower : Lower[e] \in DOMAIN Lower /\ Lower[Lower[e]] = Lower[e]
    /\ {MaxTokens, MaxAuths, MaxCalls} \subseteq Nat
    /\ None \notin DOMAIN Lower

VARIABLES
    page,        \* the view of the current route
    isLoggedIn,  \* of its header: there is a button to log out
    userInfo,    \* of AuthenticationService
    stored,      \* userInfo in the tab's session storage
    authPromise,
    lastEmail,
    auths,       \* auths[i]: a POST /api/authenticate under way, or None
    calls,       \* the page's calls of ApiService under way, in their order
    issued,      \* how many tokens came
    expired      \* the first so many of them are a day old

\* History variables, of which OneUser speaks.
VARIABLES
    loggedOut,   \* issued at the last logout
    crossed,     \* the auths whose answer may not be the tab's user's
    strays       \* the tokens since then that may not be

historyVars == <<loggedOut, crossed, strays>>
sessionVars == <<page, isLoggedIn, userInfo, stored, authPromise, lastEmail,
                 auths, calls, issued, expired, historyVars>>
serviceVars == <<userInfo, stored, authPromise, lastEmail>>

Emails == DOMAIN Lower
Auths == 1..MaxAuths
Token == [user: Emails, n: 1..MaxTokens]
UserInfo == [accessToken: Token \cup {None}, userName: Emails]

\* "again" if a failed POST is to be repeated, and the email of the login that
\* waits for it, if any.
Auth == [email: Emails \cup {None}, again: BOOLEAN, login: Emails \cup {None}]

\* A promise of auth: resolved, or settled by one of auths.
Pending == [auth: Auths]
Promise == Token \cup Pending

Request == {"createTask", "deleteTask", "taskHistory"}

\* The request is sent with this token once it is no longer a promise.
Call == [request: Request, token: Promise \cup {None}]

\* None is no email, token, promise or authentication.
ASSUME NoneAssumption == None \notin UserInfo \cup Promise \cup Auth \cup Nat

\* Whoever waits for an authentication waits for one under way.
Awaited(promise) == promise \in Pending => auths[promise.auth] # None

SessionTypeOK ==
    /\ page \in {"login", "board"}
    /\ isLoggedIn \in BOOLEAN
    /\ userInfo \in UserInfo \cup {None}
    /\ stored \in UserInfo \cup {None}
    /\ authPromise \in Promise \cup {None}
    /\ lastEmail \in Emails \cup {None}
    /\ auths \in [Auths -> Auth \cup {None}]
    /\ calls \in Seq(Call)
    /\ {issued, expired, loggedOut} \subseteq 0..MaxTokens
    /\ crossed \subseteq Auths
    /\ strays \subseteq 1..MaxTokens
    /\ Awaited(authPromise)
    /\ \A k \in DOMAIN calls : Awaited(calls[k].token)

SessionInit ==
    /\ page = "login"
    /\ isLoggedIn = FALSE
    /\ userInfo = None
    /\ stored = None
    /\ authPromise = None
    /\ lastEmail = None
    /\ auths = [i \in Auths |-> None]
    /\ calls = <<>>
    /\ issued = 0
    /\ expired = 0
    /\ loggedOut = 0
    /\ crossed = {}
    /\ strays = {}

-----------------------------------------------------------------------------
(* auth and those who call it.                                             *)

UserName == IF userInfo = None THEN None ELSE userInfo.userName
AccessToken == IF userInfo = None THEN None ELSE userInfo.accessToken

currentEmail(email) ==
    CASE email # None -> email
      [] email = None /\ UserName # None -> UserName
      [] OTHER -> lastEmail

\* auth(email, again) returns p.
auth(email, again, login, p) ==
    LET cached == authPromise # None /\ ~again
    IN  /\ authPromise' = p
        /\ \/ cached /\ p = authPromise
           \/ ~cached /\ AccessToken # None /\ p = AccessToken
           \/ ~cached /\ AccessToken = None /\ p \in Pending /\ auths[p.auth] = None
        /\ auths' =
              CASE p \notin Pending -> auths
                [] p \in Pending /\ cached ->
                      IF login = None THEN auths ELSE [auths EXCEPT ![p.auth].login = login]
                [] OTHER ->
                      [auths EXCEPT ![p.auth] =
                          [email |-> currentEmail(email), again |-> again, login |-> login]]

\* The user who asked for a POST may not be the one who gets its answer: those
\* under way for calls cross the change of the tab's user, if there is one.
Crossed(others) ==
    crossed \cup others \cup
        {i \in Auths : auths[i] # None /\ auths[i].login = None /\ UserName' # UserName}

\* A page opens.  The calls of the last one go on, and end in its scope,
\* which is seen no more.
Open(route, user) ==
    /\ page' = route
    /\ isLoggedIn' = (user # None)
    /\ calls' = <<>>

\* A mutant: the user is kept in memory only.
KeepInMemory(token, email) ==
    /\ userInfo' = [accessToken |-> token, userName |-> Lower[email]]
    /\ stored' = stored

\* A mutant: the email is kept as typed.
AsTyped(token, email) ==
    /\ userInfo' = [accessToken |-> token, userName |-> email]
    /\ stored' = userInfo'

\* Differences of case aside.
SameEmail(some, email) == some # None /\ Lower[some] = Lower[email]

\* login, once it has its token or none.
LoggedIn(token, email) ==
    /\ userInfo' = [accessToken |-> token, userName |-> Lower[email]]
    /\ stored' = userInfo'

\* KanbanLogin: a login with a promise that is settled ends at once.
Login(email) ==
    /\ page = "login"
    /\ \E p \in Promise :
          /\ auth(email, FALSE, email, p)
          /\ IF p \in Pending
             THEN /\ UNCHANGED <<page, isLoggedIn, userInfo, stored, calls, strays>>
                  /\ crossed' = Crossed({i \in {p.auth} : ~SameEmail(auths'[i].email, email)})
             ELSE /\ LoggedIn(p, email) /\ Open("board", userInfo')
                  /\ strays' = IF SameEmail(p.user, email) THEN strays ELSE strays \cup {p.n}
                  /\ crossed' = Crossed({})
    /\ UNCHANGED <<lastEmail, issued, expired, loggedOut>>

\* ApiService: auth().then(makeRequestFor(..)).
Ask(request, again) ==
    /\ page = "board"
    /\ Len(calls) < MaxCalls
    /\ \E p \in Promise :
          /\ auth(None, again, None, p)
          /\ calls' = Append(calls, [request |-> request, token |-> p])
          /\ crossed' = crossed \cup {i \in Auths : userInfo = None /\ p = [auth |-> i]}
    /\ UNCHANGED <<page, isLoggedIn, userInfo, stored, lastEmail, issued, expired,
                   loggedOut, strays>>

\* What waited for auths[i] goes on, with a token or without one.
Resume(i, token) ==
    /\ auths' = [auths EXCEPT ![i] = None]
    /\ IF auths[i].login # None THEN Open("board", userInfo')
       ELSE /\ calls' = [k \in DOMAIN calls |->
                  IF calls[k].token = [auth |-> i] THEN [calls[k] EXCEPT !.token = token]
                  ELSE calls[k]]
            /\ UNCHANGED <<page, isLoggedIn>>

\* AuthController issues a token; a login makes its user the tab's.
AuthSucceeds(i) ==
    /\ auths[i] # None
    /\ auths[i].email # None
    /\ issued < MaxTokens
    /\ issued' = issued + 1
    /\ LET token == [user |-> auths[i].email, n |-> issued']
       IN  /\ authPromise' = token
           /\ lastEmail' = auths[i].email
           /\ IF auths[i].login = None THEN UNCHANGED <<userInfo, stored>>
              ELSE LoggedIn(token, auths[i].login)
           /\ Resume(i, token)
    /\ crossed' = Crossed({}) \ {i}
    /\ strays' = IF i \in crossed THEN strays \cup {issued'} ELSE strays
    /\ UNCHANGED <<expired, loggedOut>>

\* A mutant: againUsed is not set.
RetryAgain(attempt) == attempt

Retried(attempt) == [attempt EXCEPT !.again = FALSE]

\* The first error is answered with the same POST.
AuthRetries(i) ==
    /\ auths[i] # None
    /\ auths[i].again
    /\ auths' = [auths EXCEPT ![i] = Retried(@)]
    /\ UNCHANGED <<page, isLoggedIn, serviceVars, calls, issued, expired, historyVars>>

\* A mutant: the promise of no token is kept.
KeepFailed == authPromise

Failed == None

\* The error is caught: what waited goes on, a login as if it had succeeded.
\* The session storage keeps the user that was there.  So it is with an answer
\* without data, which is not repeated.
AuthFails(i) ==
    /\ auths[i] # None
    /\ authPromise' = Failed
    /\ lastEmail' = None
    /\ IF auths[i].login = None THEN userInfo' = None /\ UNCHANGED stored
       ELSE LoggedIn(None, auths[i].login)
    /\ Resume(i, None)
    /\ crossed' = Crossed({}) \ {i}
    /\ UNCHANGED <<issued, expired, loggedOut, strays>>

\* A mutant: the token's promise is not forgotten.
KeepPromise == authPromise

Forget == None

\* KanbanHeader: logout, then the route is loaded again and refused.
Logout ==
    /\ page = "board" \/ isLoggedIn
    /\ userInfo' = None
    /\ stored' = None
    /\ authPromise' = Forget
    /\ lastEmail' = None
    /\ Open("login", None)
    /\ loggedOut' = issued
    /\ crossed' = Crossed({})
    /\ strays' = {}
    /\ UNCHANGED <<auths, issued, expired>>

\* The back button, a bookmark: there is no guard on the login page.
VisitLogin ==
    /\ page = "board"
    /\ Open("login", userInfo)
    /\ UNCHANGED <<serviceVars, auths, issued, expired, historyVars>>

\* KanbanAppRoutes: any other route asks for a user.
VisitBoard ==
    /\ page = "login"
    /\ userInfo # None
    /\ Open("board", userInfo)
    /\ UNCHANGED <<serviceVars, auths, issued, expired, historyVars>>

\* The tab is reloaded: only the session storage is left.
Reload ==
    /\ userInfo' = stored
    /\ authPromise' = None
    /\ lastEmail' = None
    /\ auths' = [i \in Auths |-> None]
    /\ Open(IF stored = None THEN "login" ELSE page, stored)
    /\ crossed' = {}
    /\ UNCHANGED <<stored, issued, expired, loggedOut, strays>>

-----------------------------------------------------------------------------
(* The gateway.                                                            *)

\* TokenAuthenticationService
Valid(token) == token \in Token /\ token.n > expired

\* A token comes to be a day old.
Expire ==
    /\ expired < issued
    /\ expired' = expired + 1
    /\ UNCHANGED <<page, isLoggedIn, serviceVars, auths, calls, issued, historyVars>>

\* A request without a valid token is redirected to index.html; of one that
\* a service refused the body is passed on, which is empty, with status 200.
\* Both are a success to $http, and hollow.
Outcomes(token) == IF Valid(token) THEN {"ok", "hollow", "error"} ELSE {"hollow", "error"}

\* The answer to the call made k-th, or that there is none.
Answer(k, outcome) ==
    /\ calls[k].token \notin Pending
    /\ outcome \in Outcomes(calls[k].token)
    /\ calls' = RemoveAt(calls, k)
    /\ UNCHANGED <<page, isLoggedIn, serviceVars, auths, issued, expired, historyVars>>

-----------------------------------------------------------------------------
(* A user in memory is the one in the session storage, so that a reload    *)
(* changes neither the user nor the token, however authentications ended.  *)
StoredWithUser == userInfo # None => stored = userInfo

\* A token came after the last logout, for the tab's user.
OfUser(token) ==
    token \in Token =>
        /\ token.n > loggedOut
        /\ token.n \in strays \/ userInfo = None \/ Lower[token.user] = UserName

(* Whatever logins, logouts, reloads and authentications overlap: a token  *)
(* the tab keeps, waits with or sends came after the last logout, as did   *)
(* the email that authenticates next, and is the user's who is logged in.  *)
(* Not the user's, or there without a user, are strays alone: the token of *)
(* a POST that a call made and a change of the user crossed (its answer    *)
(* sets the promise whoever is there), and the one that a login found      *)
(* already there or on its way for another email (TokenNamesUser).         *)
OneUser ==
    /\ OfUser(AccessToken) /\ OfUser(authPromise)
    /\ \A k \in DOMAIN calls : OfUser(calls[k].token)
    /\ authPromise \in Token /\ userInfo = None => authPromise.n \in strays
    /\ lastEmail # None => issued > loggedOut

(* A session's requests are sent with a token of its user: the audit entry *)
(* of a command is made from the token (TaskCommandController:86).  Not    *)
(* so: login asks auth for a token, which returns the one it has without a *)
(* look at the email.                                                      *)
TokenNamesUser ==
    AccessToken # None => Lower[AccessToken.user] = UserName

-----------------------------------------------------------------------------
(* The inductive invariant, proved in BoardDialogs_proofs.                 *)

NamesAreLower ==
    \A info \in {userInfo, stored} : info # None => Lower[info.userName] = info.userName

\* The token that a reload brings back.
StoredIsOneUser ==
    stored # None /\ stored.accessToken # None =>
        /\ stored.accessToken.n > loggedOut
        /\ stored.accessToken.n \in strays \/ Lower[stored.accessToken.user] = stored.userName

\* Calls authenticate for the tab's user, logins for their own.
AuthsAreOfUser ==
    \A i \in Auths \ crossed : auths[i] # None =>
        /\ auths[i].email # None
        /\ IF auths[i].login = None THEN userInfo # None /\ Lower[auths[i].email] = UserName
           ELSE Lower[auths[i].email] = Lower[auths[i].login]

\* History keeps up with the state.
HistoryAgrees == loggedOut <= issued /\ \A i \in crossed : auths[i] # None

SessionIInv ==
    /\ SessionTypeOK
    /\ StoredWithUser
    /\ NamesAreLower
    /\ OneUser
    /\ StoredIsOneUser
    /\ AuthsAreOfUser
    /\ HistoryAgrees
=============================================================================
