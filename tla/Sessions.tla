------------------------------ MODULE Sessions -------------------------------
(***************************************************************************)
(* Login sessions of one user (internal/auth/login_service.go,             *)
(* database/repo/accounts/device_repository.go, api/login_handler.go,      *)
(* internal/user/user_service.go).                                         *)
(*                                                                         *)
(* A login makes a device with a refresh token; the browser keeps both in  *)
(* cookies.  A refresh replaces the row of the device by one with a fresh  *)
(* token, and the response replaces the cookie.  Tabs of a browser share   *)
(* its cookies and send their requests independently, so a token may be    *)
(* sent, looked up and rotated twice, and responses may be lost or arrive  *)
(* in another order.                                                       *)
(*                                                                         *)
(* Tokens are numbered in the order they are made, a device has the number *)
(* of its first token, a password the number of the change that set it.    *)
(* Expiry is left out: a token that expires takes its cookie with it.      *)
(* A statement may fail at any time, and the request ends there: that is   *)
(* also what becomes of the requests of a process that dies.               *)
(***************************************************************************)
EXTENDS Naturals

CONSTANTS
    Browsers,     \* browsers the user logs in with
    Tabs,         \* requests in flight
    MaxTokens,    \* bound: refresh tokens made
    MaxPassword   \* bound: password changes

ASSUME SessionsAssumption == MaxTokens \in Nat /\ MaxPassword \in Nat

VARIABLES
    password,   \* the password of the user
    made,       \* tokens made so far
    session,    \* session[d]: the token in the row of device d, 0 without a row
    epoch,      \* epoch[d]: the password the login of device d was checked with
    cookie,     \* cookie[b]: device and token in the cookies of b
    tab,        \* tab[t]: a request
    ended,      \* ghost: devices that a request has tried to log out or revoke
    raced,      \* ghost: those whose end raced with a request in flight or failed
    crossed     \* ghost: browsers that lost a response or crossed refreshes

sessionVars == <<password, made, session, epoch, cookie, tab, ended, raced, crossed>>

Tokens == 0 .. MaxTokens
Devices == 1 .. MaxTokens
Passwords == 0 .. MaxPassword
Pcs == {"idle", "create", "lookup", "rotate", "answer", "find", "logout", "update", "revoke"}

NoCookie == [device |-> 0, token |-> 0]

SessionTypeOK ==
    /\ password \in Passwords
    /\ made \in Tokens
    /\ session \in [Devices -> Tokens]
    /\ epoch \in [Devices -> Passwords]
    /\ cookie \in [Browsers -> [device : Tokens, token : Tokens]]
    /\ tab \in [Tabs -> [pc : Pcs, browser : Browsers, device : Tokens, token : Tokens,
                         password : Passwords]]
    /\ ended \subseteq Devices
    /\ raced \subseteq Devices
    /\ crossed \subseteq Browsers

SessionInit ==
    /\ password = 0
    /\ made = 0
    /\ session = [d \in Devices |-> 0]
    /\ epoch = [d \in Devices |-> 0]
    /\ cookie = [b \in Browsers |-> NoCookie]
    /\ tab \in [Tabs -> {[pc |-> "idle", browser |-> b, device |-> 0, token |-> 0,
                          password |-> 0] : b \in Browsers}]
    /\ ended = {}
    /\ raced = {}
    /\ crossed = {}

Go(t, pc) == tab' = [tab EXCEPT ![t].pc = pc]
End(t) ==
    tab' = [tab EXCEPT ![t].pc = "idle", ![t].device = 0, ![t].token = 0, ![t].password = 0]

\* Refreshes of device d that have found their token and not replaced it yet.
Rotating(d) == {t \in Tabs : tab[t].pc = "rotate" /\ tab[t].device = d}

---------------------------------------------------------------------------
\* LoginService.Login: ValidateCredentials reads the user, and a device is
\* created for whoever had the password then.

ValidateCredentials(t) ==
    /\ tab[t].pc = "idle"
    /\ tab' = [tab EXCEPT ![t].pc = "create", ![t].password = password]
    /\ UNCHANGED <<password, made, session, epoch, cookie, ended, raced, crossed>>

CreateLoginDevice(t) ==
    /\ tab[t].pc = "create"
    /\ \/ /\ made < MaxTokens
          /\ LET d == made + 1 IN
               /\ made' = d
               /\ session' = [session EXCEPT ![d] = d]
               /\ epoch' = [epoch EXCEPT ![d] = tab[t].password]
               /\ raced' = IF tab[t].password # password THEN raced \cup {d} ELSE raced
               /\ tab' = [tab EXCEPT ![t].pc = "answer", ![t].device = d, ![t].token = d]
       \/ End(t) /\ UNCHANGED <<made, session, epoch, raced>>
    /\ UNCHANGED <<password, cookie, ended, crossed>>

---------------------------------------------------------------------------
\* LoginService.RefreshToken

SendRefresh(t) ==
    LET c == cookie[tab[t].browser] IN
    /\ tab[t].pc = "idle"
    /\ c # NoCookie
    /\ tab' = [tab EXCEPT ![t].pc = "lookup", ![t].device = c.device, ![t].token = c.token]
    /\ UNCHANGED <<password, made, session, epoch, cookie, ended, raced, crossed>>

GetDevice(t) ==
    /\ tab[t].pc = "lookup"
    /\ \/ session[tab[t].device] = tab[t].token /\ Go(t, "rotate")
       \/ End(t)
    /\ UNCHANGED <<password, made, session, epoch, cookie, ended, raced, crossed>>

\* Mutant: the rows of all devices of the user are deleted.
RotateAll(t) ==
    /\ tab[t].pc = "rotate"
    /\ \/ /\ made < MaxTokens
          /\ made' = made + 1
          /\ session' = [d \in Devices |-> IF d = tab[t].device THEN made + 1 ELSE 0]
          /\ tab' = [tab EXCEPT ![t].pc = "answer", ![t].token = made + 1]
          /\ crossed' = IF \E u \in Tabs \ {t} : /\ tab[u].pc \in {"rotate", "answer"}
                                                 /\ tab[u].device = tab[t].device
                          THEN crossed \cup {tab[t].browser} ELSE crossed
       \/ End(t) /\ UNCHANGED <<made, session, crossed>>
    /\ UNCHANGED <<password, epoch, cookie, ended, raced>>

\* One transaction deletes the rows of the device and creates the new one,
\* whatever has become of the row that was looked up.  It fails when another
\* rotation of the device has just created one.
RotateRefreshToken(t) ==
    /\ tab[t].pc = "rotate"
    /\ \/ /\ made < MaxTokens
          /\ made' = made + 1
          /\ session' = [session EXCEPT ![tab[t].device] = made + 1]
          /\ tab' = [tab EXCEPT ![t].pc = "answer", ![t].token = made + 1]
          /\ crossed' = IF \E u \in Tabs \ {t} : /\ tab[u].pc \in {"rotate", "answer"}
                                                 /\ tab[u].device = tab[t].device
                          THEN crossed \cup {tab[t].browser} ELSE crossed
       \/ End(t) /\ UNCHANGED <<made, session, crossed>>
    /\ UNCHANGED <<password, epoch, cookie, ended, raced>>

\* The response of a login or a refresh reaches the browser, or does not.
ReceiveAnswer(t) ==
    /\ tab[t].pc = "answer"
    /\ \/ /\ cookie' = [cookie EXCEPT ![tab[t].browser] =
                          [device |-> tab[t].device, token |-> tab[t].token]]
          /\ UNCHANGED crossed
       \/ crossed' = crossed \cup {tab[t].browser} /\ UNCHANGED cookie
    /\ End(t)
    /\ UNCHANGED <<password, made, session, epoch, ended, raced>>

---------------------------------------------------------------------------
\* LogoutHandlerFunc: the cookies are cleared whatever the service answers.

SendLogout(t) ==
    LET b == tab[t].browser
        c == cookie[b] IN
    /\ tab[t].pc = "idle"
    /\ c # NoCookie
    /\ \/ tab' = [tab EXCEPT ![t].pc = "logout", ![t].device = c.device, ![t].token = c.token]
       \/ tab' = [tab EXCEPT ![t].pc = "logout", ![t].device = c.device]
       \/ tab' = [tab EXCEPT ![t].pc = "find", ![t].token = c.token]
    /\ cookie' = [cookie EXCEPT ![b] = NoCookie]
    /\ UNCHANGED <<password, made, session, epoch, ended, raced, crossed>>

\* With the token alone the device is looked up first, ...
FindDevice(t) ==
    /\ tab[t].pc = "find"
    /\ \/ \E d \in Devices : /\ session[d] = tab[t].token
                             /\ tab' = [tab EXCEPT ![t].pc = "logout", ![t].device = d]
       \/ End(t)
    /\ UNCHANGED <<password, made, session, epoch, cookie, ended, raced, crossed>>

\* ... and a row goes when the device, and the token if there is one, match.  A
\* token that was rotated in the meantime, or an error, leaves it.
Logout(t) ==
    LET d == tab[t].device
        token == tab[t].token IN
    /\ tab[t].pc = "logout"
    /\ \/ /\ token \in {0, session[d]}
          /\ session' = [session EXCEPT ![d] = 0]
          /\ raced' = IF Rotating(d) # {} THEN raced \cup {d} ELSE raced \ {d}
       \/ raced' = raced \cup {d} /\ UNCHANGED session
    /\ ended' = ended \cup {d}
    /\ End(t)
    /\ UNCHANGED <<password, made, epoch, cookie, crossed>>

---------------------------------------------------------------------------
\* ChangePassword: the old password is checked, the new one stored, and then
\* every device of the user is deleted.

CheckOldPassword(t) ==
    /\ tab[t].pc = "idle"
    /\ password < MaxPassword
    /\ Go(t, "update")
    /\ UNCHANGED <<password, made, session, epoch, cookie, ended, raced, crossed>>

\* Mutant: the sessions are left alone.
UpdatePasswordOnly(t) ==
    /\ tab[t].pc = "update"
    /\ password < MaxPassword
    /\ password' = password + 1
    /\ End(t)
    /\ UNCHANGED <<made, session, epoch, cookie, ended, raced, crossed>>

UpdatePassword(t) ==
    /\ tab[t].pc = "update"
    /\ password < MaxPassword
    /\ \/ password' = password + 1 /\ Go(t, "revoke")
       \/ End(t) /\ UNCHANGED password
    /\ UNCHANGED <<made, session, epoch, cookie, ended, raced, crossed>>

\* If that fails, the request returns an error, the password is changed and the
\* sessions are alive.
DeleteDevicesByUser(t) ==
    /\ tab[t].pc = "revoke"
    /\ \/ /\ session' = [d \in Devices |-> 0]
          /\ ended' = ended \cup {d \in Devices : session[d] # 0}
          /\ raced' = {d \in Devices : Rotating(d) # {}}
       \/ /\ raced' = raced \cup {d \in Devices :
                      /\ epoch[d] # password
                      /\ (session[d] # 0 \/ Rotating(d) # {})}
          /\ UNCHANGED <<session, ended>>
    /\ End(t)
    /\ UNCHANGED <<password, made, epoch, cookie, crossed>>

TabStep(t) ==
    \/ ValidateCredentials(t) \/ CreateLoginDevice(t)
    \/ SendRefresh(t) \/ GetDevice(t) \/ RotateRefreshToken(t) \/ ReceiveAnswer(t)
    \/ SendLogout(t) \/ FindDevice(t) \/ Logout(t)
    \/ CheckOldPassword(t) \/ UpdatePassword(t) \/ DeleteDevicesByUser(t)

SessionNext == \E t \in Tabs : TabStep(t)
SessionSpec == SessionInit /\ [][SessionNext]_sessionVars

---------------------------------------------------------------------------
\* Properties

\* A session that was logged out or revoked by a password change is gone and
\* does not come back, and once no change is between the two statements none is
\* left that was opened with an older password.  Sessions that stay are those
\* whose own end met a login or a refresh that had passed its check and not yet
\* written its row, a token rotated behind the logout's back, or a statement
\* that failed; a revocation that succeeds later ends these too.
EndedSessionsStayEnded ==
    \A d \in Devices : session[d] # 0 /\ d \notin raced =>
        /\ d \notin ended
        /\ \/ epoch[d] = password
           \/ \E t \in Tabs : tab[t].pc = "revoke"

\* A browser with nothing in flight can refresh with the token it has, whatever
\* the other browsers and their sessions have done, unless its session was ended,
\* a response was lost, or two of its tabs refreshed at once.
CookieIsLive ==
    \A b \in Browsers :
        (/\ cookie[b] # NoCookie
         /\ \A t \in Tabs : tab[t].browser = b => tab[t].pc = "idle"
         /\ b \notin crossed
         /\ cookie[b].device \notin ended) => session[cookie[b].device] = cookie[b].token
=============================================================================
