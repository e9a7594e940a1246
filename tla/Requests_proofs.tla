-------------------------- MODULE Requests_proofs ---------------------------
(***************************************************************************)
(* What requests rely on, one model after the other, each for any number   *)
(* of clients and any bounds: sessions, limits on the rate, the answers    *)
(* that carry images, and albums with their pages.                         *)
(***************************************************************************)
EXTENDS Sessions, ClientLimits, ImageServing, Albums, TLAPS

-----------------------------------------------------------------------------
(***************************************************************************)
(* Sessions. A session that was ended stays ended, and a cookie works, but *)
(* for the races the two properties name.                                  *)
(***************************************************************************)

\* Requests that carry a device and a token of it.
InUse(t) == tab[t].pc \in {"lookup", "rotate", "answer"}

\* What cookies and requests name was made, and nothing is known of the rest.
DevicesExist ==
    /\ \A b \in Browsers : cookie[b] # NoCookie =>
           cookie[b].device \in 1 .. made /\ cookie[b].token # 0
    /\ \A t \in Tabs : InUse(t) => tab[t].device \in 1 .. made /\ tab[t].token # 0
    /\ \A t \in Tabs : tab[t].pc = "logout" => tab[t].device \in 1 .. made
    /\ \A t \in Tabs : tab[t].pc = "find" => tab[t].token # 0
    /\ \A d \in Devices : d > made => session[d] = 0 /\ d \notin ended

\* A refresh past its check has a row to replace, or its session was ended
\* under it.
RotationsHaveRows ==
    \A t \in Tabs : tab[t].pc = "rotate" /\ tab[t].device \notin raced =>
        session[tab[t].device] # 0

SafeInv ==
    /\ SessionTypeOK
    /\ DevicesExist
    /\ RotationsHaveRows
    /\ EndedSessionsStayEnded

\* Browser b has device d, in its cookies or in a request.
Has(b, d) ==
    \/ cookie[b] # NoCookie /\ cookie[b].device = d
    \/ \E t \in Tabs : InUse(t) /\ tab[t].browser = b /\ tab[t].device = d

DevicesHaveOneBrowser ==
    \A b, c \in Browsers : \A d \in Devices : Has(b, d) /\ Has(c, d) => b = c

\* The answers on their way are about the row as it is.
AnswersAreLive ==
    \A t \in Tabs :
        (/\ tab[t].pc = "answer"
         /\ tab[t].browser \notin crossed
         /\ tab[t].device \notin ended) => session[tab[t].device] = tab[t].token

\* A cookie that is no longer good is about to be replaced.
CookieIsReplaced ==
    \A b \in Browsers :
        (cookie[b] # NoCookie /\ b \notin crossed /\ cookie[b].device \notin ended) =>
            \/ session[cookie[b].device] = cookie[b].token
            \/ \E t \in Tabs : /\ tab[t].pc = "answer"
                               /\ tab[t].browser = b
                               /\ tab[t].device = cookie[b].device

CookieInv == DevicesHaveOneBrowser /\ AnswersAreLive /\ CookieIsReplaced

TabRecord == [pc : Pcs, browser : Browsers, device : Tokens, token : Tokens,
              password : Passwords]

---------------------------------------------------------------------------
\* The parts of a request may change one by one.
LEMMA PartsOfRequests ==
    ASSUME NEW r \in TabRecord
    PROVE  /\ r.pc \in Pcs /\ r.browser \in Browsers /\ r.device \in Tokens
           /\ r.token \in Tokens /\ r.password \in Passwords
           /\ \A p \in Pcs : /\ [r EXCEPT !.pc = p] \in TabRecord
                             /\ [r EXCEPT !.pc = p].browser = r.browser
           /\ \A d \in Tokens : /\ [r EXCEPT !.device = d] \in TabRecord
                                /\ [r EXCEPT !.device = d].browser = r.browser
           /\ \A k \in Tokens : /\ [r EXCEPT !.token = k] \in TabRecord
                                /\ [r EXCEPT !.token = k].browser = r.browser
           /\ \A w \in Passwords : /\ [r EXCEPT !.password = w] \in TabRecord
                                   /\ [r EXCEPT !.password = w].browser = r.browser
  BY DEF TabRecord

\* A step of a request changes that request only, and never its browser.
LEMMA OneTab ==
    ASSUME SessionTypeOK, NEW t \in Tabs, TabStep(t)
    PROVE  /\ \A u \in Tabs \ {t} : tab'[u] = tab[u]
           /\ tab'[t].browser = tab[t].browser
           /\ tab' \in [Tabs -> TabRecord]
  <1>1. /\ tab \in [Tabs -> TabRecord] /\ tab[t] \in TabRecord
        /\ \A b \in Browsers : cookie[b].device \in Tokens /\ cookie[b].token \in Tokens
        /\ password \in Passwords
    BY DEF SessionTypeOK, TabRecord
  <1>2. /\ 0 \in Tokens /\ 0 \in Passwords
        /\ \A n \in Tokens : n < MaxTokens => n + 1 \in Tokens
        /\ \A d \in Devices : d \in Tokens
        /\ made \in Tokens
        /\ {"idle", "create", "lookup", "rotate", "answer", "find", "logout", "update", "revoke"}
             \subseteq Pcs
    BY SessionsAssumption DEF Tokens, Passwords, Devices, SessionTypeOK, Pcs
  <1> DEFINE Witness(r) == r \in TabRecord /\ r.browser = tab[t].browser
                           /\ tab' = [tab EXCEPT ![t] = r]
  <1> SUFFICES \E r \in TabRecord : Witness(r)
    BY <1>1
  <1>3. CASE End(t)
    <2>1. Witness([tab[t] EXCEPT !.pc = "idle", !.device = 0, !.token = 0, !.password = 0])
      BY <1>1, <1>2, <1>3 DEF End, TabRecord
    <2> QED BY <2>1
  <1>4. ASSUME NEW p \in Pcs, Go(t, p) PROVE \E r \in TabRecord : Witness(r)
    <2>1. Witness([tab[t] EXCEPT !.pc = p])
      BY <1>1, <1>4, PartsOfRequests DEF Go
    <2> QED BY <2>1
  <1>5. ASSUME NEW p \in Pcs, NEW d \in Tokens, NEW k \in Tokens,
               tab' = [tab EXCEPT ![t].pc = p, ![t].device = d, ![t].token = k]
        PROVE  \E r \in TabRecord : Witness(r)
    <2>1. Witness([tab[t] EXCEPT !.pc = p, !.device = d, !.token = k])
      BY <1>1, <1>5 DEF TabRecord
    <2> QED BY <2>1
  <1>6. CASE ValidateCredentials(t)
    <2>1. Witness([tab[t] EXCEPT !.pc = "create", !.password = password])
      BY <1>1, <1>2, <1>6 DEF ValidateCredentials, TabRecord
    <2> QED BY <2>1
  <1>7. CASE CreateLoginDevice(t)
    <2>1. ASSUME made < MaxTokens,
                 tab' = [tab EXCEPT ![t].pc = "answer", ![t].device = made + 1, ![t].token = made + 1]
          PROVE  \E r \in TabRecord : Witness(r)
      <3>1. "answer" \in Pcs /\ made + 1 \in Tokens
        BY <1>2, <2>1
      <3> QED BY <2>1, <3>1, <1>5
    <2> QED BY <1>7, <1>3, <2>1 DEF CreateLoginDevice
  <1>8. CASE SendRefresh(t)
    <2>1. tab[t].browser \in Browsers
      BY <1>1, PartsOfRequests
    <2> QED BY <1>8, <2>1, <1>1, <1>2, <1>5 DEF SendRefresh
  <1>9. CASE GetDevice(t)
    BY <1>9, <1>2, <1>3, <1>4 DEF GetDevice
  <1>10. CASE RotateRefreshToken(t)
    <2>1. CASE End(t)
      BY <2>1, <1>3
    <2>2. CASE ~ End(t)
      <3>1. Witness([tab[t] EXCEPT !.pc = "answer", !.token = made + 1])
        BY <2>2, <1>1, <1>2, <1>10 DEF RotateRefreshToken, TabRecord
      <3> QED BY <3>1
    <2> QED BY <2>1, <2>2
  <1>11. CASE ReceiveAnswer(t)
    BY <1>11, <1>3 DEF ReceiveAnswer
  <1>12. CASE SendLogout(t)
    <2> DEFINE c == cookie[tab[t].browser]
    <2>1. c.device \in Tokens /\ c.token \in Tokens
      BY <1>1, PartsOfRequests
    <2>2. CASE tab' = [tab EXCEPT ![t].pc = "logout", ![t].device = c.device,
                                  ![t].token = c.token]
      BY <2>1, <2>2, <1>2, <1>5
    <2>3. CASE tab' = [tab EXCEPT ![t].pc = "logout", ![t].device = c.device]
      <3>1. Witness([tab[t] EXCEPT !.pc = "logout", !.device = c.device])
        BY <2>1, <2>3, <1>1, <1>2 DEF TabRecord
      <3> QED BY <3>1
    <2>4. CASE tab' = [tab EXCEPT ![t].pc = "find", ![t].token = c.token]
      <3>1. Witness([tab[t] EXCEPT !.pc = "find", !.token = c.token])
        BY <2>1, <2>4, <1>1, <1>2 DEF TabRecord
      <3> QED BY <3>1
    <2> QED BY <1>12, <2>2, <2>3, <2>4 DEF SendLogout
  <1>13. CASE FindDevice(t)
    <2>1. ASSUME NEW d \in Devices,
                 tab' = [tab EXCEPT ![t].pc = "logout", ![t].device = d]
          PROVE  \E r \in TabRecord : Witness(r)
      <3>1. Witness([tab[t] EXCEPT !.pc = "logout", !.device = d])
        BY <2>1, <1>1, <1>2 DEF TabRecord
      <3> QED BY <3>1
    <2> QED BY <1>13, <1>3, <2>1 DEF FindDevice
  <1>14. CASE Logout(t)
    BY <1>14, <1>3 DEF Logout
  <1>15. CASE CheckOldPassword(t) \/ UpdatePassword(t) \/ DeleteDevicesByUser(t)
    BY <1>15, <1>2, <1>3, <1>4 DEF CheckOldPassword, UpdatePassword, DeleteDevicesByUser
  <1> QED BY <1>6, <1>7, <1>8, <1>9, <1>10, <1>11, <1>12, <1>13, <1>14, <1>15 DEF TabStep

LEMMA TypeStep ==
    ASSUME SessionTypeOK, DevicesExist, NEW t \in Tabs, TabStep(t)
    PROVE  SessionTypeOK'
  <1>1. tab' \in [Tabs -> TabRecord]
    BY OneTab
  <1>2. /\ made \in Tokens /\ password \in Passwords
        /\ session \in [Devices -> Tokens] /\ epoch \in [Devices -> Passwords]
        /\ cookie \in [Browsers -> [device : Tokens, token : Tokens]]
        /\ ended \subseteq Devices /\ raced \subseteq Devices /\ crossed \subseteq Browsers
        /\ tab[t].browser \in Browsers /\ tab[t].device \in Tokens /\ tab[t].token \in Tokens
        /\ tab[t].password \in Passwords
    BY DEF SessionTypeOK
  <1>3. /\ 0 \in Tokens
        /\ \A n \in Tokens : n < MaxTokens => n + 1 \in Tokens /\ n + 1 \in Devices
        /\ \A n \in Passwords : n < MaxPassword => n + 1 \in Passwords
    BY SessionsAssumption DEF Tokens, Passwords, Devices
  <1>4. [device |-> tab[t].device, token |-> tab[t].token] \in [device : Tokens, token : Tokens]
    BY <1>2
  <1>5. /\ made' \in Tokens /\ password' \in Passwords
        /\ session' \in [Devices -> Tokens] /\ epoch' \in [Devices -> Passwords]
        /\ cookie' \in [Browsers -> [device : Tokens, token : Tokens]]
        /\ ended' \subseteq Devices /\ raced' \subseteq Devices /\ crossed' \subseteq Browsers
    <2>1. CASE ValidateCredentials(t) \/ SendRefresh(t) \/ GetDevice(t) \/ FindDevice(t)
      BY <2>1, <1>2 DEF ValidateCredentials, SendRefresh, GetDevice, FindDevice
    <2>2. CASE CreateLoginDevice(t)
      <3>1. CASE UNCHANGED <<made, session, epoch, raced>>
        BY <2>2, <3>1, <1>2 DEF CreateLoginDevice
      <3>2. CASE made < MaxTokens /\ made' = made + 1
        BY <2>2, <3>2, <1>2, <1>3 DEF CreateLoginDevice
      <3> QED BY <2>2, <3>1, <3>2 DEF CreateLoginDevice
    <2>3. CASE RotateRefreshToken(t)
      BY <2>3, <1>2, <1>3 DEF RotateRefreshToken
    <2>4. CASE ReceiveAnswer(t)
      BY <2>4, <1>2, <1>4 DEF ReceiveAnswer
    <2>5. CASE SendLogout(t)
      <3>1. NoCookie \in [device : Tokens, token : Tokens]
        BY <1>3 DEF NoCookie
      <3> QED BY <2>5, <3>1, <1>2 DEF SendLogout
    <2>6. CASE Logout(t)
      <3>1. tab[t].device \in Devices
        BY <2>6, SessionsAssumption, <1>2 DEF Logout, DevicesExist, Devices, Tokens
      <3> QED BY <2>6, <3>1, <1>2, <1>3 DEF Logout
    <2>7. CASE CheckOldPassword(t) \/ UpdatePassword(t)
      BY <2>7, <1>2, <1>3 DEF CheckOldPassword, UpdatePassword
    <2>8. CASE DeleteDevicesByUser(t)
      BY <2>8, <1>2, <1>3 DEF DeleteDevicesByUser
    <2> QED BY <2>1, <2>2, <2>3, <2>4, <2>5, <2>6, <2>7, <2>8 DEF TabStep
  <1> QED BY <1>1, <1>5 DEF SessionTypeOK, TabRecord

---------------------------------------------------------------------------
\* A step names a device only when it was made, and makes one at a time.
LEMMA DevicesStep ==
    ASSUME SessionTypeOK, DevicesExist, NEW t \in Tabs, TabStep(t)
    PROVE  DevicesExist'
  <1>1. /\ \A u \in Tabs \ {t} : tab'[u] = tab[u]
        /\ tab'[t].browser = tab[t].browser
        /\ tab[t].browser \in Browsers
        /\ tab \in [Tabs -> TabRecord]
    BY OneTab DEF SessionTypeOK, TabRecord
  <1>2. /\ made \in Nat /\ MaxTokens \in Nat
        /\ session \in [Devices -> Tokens]
        /\ \A d \in Devices : d \in Nat
        /\ cookie \in [Browsers -> [device : Tokens, token : Tokens]]
    BY SessionsAssumption DEF SessionTypeOK, Devices, Tokens
  <1>3. made' = made \/ made' = made + 1
    BY DEF TabStep, ValidateCredentials, CreateLoginDevice, SendRefresh, GetDevice,
           RotateRefreshToken, ReceiveAnswer, SendLogout, FindDevice, Logout,
           CheckOldPassword, UpdatePassword, DeleteDevicesByUser
  <1>4. \A b \in Browsers : cookie'[b] # NoCookie =>
            cookie'[b].device \in 1 .. made /\ cookie'[b].token # 0
    <2>1. CASE ReceiveAnswer(t)
      BY <2>1, <1>1, <1>2 DEF ReceiveAnswer, DevicesExist, InUse
    <2>2. CASE SendLogout(t)
      BY <2>2, <1>1, <1>2 DEF SendLogout, DevicesExist
    <2>3. CASE UNCHANGED cookie
      BY <2>3 DEF DevicesExist
    <2> QED BY <2>1, <2>2, <2>3 DEF TabStep, ValidateCredentials, CreateLoginDevice, SendRefresh,
              GetDevice, RotateRefreshToken, FindDevice, Logout,
              CheckOldPassword, UpdatePassword, DeleteDevicesByUser
  <1>found. FindDevice(t) => \/ tab'[t].pc = "idle"
                             \/ tab'[t].pc = "logout" /\ tab'[t].device \in 1 .. made'
    <2> SUFFICES ASSUME FindDevice(t) PROVE \/ tab'[t].pc = "idle"
                                            \/ tab'[t].pc = "logout" /\ tab'[t].device \in 1 .. made'
      OBVIOUS
    <2>1. tab[t].pc = "find" /\ made' = made
      BY DEF FindDevice
    <2>2. \A d \in Devices : session[d] = tab[t].token => d \in 1 .. made
      BY <1>2, <2>1 DEF DevicesExist, Devices
    <2>3. ASSUME NEW d \in Devices, session[d] = tab[t].token,
                 tab' = [tab EXCEPT ![t].pc = "logout", ![t].device = d]
          PROVE  tab'[t].pc = "logout" /\ tab'[t].device = d
      BY <1>1, <2>3 DEF TabRecord
    <2>4. CASE End(t)
      BY <1>1, <2>4 DEF End, TabRecord
    <2> QED BY <2>1, <2>2, <2>3, <2>4 DEF FindDevice
  <1>5. /\ InUse(t)' => tab'[t].device \in 1 .. made' /\ tab'[t].token # 0
        /\ tab'[t].pc = "logout" => tab'[t].device \in 1 .. made'
        /\ tab'[t].pc = "find" => tab'[t].token # 0
    <2> USE <1>1, <1>2 DEF DevicesExist, InUse, Go, End, TabRecord
    <2>1. CASE ValidateCredentials(t)
      BY <2>1 DEF ValidateCredentials
    <2>2. CASE CreateLoginDevice(t)
      BY <2>2 DEF CreateLoginDevice
    <2>3. CASE SendRefresh(t)
      BY <2>3 DEF SendRefresh
    <2>4. CASE GetDevice(t)
      BY <2>4 DEF GetDevice
    <2>5. CASE RotateRefreshToken(t)
      BY <2>5 DEF RotateRefreshToken
    <2>6. CASE ReceiveAnswer(t)
      BY <2>6 DEF ReceiveAnswer
    <2>7. CASE SendLogout(t)
      BY <2>7 DEF SendLogout
    <2>8. CASE FindDevice(t)
      BY <2>8, <1>found
    <2>9. CASE Logout(t)
      BY <2>9 DEF Logout
    <2>10. CASE CheckOldPassword(t) \/ UpdatePassword(t) \/ DeleteDevicesByUser(t)
      BY <2>10 DEF CheckOldPassword, UpdatePassword, DeleteDevicesByUser
    <2> QED BY <2>1, <2>2, <2>3, <2>4, <2>5, <2>6, <2>7, <2>8, <2>9, <2>10 DEF TabStep
  <1>6. \A d \in Devices : d > made' => session'[d] = 0 /\ d \notin ended'
    <2>1. CASE CreateLoginDevice(t)
      BY <2>1, <1>2 DEF CreateLoginDevice, DevicesExist
    <2>2. CASE RotateRefreshToken(t)
      BY <2>2, <1>2 DEF RotateRefreshToken, DevicesExist, InUse
    <2>3. CASE Logout(t)
      BY <2>3, <1>2 DEF Logout, DevicesExist
    <2>4. CASE DeleteDevicesByUser(t)
      BY <2>4, <1>2 DEF DeleteDevicesByUser, DevicesExist
    <2>5. CASE UNCHANGED <<made, session, ended>>
      BY <2>5 DEF DevicesExist
    <2> QED BY <2>1, <2>2, <2>3, <2>4, <2>5 DEF TabStep, ValidateCredentials, SendRefresh,
              GetDevice, ReceiveAnswer, SendLogout, FindDevice, CheckOldPassword, UpdatePassword
  <1>7. \A n : n \in 1 .. made => n \in 1 .. made'
    BY <1>2, <1>3
  <1>8. ASSUME NEW u \in Tabs, u # t
        PROVE  /\ InUse(u)' => tab'[u].device \in 1 .. made' /\ tab'[u].token # 0
               /\ tab'[u].pc = "logout" => tab'[u].device \in 1 .. made'
               /\ tab'[u].pc = "find" => tab'[u].token # 0
    BY <1>1, <1>7, <1>8 DEF DevicesExist, InUse
  <1> QED BY <1>4, <1>5, <1>6, <1>7, <1>8 DEF DevicesExist

\* Whoever ends a session while a refresh is past its check marks the device.
LEMMA RotationsStep ==
    ASSUME SafeInv, NEW t \in Tabs, TabStep(t)
    PROVE  RotationsHaveRows'
  <1> SUFFICES ASSUME NEW u \in Tabs, tab'[u].pc = "rotate", tab'[u].device \notin raced'
               PROVE  session'[tab'[u].device] # 0
    BY DEF RotationsHaveRows
  <1>1. /\ u # t => tab'[u] = tab[u]
        /\ tab \in [Tabs -> TabRecord]
        /\ SessionTypeOK /\ DevicesExist
    BY OneTab DEF SafeInv, SessionTypeOK, TabRecord
  <1>2. /\ made \in Nat /\ MaxTokens \in Nat /\ made \in 0 .. MaxTokens
        /\ session \in [Devices -> Tokens]
        /\ Devices = 1 .. MaxTokens
    BY <1>1, SessionsAssumption DEF SessionTypeOK, Devices, Tokens
  <1>3. CASE u = t
    <2>1. GetDevice(t) /\ tab'[t].device = tab[t].device /\ raced' = raced /\ session' = session
          /\ session[tab[t].device] = tab[t].token /\ tab[t].pc = "lookup"
      <3>1. tab'[t].pc = "rotate"
        BY <1>3
      <3>2. CASE GetDevice(t)
        BY <1>1, <3>1, <3>2 DEF GetDevice, Go, End, TabRecord
      <3>3. CASE RotateRefreshToken(t) \/ CreateLoginDevice(t) \/ ReceiveAnswer(t)
        BY <1>1, <3>1, <3>3 DEF RotateRefreshToken, CreateLoginDevice, ReceiveAnswer, End, TabRecord
      <3>4. CASE ValidateCredentials(t) \/ SendRefresh(t)
        BY <1>1, <3>1, <3>4 DEF ValidateCredentials, SendRefresh, TabRecord
      <3>5. CASE SendLogout(t)
        BY <1>1, <3>1, <3>5 DEF SendLogout, TabRecord
      <3>6. CASE FindDevice(t)
        <4>1. ASSUME NEW d \in Devices,
                     tab' = [tab EXCEPT ![t].pc = "logout", ![t].device = d]
              PROVE  FALSE
          BY <1>1, <3>1, <4>1 DEF TabRecord
        <4>2. CASE End(t)
          BY <1>1, <3>1, <4>2 DEF End, TabRecord
        <4> QED BY <3>6, <4>1, <4>2 DEF FindDevice
      <3>7. CASE Logout(t) \/ CheckOldPassword(t) \/ UpdatePassword(t) \/ DeleteDevicesByUser(t)
        BY <1>1, <3>1, <3>7 DEF Logout, CheckOldPassword, UpdatePassword, DeleteDevicesByUser,
                                Go, End, TabRecord
      <3> QED BY <3>2, <3>3, <3>4, <3>5, <3>6, <3>7 DEF TabStep
    <2> QED BY <1>1, <1>3, <2>1 DEF DevicesExist, InUse
  <1>4. CASE u # t
    <2>1. /\ tab[u].pc = "rotate" /\ tab'[u].device = tab[u].device
          /\ tab[u].device \in Devices /\ tab[u].device <= made
      BY <1>1, <1>2, <1>4 DEF DevicesExist, InUse
    <2>2. u \in Rotating(tab[u].device)
      BY <2>1 DEF Rotating
    <2>9. tab[u].device \notin raced
      <3>1. CASE Logout(t)
        BY <2>1, <2>2, <3>1 DEF Logout
      <3>2. CASE DeleteDevicesByUser(t)
        BY <2>1, <2>2, <3>2 DEF DeleteDevicesByUser
      <3>3. CASE raced \subseteq raced'
        BY <2>1, <3>3
      <3> QED BY <3>1, <3>2, <3>3 DEF TabStep, ValidateCredentials, CreateLoginDevice, SendRefresh,
             GetDevice, RotateRefreshToken, ReceiveAnswer, SendLogout, FindDevice,
             CheckOldPassword, UpdatePassword
    <2>3. session[tab[u].device] # 0
      BY <2>1, <2>9 DEF SafeInv, RotationsHaveRows
    <2>4. CASE CreateLoginDevice(t)
      BY <1>2, <2>1, <2>3, <2>4 DEF CreateLoginDevice
    <2>5. CASE RotateRefreshToken(t)
      BY <1>2, <2>1, <2>3, <2>5 DEF RotateRefreshToken
    <2>6. CASE Logout(t)
      BY <1>2, <2>1, <2>2, <2>3, <2>6 DEF Logout
    <2>7. CASE DeleteDevicesByUser(t)
      BY <2>1, <2>2, <2>3, <2>7 DEF DeleteDevicesByUser
    <2>8. CASE UNCHANGED session
      BY <2>1, <2>3, <2>8
    <2> QED BY <2>4, <2>5, <2>6, <2>7, <2>8 DEF TabStep, ValidateCredentials, SendRefresh,
              GetDevice, ReceiveAnswer, SendLogout, FindDevice, CheckOldPassword, UpdatePassword
  <1> QED BY <1>3, <1>4

\* A row of a session that was not raced over is there because it was there,
\* or because a login has just made it with the password of now.
LEMMA EndedStep ==
    ASSUME SafeInv, NEW t \in Tabs, TabStep(t)
    PROVE  EndedSessionsStayEnded'
  <1> SUFFICES ASSUME NEW d \in Devices, session'[d] # 0, d \notin raced'
               PROVE  /\ d \notin ended'
                      /\ epoch'[d] = password' \/ \E u \in Tabs : tab'[u].pc = "revoke"
    BY DEF EndedSessionsStayEnded
  <1>1. /\ \A u \in Tabs \ {t} : tab'[u] = tab[u]
        /\ tab \in [Tabs -> TabRecord]
        /\ SessionTypeOK /\ DevicesExist
    BY OneTab DEF SafeInv, SessionTypeOK, TabRecord
  <1>2. /\ made \in Nat /\ MaxTokens \in Nat /\ made \in 0 .. MaxTokens
        /\ session \in [Devices -> Tokens] /\ epoch \in [Devices -> Passwords]
        /\ Devices = 1 .. MaxTokens
    BY <1>1, SessionsAssumption DEF SessionTypeOK, Devices, Tokens
  <1>3. session[d] # 0 /\ d \notin raced =>
            d \notin ended /\ (epoch[d] = password \/ \E u \in Tabs : tab[u].pc = "revoke")
    BY DEF SafeInv, EndedSessionsStayEnded
  <1>4. CASE CreateLoginDevice(t)
    <2>1. /\ tab[t].pc = "create"
          /\ raced \subseteq raced' /\ ended' = ended /\ password' = password
      BY <1>1, <1>4 DEF CreateLoginDevice
    <2>2. CASE d = made + 1
      <3>1. made' = made + 1 /\ session' = [session EXCEPT ![d] = d]
            /\ epoch' = [epoch EXCEPT ![d] = tab[t].password]
            /\ raced' = IF tab[t].password # password THEN raced \cup {d} ELSE raced
        <4>1. session[d] = 0
          BY <1>1, <1>2, <2>2 DEF DevicesExist
        <4> QED BY <1>4, <2>2, <4>1 DEF CreateLoginDevice
      <3> QED BY <1>1, <1>2, <2>1, <2>2, <3>1 DEF DevicesExist
    <2>3. CASE d # made + 1
      <3>1. session'[d] = session[d] /\ epoch'[d] = epoch[d]
        BY <1>2, <1>4, <2>3 DEF CreateLoginDevice
      <3> QED BY <1>1, <1>3, <2>1, <3>1
    <2> QED BY <2>2, <2>3
  <1>5. CASE RotateRefreshToken(t)
    <2>1. UNCHANGED <<password, epoch, ended, raced>> /\ tab[t].pc = "rotate"
      BY <1>5 DEF RotateRefreshToken
    <2>2. session[d] # 0
      BY <1>2, <1>5, <2>1 DEF RotateRefreshToken, SafeInv, RotationsHaveRows
    <2> QED BY <1>1, <1>3, <2>1, <2>2
  <1>6. CASE Logout(t)
    <2>1. /\ UNCHANGED <<password, epoch>> /\ tab[t].pc = "logout"
          /\ ended' = ended \cup {tab[t].device}
      BY <1>6 DEF Logout
    <2>2. session[d] # 0 /\ d # tab[t].device /\ d \notin raced
      BY <1>2, <1>6 DEF Logout
    <2> QED BY <1>1, <1>3, <2>1, <2>2
  <1>7. CASE DeleteDevicesByUser(t)
    <2>1. /\ raced' = raced \cup {e \in Devices : epoch[e] # password /\ (session[e] # 0 \/ Rotating(e) # {})}
          /\ UNCHANGED <<session, ended, epoch, password>>
      BY <1>7 DEF DeleteDevicesByUser
    <2> QED BY <1>3, <2>1
  <1>8. CASE UpdatePassword(t)
    <2>1. UNCHANGED <<session, epoch, ended, raced>> /\ tab[t].pc = "update"
      BY <1>8 DEF UpdatePassword
    <2>2. tab'[t].pc = "revoke" \/ UNCHANGED password
      BY <1>1, <1>8 DEF UpdatePassword, Go, TabRecord
    <2> QED BY <1>1, <1>3, <2>1, <2>2
  <1>9. CASE \/ ValidateCredentials(t) \/ SendRefresh(t) \/ GetDevice(t) \/ ReceiveAnswer(t)
             \/ SendLogout(t) \/ FindDevice(t) \/ CheckOldPassword(t)
    <2>1. UNCHANGED <<password, session, epoch, ended, raced>> /\ tab[t].pc # "revoke"
      BY <1>9 DEF ValidateCredentials, SendRefresh, GetDevice, ReceiveAnswer, SendLogout,
                  FindDevice, CheckOldPassword
    <2> QED BY <1>1, <1>3, <2>1
  <1> QED BY <1>4, <1>5, <1>6, <1>7, <1>8, <1>9 DEF TabStep

LEMMA SafeStepInv ==
    ASSUME SafeInv, [SessionNext]_sessionVars
    PROVE  SafeInv'
  <1>1. CASE SessionNext
    <2>1. PICK t \in Tabs : TabStep(t)
      BY <1>1 DEF SessionNext
    <2>2. SessionTypeOK /\ DevicesExist
      BY DEF SafeInv
    <2> QED BY <2>1, <2>2, TypeStep, DevicesStep, RotationsStep, EndedStep DEF SafeInv
  <1>2. CASE UNCHANGED sessionVars
    BY <1>2 DEF sessionVars, SafeInv, SessionTypeOK, DevicesExist, RotationsHaveRows,
                EndedSessionsStayEnded, InUse
  <1> QED BY <1>1, <1>2

LEMMA SafeInitInv == SessionInit => SafeInv
  <1> SUFFICES ASSUME SessionInit PROVE SafeInv
    OBVIOUS
  <1>1. 0 \in Tokens /\ 0 \in Passwords /\ \A d \in Devices : d \in Nat
    BY SessionsAssumption DEF Tokens, Passwords, Devices
  <1>2. \A b \in Browsers : cookie[b] = NoCookie
    BY DEF SessionInit
  <1>3. \A t \in Tabs : tab[t].pc = "idle"
    BY DEF SessionInit
  <1>4. SessionTypeOK
    BY <1>1 DEF SessionInit, SessionTypeOK, NoCookie, Pcs
  <1> QED BY <1>2, <1>3, <1>4 DEF SafeInv, SessionInit, DevicesExist, RotationsHaveRows,
                                  EndedSessionsStayEnded, InUse

\* Every reachable state satisfies the invariant of sessions.
THEOREM SessionInvariance == SessionSpec => []SafeInv
  <1> QED BY SafeInitInv, SafeStepInv, PTL DEF SessionSpec

\* For any number of tabs, browsers, logins and changes of the password, a
\* session that was logged out or revoked has no row unless its end raced.
THEOREM EndedStayEnded == SessionSpec => []EndedSessionsStayEnded
  <1>1. SafeInv => EndedSessionsStayEnded
    BY DEF SafeInv
  <1> QED BY <1>1, SessionInvariance, PTL

---------------------------------------------------------------------------
\* Devices do not change hands: what a step leaves with a device had it
\* before, but for a login, which makes its own.
LEMMA HandsKept ==
    ASSUME SafeInv, NEW t \in Tabs, TabStep(t), NEW b \in Browsers, NEW d \in Devices,
           Has(b, d)'
    PROVE  \/ Has(b, d)
           \/ CreateLoginDevice(t) /\ b = tab[t].browser /\ d = made + 1
  <1>1. /\ \A u \in Tabs \ {t} : tab'[u] = tab[u]
        /\ \A u \in Tabs : tab'[u].browser = tab[u].browser
        /\ tab \in [Tabs -> TabRecord] /\ tab[t].browser \in Browsers
        /\ cookie \in [Browsers -> [device : Tokens, token : Tokens]]
    BY OneTab DEF SafeInv, SessionTypeOK, TabRecord
  <1>2. CASE cookie'[b] # NoCookie /\ cookie'[b].device = d
    <2>1. CASE ReceiveAnswer(t)
      <3>1. tab[t].pc = "answer"
        BY <2>1 DEF ReceiveAnswer
      <3>2. \/ cookie' = cookie
            \/ cookie' = [cookie EXCEPT ![tab[t].browser] =
                            [device |-> tab[t].device, token |-> tab[t].token]]
        BY <2>1 DEF ReceiveAnswer
      <3> QED BY <1>1, <1>2, <3>1, <3>2 DEF Has, InUse
    <2>2. CASE SendLogout(t)
      <3>1. cookie' = [cookie EXCEPT ![tab[t].browser] = NoCookie]
        BY <2>2 DEF SendLogout
      <3> QED BY <1>1, <1>2, <3>1 DEF Has
    <2>3. CASE UNCHANGED cookie
      BY <1>2, <2>3 DEF Has
    <2> QED BY <2>1, <2>2, <2>3 DEF TabStep, ValidateCredentials, CreateLoginDevice, SendRefresh,
              GetDevice, RotateRefreshToken, FindDevice, Logout,
              CheckOldPassword, UpdatePassword, DeleteDevicesByUser
  <1>3. ASSUME NEW u \in Tabs, InUse(u)', tab'[u].browser = b, tab'[u].device = d, u # t
        PROVE  Has(b, d)
    BY <1>1, <1>3 DEF Has, InUse
  <1>4. CASE InUse(t)' /\ tab'[t].browser = b /\ tab'[t].device = d
    <2>1. tab[t].browser = b
      BY <1>1, <1>4
    <2>2. CASE CreateLoginDevice(t)
      <3>1. CASE End(t)
        BY <1>1, <1>4, <3>1 DEF End, TabRecord, InUse
      <3>2. CASE tab' = [tab EXCEPT ![t].pc = "answer", ![t].device = made + 1, ![t].token = made + 1]
        BY <1>1, <1>4, <2>1, <2>2, <3>2 DEF TabRecord
      <3> QED BY <2>2, <3>1, <3>2 DEF CreateLoginDevice
    <2>3. CASE SendRefresh(t)
      <3>1. cookie[b] # NoCookie /\ tab'[t].device = cookie[b].device
        BY <1>1, <2>1, <2>3 DEF SendRefresh, TabRecord
      <3> QED BY <1>4, <3>1 DEF Has
    <2>4. CASE GetDevice(t)
      <3>1. InUse(t) /\ tab'[t].device = tab[t].device
        BY <1>1, <1>4, <2>4 DEF GetDevice, Go, End, TabRecord, InUse
      <3> QED BY <1>4, <2>1, <3>1 DEF Has
    <2>5. CASE RotateRefreshToken(t)
      <3>1. InUse(t) /\ tab'[t].device = tab[t].device
        BY <1>1, <1>4, <2>5 DEF RotateRefreshToken, End, TabRecord, InUse
      <3> QED BY <1>4, <2>1, <3>1 DEF Has
    <2>6. CASE ~ InUse(t)'
      BY <1>4, <2>6
    <2>7. CASE ReceiveAnswer(t) \/ Logout(t) \/ DeleteDevicesByUser(t) \/ CheckOldPassword(t)
               \/ UpdatePassword(t) \/ ValidateCredentials(t)
      BY <1>1, <2>6, <2>7 DEF ReceiveAnswer, Logout, DeleteDevicesByUser, CheckOldPassword,
             UpdatePassword, ValidateCredentials, Go, End, TabRecord, InUse
    <2>8. CASE SendLogout(t)
      BY <1>1, <2>6, <2>8 DEF SendLogout, TabRecord, InUse
    <2>9. CASE FindDevice(t)
      <3>1. ASSUME NEW e \in Devices,
                   tab' = [tab EXCEPT ![t].pc = "logout", ![t].device = e]
            PROVE  ~ InUse(t)'
        BY <1>1, <3>1 DEF TabRecord, InUse
      <3>2. End(t) => ~ InUse(t)'
        BY <1>1 DEF End, TabRecord, InUse
      <3>3. \/ End(t)
            \/ \E e \in Devices :
                  tab' = [tab EXCEPT ![t].pc = "logout", ![t].device = e]
        BY <2>9 DEF FindDevice
      <3> QED BY <2>6, <3>1, <3>2, <3>3
    <2> QED BY <2>2, <2>3, <2>4, <2>5, <2>7, <2>8, <2>9 DEF TabStep
  <1> QED BY <1>2, <1>3, <1>4 DEF Has

LEMMA OneBrowserStep ==
    ASSUME SafeInv, DevicesHaveOneBrowser, NEW t \in Tabs, TabStep(t)
    PROVE  DevicesHaveOneBrowser'
  <1> SUFFICES ASSUME NEW b \in Browsers, NEW c \in Browsers, NEW d \in Devices,
                      Has(b, d)', Has(c, d)'
               PROVE  b = c
    BY DEF DevicesHaveOneBrowser
  <1>1. ASSUME NEW e \in Browsers, Has(e, made + 1) PROVE FALSE
    BY <1>1, SessionsAssumption DEF Has, SafeInv, SessionTypeOK, DevicesExist, Tokens
  <1>2. Has(b, d) \/ (CreateLoginDevice(t) /\ b = tab[t].browser /\ d = made + 1)
    BY HandsKept
  <1>3. Has(c, d) \/ (CreateLoginDevice(t) /\ c = tab[t].browser /\ d = made + 1)
    BY HandsKept
  <1> QED BY <1>1, <1>2, <1>3 DEF DevicesHaveOneBrowser

---------------------------------------------------------------------------
\* What happens to a row: a new token for its device, no row for a device that
\* has ended, or nothing.
LEMMA RowsOfStep ==
    ASSUME SafeInv, NEW t \in Tabs, TabStep(t)
    PROVE  /\ ended \subseteq ended' /\ crossed \subseteq crossed'
           /\ \A d \in Devices : \/ session'[d] = session[d]
                                 \/ d \in ended'
                                 \/ CreateLoginDevice(t) /\ d = made + 1
                                 \/ /\ RotateRefreshToken(t) /\ d = tab[t].device
                                    /\ session'[d] = made + 1
                                    /\ tab'[t].pc = "answer" /\ tab'[t].device = d
                                    /\ tab'[t].token = made + 1
  <1>1. /\ tab \in [Tabs -> TabRecord]
        /\ session \in [Devices -> Tokens]
    BY DEF SafeInv, SessionTypeOK, TabRecord
  <1>2. CASE CreateLoginDevice(t)
    BY <1>1, <1>2 DEF CreateLoginDevice
  <1>3. CASE RotateRefreshToken(t)
    <2>1. ended' = ended /\ crossed \subseteq crossed'
      BY <1>3 DEF RotateRefreshToken
    <2>2. CASE UNCHANGED session
      BY <2>1, <2>2
    <2>3. CASE /\ session' = [session EXCEPT ![tab[t].device] = made + 1]
               /\ tab' = [tab EXCEPT ![t].pc = "answer", ![t].token = made + 1]
      BY <1>1, <1>3, <2>1, <2>3 DEF TabRecord
    <2> QED BY <1>3, <2>2, <2>3 DEF RotateRefreshToken
  <1>4. CASE Logout(t)
    BY <1>1, <1>4 DEF Logout
  <1>5. CASE DeleteDevicesByUser(t)
    BY <1>1, <1>5 DEF DeleteDevicesByUser
  <1>6. CASE ReceiveAnswer(t)
    BY <1>6 DEF ReceiveAnswer
  <1>7. CASE UNCHANGED <<session, ended, crossed>>
    BY <1>7
  <1> QED BY <1>2, <1>3, <1>4, <1>5, <1>6, <1>7 DEF TabStep, ValidateCredentials, SendRefresh,
             GetDevice, SendLogout, FindDevice, CheckOldPassword, UpdatePassword

\* Where answers come from: a login or a rotation has just made one.
LEMMA AnswersOfStep ==
    ASSUME SafeInv, NEW t \in Tabs, TabStep(t), tab'[t].pc = "answer"
    PROVE  \/ /\ CreateLoginDevice(t)
              /\ tab'[t].device = made + 1 /\ tab'[t].token = made + 1
              /\ session'[made + 1] = made + 1 /\ made + 1 \in Devices
           \/ /\ RotateRefreshToken(t) /\ InUse(t)
              /\ tab'[t].device = tab[t].device /\ tab'[t].token = made + 1
              /\ session'[tab[t].device] = made + 1
  <1>1. /\ tab \in [Tabs -> TabRecord]
        /\ session \in [Devices -> Tokens]
        /\ tab[t].pc = "rotate" => tab[t].device \in Devices
        /\ made < MaxTokens => made + 1 \in Devices
    BY SessionsAssumption DEF SafeInv, SessionTypeOK, TabRecord, DevicesExist, InUse, Devices, Tokens
  <1>2. CASE CreateLoginDevice(t)
    <2>1. ~ End(t)
      BY <1>1 DEF End, TabRecord
    <2> QED BY <1>1, <1>2, <2>1 DEF CreateLoginDevice, TabRecord
  <1>3. CASE RotateRefreshToken(t)
    BY <1>1, <1>3 DEF RotateRefreshToken, TabRecord, End, InUse
  <1>4. CASE FindDevice(t)
    <2>1. ASSUME NEW e \in Devices,
                 tab' = [tab EXCEPT ![t].pc = "logout", ![t].device = e]
          PROVE  FALSE
      BY <1>1, <2>1 DEF TabRecord
    <2>2. CASE End(t)
      BY <1>1, <2>2 DEF End, TabRecord
    <2> QED BY <1>4, <2>1, <2>2 DEF FindDevice
  <1>5. CASE ValidateCredentials(t) \/ SendRefresh(t) \/ SendLogout(t)
    BY <1>1, <1>5 DEF ValidateCredentials, SendRefresh, SendLogout, TabRecord
  <1>6. CASE GetDevice(t) \/ ReceiveAnswer(t) \/ Logout(t)
    BY <1>1, <1>6 DEF GetDevice, ReceiveAnswer, Logout, Go, End, TabRecord
  <1>7. CASE CheckOldPassword(t) \/ UpdatePassword(t) \/ DeleteDevicesByUser(t)
    BY <1>1, <1>7 DEF CheckOldPassword, UpdatePassword, DeleteDevicesByUser, Go, End, TabRecord
  <1> QED BY <1>2, <1>3, <1>4, <1>5, <1>6, <1>7 DEF TabStep

\* A rotation under which another request of the browser has the device, about
\* to be rotated or answered, is one of two refreshes that cross.
LEMMA AnswersStep ==
    ASSUME SafeInv, CookieInv, NEW t \in Tabs, TabStep(t)
    PROVE  AnswersAreLive'
  <1> SUFFICES ASSUME NEW u \in Tabs, tab'[u].pc = "answer", tab'[u].browser \notin crossed',
                      tab'[u].device \notin ended'
               PROVE  session'[tab'[u].device] = tab'[u].token
    BY DEF AnswersAreLive
  <1>0. /\ \A v \in Tabs : tab[v].browser \in Browsers
        /\ made \in Nat /\ Devices = 1 .. MaxTokens /\ MaxTokens \in Nat /\ made <= MaxTokens
    BY SessionsAssumption DEF SafeInv, SessionTypeOK, Devices, Tokens
  <1>1. /\ \A v \in Tabs \ {t} : tab'[v] = tab[v]
        /\ ended \subseteq ended' /\ crossed \subseteq crossed'
    BY OneTab, RowsOfStep DEF SafeInv
  <1>2. CASE u = t
    <2>1. tab'[t].pc = "answer"
      BY <1>2
    <2> QED BY <1>2, <2>1, AnswersOfStep
  <1>3. CASE u # t
    <2> DEFINE d == tab[u].device
    <2>1. /\ tab'[u] = tab[u] /\ InUse(u) /\ d \in Devices /\ d <= made
      BY <1>0, <1>1, <1>3 DEF SafeInv, DevicesExist, InUse
    <2>2. session[d] = tab[u].token
      BY <1>0, <1>1, <2>1 DEF CookieInv, AnswersAreLive
    <2>3. CASE RotateRefreshToken(t) /\ d = tab[t].device /\ session'[d] # session[d]
      <3>1. InUse(t)
        BY <2>3 DEF RotateRefreshToken, InUse
      <3>2. tab[t].browser = tab[u].browser
        BY <1>0, <1>1, <2>1, <2>3, <3>1 DEF CookieInv, DevicesHaveOneBrowser, Has
      <3>3. tab[t].browser \in crossed'
        BY <1>3, <2>1, <2>3 DEF RotateRefreshToken
      <3> QED BY <2>1, <3>2, <3>3
    <2>4. CASE session'[d] = session[d]
      BY <2>1, <2>2, <2>4
    <2> QED BY <1>0, <1>1, <2>1, <2>3, <2>4, RowsOfStep
  <1> QED BY <1>2, <1>3

LEMMA CookieStep ==
    ASSUME SafeInv, CookieInv, NEW t \in Tabs, TabStep(t)
    PROVE  CookieIsReplaced'
  <1> SUFFICES ASSUME NEW b \in Browsers, cookie'[b] # NoCookie, b \notin crossed',
                      cookie'[b].device \notin ended'
               PROVE  \/ session'[cookie'[b].device] = cookie'[b].token
                      \/ \E u \in Tabs : /\ tab'[u].pc = "answer"
                                         /\ tab'[u].browser = b
                                         /\ tab'[u].device = cookie'[b].device
    BY DEF CookieIsReplaced
  <1>0. /\ \A v \in Tabs : tab[v].browser \in Browsers
        /\ cookie \in [Browsers -> [device : Tokens, token : Tokens]]
        /\ made \in Nat /\ Devices = 1 .. MaxTokens /\ MaxTokens \in Nat /\ made <= MaxTokens
    BY SessionsAssumption DEF SafeInv, SessionTypeOK, Devices, Tokens
  <1>1. /\ \A v \in Tabs \ {t} : tab'[v] = tab[v]
        /\ tab'[t].browser = tab[t].browser
        /\ ended \subseteq ended' /\ crossed \subseteq crossed'
    BY OneTab, RowsOfStep DEF SafeInv
  <1>2. CASE ReceiveAnswer(t) /\ tab[t].browser = b
    <2>1. tab[t].pc = "answer" /\ UNCHANGED <<session, ended>>
      BY <1>2 DEF ReceiveAnswer
    <2>2. cookie' = [cookie EXCEPT ![b] = [device |-> tab[t].device, token |-> tab[t].token]]
      BY <1>2 DEF ReceiveAnswer
    <2>3. cookie'[b].device = tab[t].device /\ cookie'[b].token = tab[t].token
      BY <1>0, <1>1, <2>2
    <2>4. session[tab[t].device] = tab[t].token
      BY <1>0, <1>1, <1>2, <2>1, <2>3 DEF CookieInv, AnswersAreLive
    <2> QED BY <2>1, <2>3, <2>4
  <1>3. CASE ~ (ReceiveAnswer(t) /\ tab[t].browser = b)
    <2> DEFINE d == cookie[b].device
    <2>1. cookie'[b] = cookie[b]
      <3>1. CASE ReceiveAnswer(t)
        BY <1>0, <1>1, <1>3, <3>1 DEF ReceiveAnswer
      <3>2. CASE SendLogout(t)
        BY <1>0, <1>1, <3>2 DEF SendLogout
      <3>3. CASE UNCHANGED cookie
        BY <3>3
      <3> QED BY <3>1, <3>2, <3>3 DEF TabStep, ValidateCredentials, CreateLoginDevice,
                SendRefresh, GetDevice, RotateRefreshToken, FindDevice, Logout,
                CheckOldPassword, UpdatePassword, DeleteDevicesByUser
    <2>2. d \in Devices /\ d <= made
      BY <1>0, <1>1, <2>1 DEF SafeInv, DevicesExist
    <2>3. ASSUME NEW u \in Tabs, tab[u].pc = "answer", tab[u].browser = b, tab[u].device = d
          PROVE  \E v \in Tabs : tab'[v].pc = "answer" /\ tab'[v].browser = b /\ tab'[v].device = d
      <3>1. u # t
        BY <1>3, <2>3 DEF TabStep, ValidateCredentials, CreateLoginDevice, SendRefresh, GetDevice,
               RotateRefreshToken, ReceiveAnswer, SendLogout, FindDevice, Logout,
               CheckOldPassword, UpdatePassword, DeleteDevicesByUser
      <3> QED BY <1>0, <1>1, <2>3, <3>1
    <2>4. CASE session[d] = cookie[b].token
      <3>1. CASE session'[d] = session[d]
        BY <2>1, <2>4, <3>1
      <3>2. CASE /\ RotateRefreshToken(t) /\ d = tab[t].device
                 /\ tab'[t].pc = "answer" /\ tab'[t].device = d
        <4>1. InUse(t)
          BY <3>2 DEF RotateRefreshToken, InUse
        <4>2. tab[t].browser = b
          BY <1>0, <1>1, <2>1, <2>2, <3>2, <4>1 DEF CookieInv, DevicesHaveOneBrowser, Has
        <4> QED BY <1>0, <1>1, <2>1, <3>2, <4>2
      <3> QED BY <1>0, <1>1, <2>1, <2>2, <3>1, <3>2, RowsOfStep
    <2>5. CASE session[d] # cookie[b].token
      <3>1. \E u \in Tabs : tab[u].pc = "answer" /\ tab[u].browser = b /\ tab[u].device = d
        BY <1>0, <1>1, <2>1, <2>5 DEF CookieInv, CookieIsReplaced
      <3> QED BY <2>1, <2>3, <3>1
    <2> QED BY <2>4, <2>5
  <1> QED BY <1>2, <1>3

LEMMA CookieStepInv ==
    ASSUME SafeInv, CookieInv, [SessionNext]_sessionVars
    PROVE  CookieInv'
  <1>1. CASE SessionNext
    <2>1. PICK t \in Tabs : TabStep(t)
      BY <1>1 DEF SessionNext
    <2>2. DevicesHaveOneBrowser
      BY DEF CookieInv
    <2> QED BY <2>1, <2>2, OneBrowserStep, AnswersStep, CookieStep DEF CookieInv
  <1>2. CASE UNCHANGED sessionVars
    BY <1>2 DEF sessionVars, CookieInv, DevicesHaveOneBrowser, AnswersAreLive, CookieIsReplaced,
                Has, InUse
  <1> QED BY <1>1, <1>2

\* A browser with nothing in flight has a cookie that works, whatever its other
\* tabs and the other browsers have done before, for any number of them.
THEOREM CookiesStayLive == SessionSpec => []CookieIsLive
  <1>1. SessionInit => CookieInv
    BY DEF SessionInit, CookieInv, DevicesHaveOneBrowser, AnswersAreLive, CookieIsReplaced,
           Has, InUse
  <1>2. CookieInv => CookieIsLive
    BY DEF CookieInv, CookieIsReplaced, CookieIsLive
  <1>3. SafeInv /\ CookieInv /\ [SessionNext]_sessionVars => CookieInv'
    BY CookieStepInv
  <1> QED BY <1>1, <1>2, <1>3, SessionInvariance, PTL DEF SessionSpec

-----------------------------------------------------------------------------
(***************************************************************************)
(* ClientLimits. Under LimitAssumption, throwing limiters away gives       *)
(* nobody more requests than a bucket that is kept for ever would.         *)
(***************************************************************************)

LimiterState == [tokens : 0 .. Burst, unseen : 0 .. Old]
AskState == [client : Clients \cup {NoClient}, limiter : Limiters \cup {NoLimiter},
             delay : 0 .. MaxDelay]

\* A request that holds a limiter holds the one its client has in the shard:
\* it was seen no longer ago than the request has been waiting.
RequestsHoldCurrent ==
    \A q \in Requesters : asking[q] # NotAsking =>
        /\ asking[q].client \in Clients
        /\ asking[q].limiter \in Limiters
        /\ shard[asking[q].client] = asking[q].limiter
        /\ limiter[asking[q].limiter].unseen <= asking[q].delay

\* What a bucket has gained at least since the last request could take a token.
Regained(u) == Refill * (u - MaxDelay)

\* A limiter never has more tokens than the bucket that is kept for ever, and
\* that one is filling up while the limiter is not seen.
LimiterWithinAllowance ==
    \A c \in Clients : shard[c] # NoLimiter =>
        /\ allowance[c] >= limiter[shard[c]].tokens
        /\ \/ limiter[shard[c]].unseen <= MaxDelay
           \/ allowance[c] >= Burst
           \/ allowance[c] >= Regained(limiter[shard[c]].unseen)

\* So a client without a limiter, whose next one begins full, is owed all of it.
WithoutLimiterFull == \A c \in Clients : shard[c] = NoLimiter => allowance[c] >= Burst

LimitInv ==
    /\ LimitTypeOK
    /\ RequestsHoldCurrent
    /\ LimiterWithinAllowance
    /\ WithoutLimiterFull

LEMMA LimitNumbers ==
    /\ Burst \in Nat /\ Refill \in Nat /\ ExpireTime \in Nat /\ MaxDelay \in Nat
    /\ MaxDelay <= ExpireTime
    /\ NoClient \notin Clients /\ NoLimiter \notin Limiters
    /\ Old \in Nat /\ Old = ExpireTime + 1 /\ Regained(Old) >= Burst
  <1>1. /\ Burst \in Nat /\ Refill \in Nat /\ ExpireTime \in Nat /\ MaxDelay \in Nat
        /\ MaxDelay <= ExpireTime
        /\ NoClient \notin Clients /\ NoLimiter \notin Limiters
        /\ Refill * (ExpireTime + 1 - MaxDelay) >= Burst
    BY LimitAssumption
  <1> QED BY <1>1 DEF Old, Regained

LEMMA LimitTypes ==
    ASSUME LimitInv
    PROVE  /\ shard \in [Clients -> Limiters \cup {NoLimiter}]
           /\ limiter \in [Limiters -> LimiterState]
           /\ \A o \in Limiters : /\ limiter[o].tokens \in 0 .. Burst
                                  /\ limiter[o].unseen \in 0 .. Old
           /\ asking \in [Requesters -> AskState]
           /\ \A q \in Requesters : asking[q].delay \in 0 .. MaxDelay
           /\ \A c \in Clients : allowance[c] \in Int
           /\ allowance \in [Clients -> Int]
  <1> QED BY DEF LimitInv, LimitTypeOK, LimiterState, AskState

\* Nobody holds a limiter that has expired, and its client is owed a full one.
LEMMA ExpiredIsFull ==
    ASSUME LimitInv, NEW c \in Expired
    PROVE  /\ c \in Clients /\ shard[c] # NoLimiter
           /\ allowance[c] >= Burst
           /\ \A q \in Requesters : asking[q] # NotAsking => asking[q].client # c
  <1>1. c \in Clients /\ shard[c] \in Limiters /\ shard[c] # NoLimiter
        /\ limiter[shard[c]].unseen > ExpireTime
    BY LimitTypes DEF Expired, Held
  <1>2. limiter[shard[c]].unseen = Old
    BY <1>1, LimitTypes, LimitNumbers
  <1>3. allowance[c] >= Burst
    <2>1. allowance[c] >= Burst \/ allowance[c] >= Regained(Old)
      BY <1>1, <1>2, LimitNumbers DEF LimitInv, LimiterWithinAllowance
    <2>2. Regained(Old) \in Int
      BY LimitNumbers DEF Regained
    <2> QED BY <1>1, <2>1, <2>2, LimitNumbers, LimitTypes
  <1>4. ASSUME NEW q \in Requesters, asking[q] # NotAsking, asking[q].client = c PROVE FALSE
    <2>1. limiter[shard[c]].unseen <= asking[q].delay
      BY <1>4 DEF LimitInv, RequestsHoldCurrent
    <2> QED BY <1>2, <2>1, LimitTypes, LimitNumbers
  <1> QED BY <1>1, <1>3, <1>4

\* Throwing away what has expired.
LEMMA EvictInv ==
    ASSUME LimitInv, NEW S, S \subseteq Expired, shard' = Evicted(S),
           UNCHANGED <<limiter, asking, allowance>>
    PROVE  LimitInv'
  <1>1. \A c \in Clients : shard'[c] = IF c \in S THEN NoLimiter ELSE shard[c]
    BY DEF Evicted
  <1>2. LimitTypeOK'
    BY LimitTypes DEF LimitInv, LimitTypeOK, Evicted
  <1>3. RequestsHoldCurrent'
    <2> SUFFICES ASSUME NEW q \in Requesters, asking[q] # NotAsking
                 PROVE  /\ asking[q].client \in Clients
                        /\ asking[q].limiter \in Limiters
                        /\ shard'[asking[q].client] = asking[q].limiter
                        /\ limiter[asking[q].limiter].unseen <= asking[q].delay
      BY DEF RequestsHoldCurrent, NotAsking
    <2>1. asking[q].client \notin S
      BY ExpiredIsFull
    <2> QED BY <1>1, <2>1 DEF LimitInv, RequestsHoldCurrent
  <1>4. LimiterWithinAllowance'
    BY <1>1 DEF LimitInv, LimiterWithinAllowance, Regained
  <1>5. WithoutLimiterFull'
    BY <1>1, ExpiredIsFull DEF LimitInv, WithoutLimiterFull
  <1> QED BY <1>2, <1>3, <1>4, <1>5 DEF LimitInv

---------------------------------------------------------------------------

LEMMA GetInv ==
    ASSUME LimitInv, NEW q \in Requesters, NEW c \in Clients, GetClientLimiter(q, c)
    PROVE  LimitInv'
  <1>1. asking[q] = NotAsking /\ UNCHANGED allowance
    BY DEF GetClientLimiter
  <1>2. CASE c \in Held \ Expired
    <2> DEFINE o == shard[c]
    <2>1. /\ limiter' = [limiter EXCEPT ![o].unseen = 0]
          /\ asking' = [asking EXCEPT ![q] = [client |-> c, limiter |-> o, delay |-> 0]]
          /\ UNCHANGED shard
      BY <1>2 DEF GetClientLimiter, Asks
    <2>2. o \in Limiters /\ shard[c] = o
      BY <1>2, LimitTypes DEF Held
    <2> HIDE DEF o
    <2>3. /\ limiter' \in [Limiters -> LimiterState]
          /\ limiter'[o].unseen = 0 /\ limiter'[o].tokens = limiter[o].tokens
          /\ \A p \in Limiters : p # o => limiter'[p] = limiter[p]
      BY <2>1, <2>2, LimitTypes, LimitNumbers DEF LimiterState
    <2>4. /\ asking' \in [Requesters -> AskState]
          /\ asking'[q] = [client |-> c, limiter |-> o, delay |-> 0]
          /\ \A r \in Requesters : r # q => asking'[r] = asking[r]
      BY <2>1, <2>2, LimitTypes, LimitNumbers DEF AskState
    <2>5. LimitTypeOK'
      BY <1>1, <2>1, <2>3, <2>4 DEF LimitInv, LimitTypeOK, LimiterState, AskState
    <2>6. RequestsHoldCurrent'
      <3> SUFFICES ASSUME NEW r \in Requesters, asking'[r] # NotAsking
                   PROVE  /\ asking'[r].client \in Clients
                          /\ asking'[r].limiter \in Limiters
                          /\ shard[asking'[r].client] = asking'[r].limiter
                          /\ limiter'[asking'[r].limiter].unseen <= asking'[r].delay
        BY <2>1 DEF RequestsHoldCurrent, NotAsking
      <3>1. CASE r = q
        BY <2>2, <2>3, <2>4, <3>1
      <3>2. CASE r # q
        <4>1. /\ asking[r].client \in Clients
              /\ asking[r].limiter \in Limiters
              /\ shard[asking[r].client] = asking[r].limiter
              /\ limiter[asking[r].limiter].unseen <= asking[r].delay
          BY <2>4, <3>2 DEF LimitInv, RequestsHoldCurrent
        <4>2. 0 <= asking[r].delay
          BY LimitTypes
        <4> QED BY <2>3, <2>4, <3>2, <4>1, <4>2
      <3> QED BY <3>1, <3>2
    <2>7. LimiterWithinAllowance'
      <3> SUFFICES ASSUME NEW d \in Clients, shard[d] # NoLimiter
                   PROVE  /\ allowance[d] >= limiter'[shard[d]].tokens
                          /\ \/ limiter'[shard[d]].unseen <= MaxDelay
                             \/ allowance[d] >= Burst
                             \/ allowance[d] >= Regained(limiter'[shard[d]].unseen)
        BY <1>1, <2>1 DEF LimiterWithinAllowance, Regained
      <3>1. /\ shard[d] \in Limiters
            /\ allowance[d] >= limiter[shard[d]].tokens
            /\ \/ limiter[shard[d]].unseen <= MaxDelay
               \/ allowance[d] >= Burst
               \/ allowance[d] >= Regained(limiter[shard[d]].unseen)
        BY LimitTypes DEF LimitInv, LimiterWithinAllowance
      <3>2. CASE shard[d] = o
        BY <2>3, <3>1, <3>2, LimitNumbers
      <3>3. CASE shard[d] # o
        BY <2>3, <3>1, <3>3
      <3> QED BY <3>2, <3>3
    <2>8. WithoutLimiterFull'
      BY <1>1, <2>1 DEF LimitInv, WithoutLimiterFull
    <2> QED BY <2>5, <2>6, <2>7, <2>8 DEF LimitInv
  <1>3. CASE c \notin Held \ Expired
    <2>1. PICK o \in Unused :
             /\ shard' = [Evicted(IF Cardinality(Held \ {c}) >= ShardSize
                                    THEN Expired ELSE {}) EXCEPT ![c] = o]
             /\ limiter' = [limiter EXCEPT ![o] = [tokens |-> Burst, unseen |-> 0]]
             /\ asking' = [asking EXCEPT ![q] = [client |-> c, limiter |-> o, delay |-> 0]]
      BY <1>3 DEF GetClientLimiter, Asks
    <2>2. PICK S \in SUBSET Expired : shard' = [Evicted(S) EXCEPT ![c] = o]
      <3>1. CASE Cardinality(Held \ {c}) >= ShardSize
        BY <2>1, <3>1
      <3>2. CASE ~ (Cardinality(Held \ {c}) >= ShardSize)
        BY <2>1, <3>2
      <3> QED BY <3>1, <3>2
    <2>3. /\ o \in Limiters /\ o # NoLimiter
          /\ \A d \in Clients : shard[d] # o
          /\ \A r \in Requesters : asking[r].limiter # o
      BY LimitNumbers DEF Unused
    <2>4. \A d \in Clients : shard'[d] = IF d = c THEN o ELSE IF d \in S THEN NoLimiter ELSE shard[d]
      BY <2>2 DEF Evicted
    <2>5. /\ limiter' \in [Limiters -> LimiterState]
          /\ limiter'[o] = [tokens |-> Burst, unseen |-> 0]
          /\ \A p \in Limiters : p # o => limiter'[p] = limiter[p]
      BY <2>1, <2>3, LimitTypes, LimitNumbers DEF LimiterState
    <2>6. /\ asking' \in [Requesters -> AskState]
          /\ asking'[q] = [client |-> c, limiter |-> o, delay |-> 0]
          /\ \A r \in Requesters : r # q => asking'[r] = asking[r]
      BY <2>1, <2>3, LimitTypes, LimitNumbers DEF AskState
    <2>7. allowance[c] >= Burst /\ \A r \in Requesters : asking[r] # NotAsking => asking[r].client # c
      <3>1. CASE c \in Expired
        BY <3>1, ExpiredIsFull
      <3>2. CASE shard[c] = NoLimiter
        <4>1. allowance[c] >= Burst
          BY <3>2 DEF LimitInv, WithoutLimiterFull
        <4>2. \A r \in Requesters : asking[r] # NotAsking => asking[r].client # c
          BY <3>2, LimitNumbers DEF LimitInv, RequestsHoldCurrent
        <4> QED BY <4>1, <4>2
      <3> QED BY <1>3, <3>1, <3>2 DEF Held
    <2>8. LimitTypeOK'
      <3>1. shard' \in [Clients -> Limiters \cup {NoLimiter}]
        BY <2>2, <2>3, LimitTypes DEF Evicted
      <3> QED BY <1>1, <2>5, <2>6, <3>1 DEF LimitInv, LimitTypeOK, LimiterState, AskState
    <2>9. RequestsHoldCurrent'
      <3> SUFFICES ASSUME NEW r \in Requesters, asking'[r] # NotAsking
                   PROVE  /\ asking'[r].client \in Clients
                          /\ asking'[r].limiter \in Limiters
                          /\ shard'[asking'[r].client] = asking'[r].limiter
                          /\ limiter'[asking'[r].limiter].unseen <= asking'[r].delay
        BY DEF RequestsHoldCurrent, NotAsking
      <3>1. CASE r = q
        BY <2>3, <2>4, <2>5, <2>6, <3>1
      <3>2. CASE r # q
        <4>1. /\ asking[r] # NotAsking /\ asking'[r] = asking[r]
              /\ asking[r].client \in Clients
              /\ asking[r].limiter \in Limiters
              /\ shard[asking[r].client] = asking[r].limiter
              /\ limiter[asking[r].limiter].unseen <= asking[r].delay
          BY <2>6, <3>2 DEF LimitInv, RequestsHoldCurrent
        <4>2. asking[r].client # c /\ asking[r].client \notin S /\ asking[r].limiter # o
          BY <2>3, <2>7, <4>1, ExpiredIsFull
        <4> QED BY <2>4, <2>5, <4>1, <4>2
      <3> QED BY <3>1, <3>2
    <2>10. LimiterWithinAllowance'
      <3> SUFFICES ASSUME NEW d \in Clients, shard'[d] # NoLimiter
                   PROVE  /\ allowance[d] >= limiter'[shard'[d]].tokens
                          /\ \/ limiter'[shard'[d]].unseen <= MaxDelay
                             \/ allowance[d] >= Burst
                             \/ allowance[d] >= Regained(limiter'[shard'[d]].unseen)
        BY <1>1 DEF LimiterWithinAllowance, Regained
      <3>1. CASE d = c
        BY <2>4, <2>5, <2>7, <3>1, LimitNumbers
      <3>2. CASE d # c
        <4>1. shard'[d] = shard[d] /\ shard[d] # o /\ shard[d] \in Limiters
          BY <2>3, <2>4, <3>2, LimitTypes
        <4> QED BY <2>5, <4>1 DEF LimitInv, LimiterWithinAllowance
      <3> QED BY <3>1, <3>2
    <2>11. WithoutLimiterFull'
      BY <1>1, <2>3, <2>4, ExpiredIsFull DEF LimitInv, WithoutLimiterFull
    <2> QED BY <2>8, <2>9, <2>10, <2>11 DEF LimitInv
  <1> QED BY <1>2, <1>3

LEMMA AllowInv ==
    ASSUME LimitInv, NEW q \in Requesters, Allow(q)
    PROVE  LimitInv'
  <1> DEFINE o == asking[q].limiter
             c == asking[q].client
             taken == IF limiter[o].tokens > 0 THEN 1 ELSE 0
  <1>1. asking[q] # NotAsking /\ asking' = [asking EXCEPT ![q] = NotAsking] /\ UNCHANGED shard
    BY DEF Allow
  <1>2. o \in Limiters /\ c \in Clients /\ shard[c] = o /\ o # NoLimiter
        /\ limiter[o].unseen <= MaxDelay
    <2>1. o \in Limiters /\ c \in Clients /\ shard[c] = o /\ limiter[o].unseen <= asking[q].delay
      BY <1>1 DEF LimitInv, RequestsHoldCurrent
    <2> QED BY <2>1, LimitTypes, LimitNumbers
  <1>3. /\ taken \in {0, 1} /\ taken <= limiter[o].tokens
        /\ limiter' = [limiter EXCEPT ![o].tokens = @ - taken]
        /\ allowance' = [allowance EXCEPT ![c] = @ - taken]
    <2>1. limiter[o].tokens \in 0 .. Burst
      BY <1>2, LimitTypes
    <2>2. taken \in {0, 1} /\ taken <= limiter[o].tokens
      BY <2>1, LimitNumbers
    <2>3. /\ limiter' = [limiter EXCEPT ![o].tokens = @ - taken]
          /\ allowance' = [allowance EXCEPT ![c] = @ - taken]
      BY DEF Allow
    <2> QED BY <2>2, <2>3
  <1> HIDE DEF taken, o, c
  <1>4. /\ limiter' \in [Limiters -> LimiterState]
        /\ limiter'[o].tokens = limiter[o].tokens - taken
        /\ \A p \in Limiters : /\ limiter'[p].unseen = limiter[p].unseen
                               /\ p # o => limiter'[p] = limiter[p]
    BY <1>2, <1>3, LimitTypes, LimitNumbers DEF LimiterState
  <1>5. /\ allowance' \in [Clients -> Int]
        /\ allowance'[c] = allowance[c] - taken
        /\ \A d \in Clients : d # c => allowance'[d] = allowance[d]
    BY <1>2, <1>3, LimitTypes
  <1>6. /\ asking' \in [Requesters -> AskState] /\ asking'[q] = NotAsking
        /\ \A r \in Requesters : r # q => asking'[r] = asking[r]
    BY <1>1, LimitTypes, LimitNumbers DEF NotAsking, AskState
  <1>7. LimitTypeOK'
    BY <1>1, <1>4, <1>5, <1>6 DEF LimitInv, LimitTypeOK, LimiterState, AskState
  <1>8. RequestsHoldCurrent'
    <2> SUFFICES ASSUME NEW r \in Requesters, asking'[r] # NotAsking
                 PROVE  /\ asking'[r].client \in Clients
                        /\ asking'[r].limiter \in Limiters
                        /\ shard[asking'[r].client] = asking'[r].limiter
                        /\ limiter'[asking'[r].limiter].unseen <= asking'[r].delay
      BY <1>1 DEF RequestsHoldCurrent, NotAsking
    <2>1. asking'[r] = asking[r]
      BY <1>6
    <2> QED BY <1>4, <2>1 DEF LimitInv, RequestsHoldCurrent
  <1>9. LimiterWithinAllowance'
    <2> SUFFICES ASSUME NEW d \in Clients, shard[d] # NoLimiter
                 PROVE  /\ allowance'[d] >= limiter'[shard[d]].tokens
                        /\ \/ limiter'[shard[d]].unseen <= MaxDelay
                           \/ allowance'[d] >= Burst
                           \/ allowance'[d] >= Regained(limiter'[shard[d]].unseen)
      BY <1>1 DEF LimiterWithinAllowance, Regained
    <2>1. /\ shard[d] \in Limiters
          /\ allowance[d] >= limiter[shard[d]].tokens
          /\ \/ limiter[shard[d]].unseen <= MaxDelay
             \/ allowance[d] >= Burst
             \/ allowance[d] >= Regained(limiter[shard[d]].unseen)
      BY LimitTypes DEF LimitInv, LimiterWithinAllowance
    <2>2. CASE d = c
      <3>1. allowance[c] >= limiter[o].tokens /\ shard[d] = o
        BY <1>2, <2>1, <2>2
      <3>2. allowance[c] \in Int /\ limiter[o].tokens \in Int
        BY <1>2, LimitTypes
      <3>3. allowance[c] - taken >= limiter[o].tokens - taken
        BY <1>3, <3>1, <3>2
      <3> QED BY <1>2, <1>4, <1>5, <2>2, <3>1, <3>3
    <2>3. CASE d # c
      <3>1. allowance'[d] = allowance[d] /\ limiter'[shard[d]].tokens <= limiter[shard[d]].tokens
        BY <1>2, <1>3, <1>4, <1>5, <2>1, <2>3, LimitTypes
      <3>2. limiter'[shard[d]].tokens \in Int
        BY <1>4, <2>1, LimitNumbers DEF LimiterState
      <3> QED BY <1>4, <2>1, <3>1, <3>2, LimitTypes
    <2> QED BY <2>2, <2>3
  <1>10. WithoutLimiterFull'
    BY <1>1, <1>2, <1>5 DEF LimitInv, WithoutLimiterFull
  <1> QED BY <1>7, <1>8, <1>9, <1>10 DEF LimitInv

LEMMA AtmostIs ==
    ASSUME NEW n \in Int, NEW bound \in Int
    PROVE  /\ Atmost(n, bound) \in Int /\ Atmost(n, bound) <= bound /\ Atmost(n, bound) <= n
           /\ Atmost(n, bound) = n \/ Atmost(n, bound) = bound
  <1> QED BY DEF Atmost

LEMMA RegainedGrows ==
    ASSUME NEW u \in Int
    PROVE  Regained(u) \in Int /\ Regained(u + 1) = Regained(u) + Refill
           /\ Regained(MaxDelay) = 0
  <1>1. Refill * ((u + 1) - MaxDelay) = Refill * (u - MaxDelay) + Refill
        /\ Refill * (u - MaxDelay) \in Int
    BY LimitNumbers
  <1>2. MaxDelay - MaxDelay = 0 /\ Refill * 0 = 0
    BY LimitNumbers
  <1>3. Regained(MaxDelay) = 0
    BY <1>2 DEF Regained
  <1>4. Regained(u) \in Int
    BY <1>1 DEF Regained
  <1>5. Regained(u + 1) = Regained(u) + Refill
    BY <1>1 DEF Regained
  <1> QED BY <1>3, <1>4, <1>5

LEMMA TickInv ==
    ASSUME LimitInv, Tick
    PROVE  LimitInv'
  <1>1. /\ \A q \in Requesters : asking[q] # NotAsking => asking[q].delay < MaxDelay
        /\ limiter' = [o \in Limiters |-> [tokens |-> Atmost(limiter[o].tokens + Refill, Burst),
                                           unseen |-> Atmost(limiter[o].unseen + 1, Old)]]
        /\ asking' = [q \in Requesters |->
                        IF asking[q] = NotAsking THEN NotAsking
                        ELSE [asking[q] EXCEPT !.delay = @ + 1]]
        /\ allowance' = [c \in Clients |-> Atmost(allowance[c] + Refill, Burst)]
        /\ UNCHANGED shard
    BY DEF Tick
  <1>2. ASSUME NEW o \in Limiters
        PROVE  /\ limiter'[o].tokens = Atmost(limiter[o].tokens + Refill, Burst)
               /\ limiter'[o].tokens \in 0 .. Burst
               /\ limiter'[o].unseen = Atmost(limiter[o].unseen + 1, Old)
               /\ limiter'[o].unseen \in 0 .. Old
               /\ limiter'[o].unseen <= limiter[o].unseen + 1
    <2>1. limiter[o].tokens \in 0 .. Burst /\ limiter[o].unseen \in 0 .. Old
      BY LimitTypes
    <2>2. Atmost(limiter[o].tokens + Refill, Burst) \in 0 .. Burst
      BY <2>1, LimitNumbers DEF Atmost
    <2>3. /\ Atmost(limiter[o].unseen + 1, Old) \in 0 .. Old
          /\ Atmost(limiter[o].unseen + 1, Old) <= limiter[o].unseen + 1
      BY <2>1, LimitNumbers DEF Atmost
    <2> QED BY <1>1, <2>2, <2>3
  <1>3. limiter' \in [Limiters -> LimiterState]
    <2>1. \A o \in Limiters : [tokens |-> Atmost(limiter[o].tokens + Refill, Burst),
                               unseen |-> Atmost(limiter[o].unseen + 1, Old)] \in LimiterState
      BY <1>1, <1>2 DEF LimiterState
    <2> QED BY <1>1, <2>1
  <1>4. ASSUME NEW q \in Requesters
        PROVE  /\ asking'[q] \in AskState
               /\ asking[q] = NotAsking => asking'[q] = NotAsking
               /\ asking[q] # NotAsking => /\ asking'[q].client = asking[q].client
                                           /\ asking'[q].limiter = asking[q].limiter
                                           /\ asking'[q].delay = asking[q].delay + 1
    <2>1. asking[q] \in AskState /\ asking[q].delay \in 0 .. MaxDelay
      BY LimitTypes
    <2>2. CASE asking[q] = NotAsking
      BY <1>1, <2>1, <2>2
    <2>3. CASE asking[q] # NotAsking
      <3>1. asking'[q] = [asking[q] EXCEPT !.delay = @ + 1] /\ asking[q].delay + 1 \in 0 .. MaxDelay
        BY <1>1, <2>1, <2>3, LimitNumbers
      <3> QED BY <2>1, <2>3, <3>1 DEF AskState
    <2> QED BY <2>2, <2>3
  <1>5. ASSUME NEW c \in Clients
        PROVE  /\ allowance'[c] \in Int
               /\ allowance'[c] = Burst \/ allowance'[c] = allowance[c] + Refill
               /\ allowance[c] >= Burst => allowance'[c] = Burst
    <2>1. allowance[c] \in Int /\ Burst \in Int /\ Refill \in Int
      BY LimitTypes, LimitNumbers
    <2>2. allowance'[c] = Atmost(allowance[c] + Refill, Burst)
      BY <1>1
    <2>3. /\ allowance'[c] \in Int
          /\ allowance'[c] = Burst \/ allowance'[c] = allowance[c] + Refill
      BY <2>1, <2>2 DEF Atmost
    <2>4. allowance[c] >= Burst => allowance'[c] = Burst
      BY <2>1, <2>2, LimitNumbers DEF Atmost
    <2> QED BY <2>3, <2>4
  <1>6. LimitTypeOK'
    <2>1. allowance' \in [Clients -> Int]
      BY <1>1, <1>5
    <2>2. asking' \in [Requesters -> AskState]
      BY <1>1, <1>4
    <2> QED BY <1>1, <1>3, <2>1, <2>2 DEF LimitInv, LimitTypeOK, LimiterState, AskState
  <1>7. RequestsHoldCurrent'
    <2> SUFFICES ASSUME NEW q \in Requesters, asking'[q] # NotAsking
                 PROVE  /\ asking'[q].client \in Clients
                        /\ asking'[q].limiter \in Limiters
                        /\ shard[asking'[q].client] = asking'[q].limiter
                        /\ limiter'[asking'[q].limiter].unseen <= asking'[q].delay
      BY <1>1 DEF RequestsHoldCurrent, NotAsking
    <2>1. /\ asking[q] # NotAsking
          /\ asking[q].client \in Clients
          /\ asking[q].limiter \in Limiters
          /\ shard[asking[q].client] = asking[q].limiter
          /\ limiter[asking[q].limiter].unseen <= asking[q].delay
      BY <1>4 DEF LimitInv, RequestsHoldCurrent
    <2>2. /\ limiter'[asking[q].limiter].unseen <= limiter[asking[q].limiter].unseen + 1
          /\ limiter'[asking[q].limiter].unseen \in Int /\ limiter[asking[q].limiter].unseen \in Int
          /\ asking[q].delay \in Int
      BY <1>2, <2>1, LimitTypes
    <2> QED BY <1>4, <2>1, <2>2
  <1>8. LimiterWithinAllowance'
    <2> SUFFICES ASSUME NEW c \in Clients, shard[c] # NoLimiter
                 PROVE  /\ allowance'[c] >= limiter'[shard[c]].tokens
                        /\ \/ limiter'[shard[c]].unseen <= MaxDelay
                           \/ allowance'[c] >= Burst
                           \/ allowance'[c] >= Regained(limiter'[shard[c]].unseen)
      BY <1>1 DEF LimiterWithinAllowance, Regained
    <2> DEFINE o == shard[c]
    <2>1. /\ o \in Limiters
          /\ allowance[c] >= limiter[o].tokens
          /\ \/ limiter[o].unseen <= MaxDelay
             \/ allowance[c] >= Burst
             \/ allowance[c] >= Regained(limiter[o].unseen)
      BY LimitTypes DEF LimitInv, LimiterWithinAllowance
    <2> HIDE DEF o
    <2>2. /\ limiter[o].tokens \in 0 .. Burst /\ limiter[o].unseen \in 0 .. Old
          /\ allowance[c] \in Int
      BY <2>1, LimitTypes
    <2>3. allowance'[c] >= limiter'[o].tokens
      <3>1. allowance'[c] = Atmost(allowance[c] + Refill, Burst)
        BY <1>1
      <3>2. limiter'[o].tokens = Atmost(limiter[o].tokens + Refill, Burst)
        BY <1>2, <2>1
      <3> QED BY <2>1, <2>2, <3>1, <3>2, LimitNumbers DEF Atmost
    <2>4. \/ limiter'[o].unseen <= MaxDelay
          \/ allowance'[c] >= Burst
          \/ allowance'[c] >= Regained(limiter'[o].unseen)
      <3>1. limiter'[o].unseen = limiter[o].unseen + 1
            \/ (limiter[o].unseen = Old /\ limiter'[o].unseen = Old)
        BY <1>2, <2>1, <2>2, LimitNumbers DEF Atmost
      <3>2. CASE allowance[c] >= Burst
        BY <1>5, <2>2, <3>2, LimitNumbers
      <3>3. CASE ~ (allowance[c] >= Burst) /\ allowance'[c] = Burst
        BY <3>3, LimitNumbers
      <3>4. CASE ~ (allowance[c] >= Burst) /\ allowance'[c] = allowance[c] + Refill
        <4>1. CASE limiter[o].unseen <= MaxDelay
          <5>1. CASE limiter[o].unseen < MaxDelay
            BY <1>2, <2>1, <2>2, <5>1, LimitNumbers
          <5>2. CASE limiter[o].unseen = MaxDelay
            <6>1. limiter'[o].unseen = MaxDelay + 1
              BY <3>1, <5>2, LimitNumbers
            <6>2. Regained(limiter'[o].unseen) = Refill
              BY <6>1, RegainedGrows, LimitNumbers
            <6>3. limiter[o].tokens >= 0
              BY <2>2
            <6> QED BY <2>1, <2>2, <3>4, <6>2, <6>3, LimitNumbers
          <5> QED BY <2>2, <4>1, <5>1, <5>2, LimitNumbers
        <4>2. CASE ~ (limiter[o].unseen <= MaxDelay)
          <5>1. allowance[c] >= Regained(limiter[o].unseen)
            BY <2>1, <3>4, <4>2
          <5>2. limiter[o].unseen # Old
            BY <2>2, <3>4, <5>1, LimitNumbers, RegainedGrows
          <5>3. Regained(limiter'[o].unseen) = Regained(limiter[o].unseen) + Refill
                /\ Regained(limiter[o].unseen) \in Int
            BY <2>2, <3>1, <5>2, RegainedGrows
          <5> QED BY <2>2, <3>4, <5>1, <5>3, LimitNumbers
        <4> QED BY <4>1, <4>2
      <3> QED BY <1>5, <3>2, <3>3, <3>4
    <2> QED BY <2>3, <2>4 DEF o
  <1>9. WithoutLimiterFull'
    BY <1>1, <1>5, LimitNumbers DEF LimitInv, WithoutLimiterFull
  <1> QED BY <1>6, <1>7, <1>8, <1>9 DEF LimitInv

LEMMA LimitInitInv == LimitInit => LimitInv
  <1> SUFFICES ASSUME LimitInit PROVE LimitInv
    OBVIOUS
  <1>1. LimitTypeOK
    BY LimitNumbers DEF LimitInit, LimitTypeOK, NotAsking
  <1>2. RequestsHoldCurrent /\ LimiterWithinAllowance /\ WithoutLimiterFull
    BY LimitNumbers DEF LimitInit, RequestsHoldCurrent, LimiterWithinAllowance, WithoutLimiterFull
  <1> QED BY <1>1, <1>2 DEF LimitInv

LEMMA LimitStepInv == LimitInv /\ [LimitNext]_limitVars => LimitInv'
  <1> SUFFICES ASSUME LimitInv, [LimitNext]_limitVars PROVE LimitInv'
    OBVIOUS
  <1>1. CASE UNCHANGED limitVars
    BY <1>1 DEF limitVars, LimitInv, LimitTypeOK, RequestsHoldCurrent, LimiterWithinAllowance,
       WithoutLimiterFull, Regained, NotAsking
  <1>2. CASE CleanupShard
    BY <1>2, EvictInv DEF CleanupShard
  <1> QED BY <1>1, <1>2, GetInv, AllowInv, TickInv DEF LimitNext

\* LimitInv holds whatever clients, evictions and the clock do.
THEOREM LimitInvariance == LimitSpec => []LimitInv
  <1> QED BY LimitInitInv, LimitStepInv, PTL DEF LimitSpec

\* No client is allowed more requests than one bucket, kept for ever, allows.
THEOREM EvictionsGiveNothing == LimitSpec => []LimitIsKept
  <1>1. LimitInv => LimitIsKept
    <2> SUFFICES ASSUME LimitInv, NEW c \in Clients PROVE allowance[c] >= 0
      BY DEF LimitIsKept
    <2>1. allowance[c] \in Int
      BY LimitTypes
    <2>2. CASE shard[c] = NoLimiter
      BY <2>1, <2>2, LimitNumbers DEF LimitInv, WithoutLimiterFull
    <2>3. CASE shard[c] # NoLimiter
      <3>1. limiter[shard[c]].tokens \in 0 .. Burst /\ allowance[c] >= limiter[shard[c]].tokens
        BY <2>3, LimitTypes DEF LimitInv, LimiterWithinAllowance
      <3> QED BY <2>1, <3>1, LimitNumbers
    <2> QED BY <2>2, <2>3
  <1> QED BY <1>1, LimitInvariance, PTL

-----------------------------------------------------------------------------
(***************************************************************************)
(* ImageServing. For any number of failures of the storage: an answer is   *)
(* one file or one error, and an image whose original is there is served.  *)
(***************************************************************************)

Parts == Files \cup {"error"}
Attempt == [way : Ways, file : Files]

\* Until a way of sending succeeds or gives up, nothing has been sent.
NothingSentYet == trying.way # "done" /\ ~ broken => status = 0 /\ body = <<>>

\* A stream breaks off only when the storage fails.
BrokenByGlitch == broken => glitches # 0

\* The end is an answer, and an error has a reason: no storage, a late S3 failure, an original that is
\* gone, or a failure of the storage.
ErrorsHaveReasons ==
    trying.way = "done" /\ ~ broken =>
        /\ status # 0
        /\ status \in {404, 500} =>
              \/ ~ request.configured
              \/ request.provider = "s3"
              \/ "original" \notin inStorage
              \/ glitches # 0

ServingInv ==
    /\ ServingTypeOK
    /\ trying \in Attempt /\ body \in Seq(Parts)
    /\ NothingSentYet
    /\ BrokenByGlitch
    /\ ErrorsHaveReasons
    /\ AnswerIsOneImage

\* What a complete answer is.
Complete(code, part) ==
    \/ code \in {302, 304} /\ part = <<>>
    \/ code = 200 /\ part = <<trying.file>>
    \/ code \in {404, 500} /\ part = <<"error">>

Reason(code) ==
    code \in {404, 500} =>
        \/ ~ request.configured
        \/ request.provider = "s3"
        \/ "original" \notin inStorage
        \/ glitches' # 0

\* What every step but a deletion leaves alone.
StorageSame ==
    /\ UNCHANGED <<request, inStorage>>
    /\ data' \subseteq Files
    /\ glitches' \in 0 .. MaxGlitches
    /\ glitches # 0 => glitches' # 0

\* One way has failed, and nothing was sent: the next is tried.
LEMMA SilentInv ==
    ASSUME ServingInv, Silent, trying.way # "done", trying' \in Attempt, trying'.way # "done",
           StorageSame, UNCHANGED broken
    PROVE  ServingInv'
  <1>1. ServingTypeOK' /\ trying' \in Attempt /\ body' \in Seq(Parts)
    BY DEF ServingInv, ServingTypeOK, Silent, StorageSame, Attempt
  <1>2. NothingSentYet' /\ BrokenByGlitch' /\ ErrorsHaveReasons' /\ AnswerIsOneImage'
    BY DEF ServingInv, Silent, StorageSame, NothingSentYet, BrokenByGlitch, ErrorsHaveReasons,
           AnswerIsOneImage
  <1> QED BY <1>1, <1>2 DEF ServingInv

LEMMA SentBody ==
    ASSUME body \in Seq(Parts), NEW part \in Seq(Parts), body' = body \o part
    PROVE  /\ body' \in Seq(Parts)
           /\ \A n \in 1 .. Len(body') : body'[n] \in Parts
           /\ body = <<>> => body' = part
  <1> QED OBVIOUS

LEMMA AnswerInv ==
    ASSUME ServingInv, trying.way # "done", NEW code, NEW part, Answer(code, part),
           Complete(code, part), Reason(code), StorageSame, UNCHANGED broken
    PROVE  ServingInv'
  <1>1. /\ trying' = [trying EXCEPT !.way = "done"]
        /\ status' = IF status = 0 THEN code ELSE status
        /\ body' = body \o part
    BY DEF Answer, Sent, Done
  <1>2. /\ trying \in Attempt /\ trying.file \in Files /\ body \in Seq(Parts)
        /\ status \in {0, 200, 302, 304, 404, 500}
    BY DEF ServingInv, ServingTypeOK
  <1>3. trying' \in Attempt /\ trying'.way = "done" /\ trying'.file \in Files
    BY <1>1, <1>2 DEF Attempt, Ways
  <1>4. part \in Seq(Parts) /\ code \in {200, 302, 304, 404, 500}
    <2>1. <<>> \in Seq(Parts) /\ <<"error">> \in Seq(Parts) /\ <<trying.file>> \in Seq(Parts)
      BY <1>2 DEF Parts
    <2>2. part \in {<<>>, <<"error">>, <<trying.file>>}
      BY Zenon DEF Complete
    <2>3. part \in Seq(Parts)
      BY <2>1, <2>2, Zenon
    <2>4. code \in {200, 302, 304, 404, 500}
      BY DEF Complete
    <2> QED BY <2>3, <2>4
  <1>5. /\ body' \in Seq(Parts)
        /\ \A n \in 1 .. Len(body') : body'[n] \in Parts
        /\ body = <<>> => body' = part
    BY <1>1, <1>2, <1>4, SentBody
  <1>6. ServingTypeOK'
    <2>1. status' \in {0, 200, 302, 304, 404, 500}
      BY <1>1, <1>2, <1>4
    <2>2. trying'.file \in Files /\ trying'.way \in Ways
      BY <1>3 DEF Attempt, Ways
    <2>3. \A n \in 1 .. Len(body') : body'[n] \in Files \cup {"error"}
      BY <1>5 DEF Parts
    <2> QED BY <2>1, <2>2, <2>3 DEF ServingInv, ServingTypeOK, StorageSame
  <1>7. ~ broken => status' = code /\ body' = part
    BY <1>1, <1>5 DEF ServingInv, NothingSentYet
  <1>8. BrokenByGlitch' /\ NothingSentYet'
    BY <1>3 DEF ServingInv, BrokenByGlitch, NothingSentYet, StorageSame
  <1>9. ErrorsHaveReasons'
    BY <1>4, <1>7 DEF ErrorsHaveReasons, Reason, StorageSame
  <1>10. AnswerIsOneImage'
    <2> SUFFICES ASSUME ~ broken
                 PROVE  Len(body') <= 1
                        /\ (status' = 200 <=> (body' # <<>> /\ body'[1] \in Files))
      BY DEF AnswerIsOneImage
    <2>1. status' = code /\ body' = part
      BY <1>7
    <2>2. "error" \notin Files
      BY DEF Files
    <2>3. CASE code \in {302, 304} /\ part = <<>>
      BY <2>1, <2>3
    <2>4. CASE code = 200 /\ part = <<trying.file>>
      BY <1>2, <2>1, <2>4
    <2>5. CASE code \in {404, 500} /\ part = <<"error">>
      BY <2>1, <2>2, <2>5
    <2> QED BY <2>3, <2>4, <2>5 DEF Complete
  <1> QED BY <1>3, <1>5, <1>6, <1>8, <1>9, <1>10 DEF ServingInv

LEMMA ServingFacts ==
    ASSUME ServingInv
    PROVE  /\ trying \in Attempt /\ trying.file \in Files
           /\ data \subseteq Files /\ inStorage \subseteq Files
           /\ glitches \in 0 .. MaxGlitches /\ glitches \in Nat
           /\ \A w \in Ways : [trying EXCEPT !.way = w] \in Attempt
           /\ \A f \in Files : [way |-> "direct", file |-> f] \in Attempt
  <1>1. /\ trying \in Attempt /\ trying.file \in Files
        /\ data \subseteq Files /\ inStorage \subseteq Files
        /\ glitches \in 0 .. MaxGlitches
    BY DEF ServingInv, ServingTypeOK
  <1>2. glitches \in Nat
    BY <1>1, ServingAssumption
  <1> QED BY <1>1, <1>2 DEF Attempt, Ways

\* The two ways out of an attempt: to the next, or to the original.
LEMMA TryInv ==
    ASSUME ServingInv, trying.way # "done", NEW w \in Ways, w # "done",
           Try(w) \/ ServeOriginal, Silent, StorageSame, UNCHANGED broken
    PROVE  ServingInv'
  <1>1. trying' \in Attempt /\ trying'.way # "done"
    BY ServingFacts DEF Try, ServeOriginal, Attempt, Files, Ways
  <1> QED BY <1>1, SilentInv

\* A file that was read, or that the client has.
LEMMA SendFileInv ==
    ASSUME ServingInv, trying.way # "done", SendFile, StorageSame, UNCHANGED broken
    PROVE  ServingInv'
  <1>1. CASE Known
    BY <1>1, AnswerInv DEF SendFile, Complete, Reason
  <1>2. CASE ~ Known
    BY <1>2, AnswerInv DEF SendFile, Complete, Reason
  <1> QED BY <1>1, <1>2

---------------------------------------------------------------------------

LEMMA SelectInv ==
    ASSUME ServingInv, SelectFile
    PROVE  ServingInv'
  <1>1. trying.way = "select" /\ Silent
        /\ UNCHANGED <<request, inStorage, data, glitches, broken>>
    BY DEF SelectFile, Silent
  <1>2. \E f \in Files : trying' = [way |-> "direct", file |-> f]
    BY DEF SelectFile, Files
  <1>3. trying' \in Attempt /\ trying'.way = "direct"
    BY <1>2, ServingFacts
  <1>4. StorageSame
    BY <1>1, ServingFacts DEF StorageSame
  <1> QED BY <1>1, <1>3, <1>4, SilentInv

LEMMA DirectInv ==
    ASSUME ServingInv, DirectURL
    PROVE  ServingInv'
  <1>1. trying.way = "direct" /\ StorageSame /\ UNCHANGED broken
    BY ServingFacts DEF DirectURL, StorageSame
  <1>2. CASE request.direct /\ request.configured
    BY <1>1, <1>2, AnswerInv DEF DirectURL, Complete, Reason
  <1>3. CASE ~ (request.direct /\ request.configured)
    BY <1>1, <1>3, TryInv DEF DirectURL, Ways
  <1> QED BY <1>2, <1>3

LEMMA ProviderInv ==
    ASSUME ServingInv, StorageProvider
    PROVE  ServingInv'
  <1>1. trying.way = "provider" /\ StorageSame /\ UNCHANGED broken
    BY ServingFacts DEF StorageProvider, StorageSame
  <1>2. CASE Try("cache") /\ Silent
    BY <1>1, <1>2, TryInv DEF Ways
  <1>3. CASE ServeOriginal /\ Silent
    BY <1>1, <1>3, TryInv DEF Ways
  <1>4. CASE ~ request.configured /\ Answer(500, <<"error">>)
    BY <1>1, <1>4, AnswerInv DEF Complete, Reason
  <1> QED BY <1>2, <1>3, <1>4 DEF StorageProvider

LEMMA GlitchSame ==
    ASSUME ServingInv, Glitch, UNCHANGED <<request, inStorage, data>>
    PROVE  StorageSame /\ glitches' # 0
  <1>1. glitches' \in 0 .. MaxGlitches /\ glitches' # 0
    BY ServingFacts, ServingAssumption DEF Glitch, CanFail
  <1> QED BY <1>1, ServingFacts DEF StorageSame

LEMMA CacheInv ==
    ASSUME ServingInv, FromCache
    PROVE  ServingInv'
  <1>1. trying.way = "cache" /\ UNCHANGED <<request, inStorage, broken>>
    BY DEF FromCache
  <1>2. CASE SendFile /\ UNCHANGED <<data, glitches>>
    <2>1. StorageSame
      BY <1>1, <1>2, ServingFacts DEF StorageSame
    <2> QED BY <1>1, <1>2, <2>1, SendFileInv
  <1>3. CASE data' = data \cup {trying.file} /\ SendFile /\ UNCHANGED glitches
    <2>1. StorageSame
      BY <1>1, <1>3, ServingFacts DEF StorageSame
    <2> QED BY <1>1, <1>3, <2>1, SendFileInv
  <1>4. CASE Try("sendfile") /\ Silent /\ UNCHANGED <<data, glitches>>
    <2>1. StorageSame
      BY <1>1, <1>4, ServingFacts DEF StorageSame
    <2> QED BY <1>1, <1>4, <2>1, TryInv DEF Ways
  <1>5. CASE Glitch /\ Try("sendfile") /\ Silent /\ UNCHANGED data
    BY <1>1, <1>5, GlitchSame, TryInv DEF Ways
  <1> QED BY <1>2, <1>3, <1>4, <1>5 DEF FromCache

LEMMA SendfileInv ==
    ASSUME ServingInv, BySendfile
    PROVE  ServingInv'
  <1>1. trying.way = "sendfile" /\ StorageSame /\ UNCHANGED broken
    BY ServingFacts DEF BySendfile, StorageSame
  <1>2. CASE Try("stream") /\ Silent
    BY <1>1, <1>2, TryInv DEF Ways
  <1>3. CASE Answer(304, <<>>)
    BY <1>1, <1>3, AnswerInv DEF Complete, Reason
  <1>4. CASE Answer(200, <<trying.file>>)
    BY <1>1, <1>4, AnswerInv DEF Complete, Reason
  <1> QED BY <1>2, <1>3, <1>4 DEF BySendfile

\* A file that broke off: what was sent of it stays, and is no answer.
LEMMA BreakInv ==
    ASSUME ServingInv, Glitch, Sent(200, <<trying.file>>), trying' \in Attempt, broken' = TRUE,
           UNCHANGED <<request, inStorage, data>>
    PROVE  ServingInv'
  <1>1. StorageSame /\ glitches' # 0
    BY GlitchSame
  <1>2. trying' \in Attempt /\ broken' = TRUE
    OBVIOUS
  <1>3. <<trying.file>> \in Seq(Parts)
    BY ServingFacts DEF Parts
  <1>4. /\ body' \in Seq(Parts)
        /\ \A n \in 1 .. Len(body') : body'[n] \in Parts
    BY <1>3, SentBody DEF ServingInv, Sent
  <1>5. status' \in {0, 200, 302, 304, 404, 500}
    BY DEF ServingInv, ServingTypeOK, Sent
  <1>6. ServingTypeOK'
    BY <1>1, <1>2, <1>4, <1>5 DEF ServingInv, ServingTypeOK, StorageSame, Parts, Attempt
  <1> QED BY <1>1, <1>2, <1>4, <1>6 DEF ServingInv, NothingSentYet, BrokenByGlitch,
             ErrorsHaveReasons, AnswerIsOneImage

LEMMA StreamingInv ==
    ASSUME ServingInv, ByStreaming
    PROVE  ServingInv'
  <1>1. trying.way = "stream" /\ UNCHANGED <<request, inStorage, data>>
    BY DEF ByStreaming
  <1>2. ASSUME UNCHANGED <<glitches, broken>> PROVE StorageSame
    BY <1>1, <1>2, ServingFacts DEF StorageSame
  <1>3. CASE Answer(304, <<>>) /\ UNCHANGED <<glitches, broken>>
    BY <1>1, <1>2, <1>3, AnswerInv DEF Complete, Reason
  <1>4. CASE Answer(200, <<trying.file>>) /\ UNCHANGED <<glitches, broken>>
    BY <1>1, <1>2, <1>4, AnswerInv DEF Complete, Reason
  <1>5. CASE StreamBreaks
    <2>1. trying' \in Attempt
      BY <1>5, ServingFacts DEF StreamBreaks, Try, Attempt, Ways
    <2> QED BY <1>1, <1>5, <2>1, BreakInv DEF StreamBreaks
  <1>6. CASE Glitch /\ Try("reader") /\ Silent /\ UNCHANGED broken
    BY <1>1, <1>6, GlitchSame, TryInv DEF Ways
  <1>7. CASE Try("reader") /\ Silent /\ UNCHANGED <<glitches, broken>>
    BY <1>1, <1>2, <1>7, TryInv DEF Ways
  <1> QED BY <1>3, <1>4, <1>5, <1>6, <1>7 DEF ByStreaming, ClientLeaves

\* A reader that fails has a reason to, and so has the error it answers with.
LEMMA ReaderInv ==
    ASSUME ServingInv, ByReader
    PROVE  ServingInv'
  <1>1. trying.way = "reader" /\ UNCHANGED <<request, inStorage, data>>
    BY DEF ByReader
  <1>2. CASE SendFile /\ UNCHANGED <<glitches, broken>>
    <2>1. StorageSame
      BY <1>1, <1>2, ServingFacts DEF StorageSame
    <2> QED BY <1>1, <1>2, <2>1, SendFileInv
  <1>3. ASSUME StorageSame, ReaderFails \/ ReaderFailsLate, UNCHANGED broken,
               trying.file \notin inStorage \/ glitches' # 0
        PROVE  ServingInv'
    <2>1. CASE ReaderFails /\ trying.file = "variant"
      BY <1>1, <1>3, <2>1, TryInv DEF ReaderFails, Ways
    <2>2. CASE ReaderFails /\ trying.file # "variant"
      <3>1. trying.file = "original"
        BY <2>2, ServingFacts DEF Files
      <3> QED BY <1>1, <1>3, <2>2, <3>1, AnswerInv DEF ReaderFails, Complete, Reason
    <2>3. CASE ReaderFailsLate
      BY <1>1, <1>3, <2>3, AnswerInv DEF ReaderFailsLate, Complete, Reason
    <2> QED BY <1>3, <2>1, <2>2, <2>3
  <1>4. CASE trying.file \notin inStorage /\ (ReaderFails \/ ReaderFailsLate)
               /\ UNCHANGED <<glitches, broken>>
    <2>1. StorageSame
      BY <1>1, <1>4, ServingFacts DEF StorageSame
    <2> QED BY <1>3, <1>4, <2>1
  <1>5. CASE Glitch /\ (ReaderFails \/ ReaderFailsLate) /\ UNCHANGED broken
    BY <1>1, <1>3, <1>5, GlitchSame
  <1>6. CASE Glitch /\ ReaderBreaks
    <2>1. trying' \in Attempt
      BY <1>6, ServingFacts DEF ReaderBreaks, Answer, Done, Attempt, Ways
    <2> QED BY <1>1, <1>6, <2>1, BreakInv DEF ReaderBreaks, Answer
  <1> QED BY <1>2, <1>4, <1>5, <1>6 DEF ByReader

LEMMA FileGoesInv ==
    ASSUME ServingInv, NEW f \in Files, FileGoes(f)
    PROVE  ServingInv'
  <1>1. /\ trying.way # "done" /\ inStorage' = inStorage \ {f}
        /\ UNCHANGED <<request, trying, data, status, body, glitches, broken>>
    BY DEF FileGoes
  <1> QED BY <1>1 DEF ServingInv, ServingTypeOK, NothingSentYet, BrokenByGlitch, ErrorsHaveReasons,
             AnswerIsOneImage

LEMMA ServingInitInv == ServingInit => ServingInv
  <1> SUFFICES ASSUME ServingInit PROVE ServingInv
    OBVIOUS
  <1>1. body \in Seq(Parts) /\ Len(body) = 0 /\ trying \in Attempt
    BY DEF ServingInit, Attempt, Ways, Files
  <1>2. glitches \in 0 .. MaxGlitches
    BY ServingAssumption DEF ServingInit
  <1>3. ServingTypeOK
    <2>1. \A n \in 1 .. Len(body) : body[n] \in Files \cup {"error"}
      BY <1>1
    <2>2. trying.file \in Files /\ trying.way \in Ways
      BY <1>1 DEF Attempt
    <2> QED BY <1>2, <2>1, <2>2 DEF ServingInit, ServingTypeOK
  <1> QED BY <1>1, <1>3 DEF ServingInit, ServingInv, NothingSentYet, BrokenByGlitch,
             ErrorsHaveReasons, AnswerIsOneImage

LEMMA ServingStepInv == ServingInv /\ [ServingNext]_servingVars => ServingInv'
  <1> SUFFICES ASSUME ServingInv, [ServingNext]_servingVars PROVE ServingInv'
    OBVIOUS
  <1>1. CASE UNCHANGED servingVars
    BY <1>1 DEF servingVars, ServingInv, ServingTypeOK, NothingSentYet, BrokenByGlitch,
       ErrorsHaveReasons, AnswerIsOneImage
  <1> QED BY <1>1, SelectInv, DirectInv, ProviderInv, CacheInv, SendfileInv, StreamingInv,
             ReaderInv, FileGoesInv DEF ServingNext

\* ServingInv holds whatever is tried, deleted and failing.
THEOREM ServingInvariance == ServingSpec => []ServingInv
  <1> QED BY ServingInitInv, ServingStepInv, PTL DEF ServingSpec

\* An answer is one file or one error, and no error comes as a 200.
THEOREM AnswersAreOneImage == ServingSpec => []AnswerIsOneImage
  <1>1. ServingInv => AnswerIsOneImage
    BY DEF ServingInv
  <1> QED BY <1>1, ServingInvariance, PTL

\* While the original is there and the storage answers, so does the server.
THEOREM OriginalsCover == ServingSpec => []OriginalCoversVariant
  <1>1. ServingInv => OriginalCoversVariant
    BY DEF ServingInv, ServingTypeOK, OriginalCoversVariant, ErrorsHaveReasons, BrokenByGlitch
  <1> QED BY <1>1, ServingInvariance, PTL

-----------------------------------------------------------------------------
(***************************************************************************)
(* Albums. A deleted album is empty, an image that is deleted but still in *)
(* the album was being added while it was deleted, and the pages in the    *)
(* cache are those of the album.                                           *)
(***************************************************************************)

\* The images an addition has picked were there when it looked: those that are
\* gone since were deleted while it was under way.
PickedWereThere ==
    \A e \in Editors : editor[e].pc = "add" => editor[e].picked \ present \subseteq overlapped

\* A version is read to be increased only below the bound.
IncrementsFit ==
    \A e \in Editors : editor[e].pc = "store" => editor[e].version < MaxContent

AlbumInv ==
    /\ AlbumTypeOK
    /\ IncrementsFit
    /\ DeletedAlbumsAreEmpty
    /\ DanglingNeedsOverlap
    /\ PickedWereThere

ListerRecord == [pc : {"idle", "look", "query", "version", "store"},
                 version : PageVersions, page : Page]
EditorRecord == [pc : {"idle", "update", "add", "remove", "version", "store"},
                 picked : SUBSET Images, version : PageVersions]

---------------------------------------------------------------------------

\* What marks the pages leaves them pages, in the cache and on their way to it.
LEMMA MarkedTypes ==
    ASSUME AlbumTypeOK, MarkPages(ComesAgain) \/ MarkPages(IsLate)
    PROVE  /\ pages' \in [PageVersions -> Page]
           /\ lister' \in [Listers -> ListerRecord]
  <1>1. 0 \in AlbumContents
    BY AlbumAssumption DEF AlbumContents
  <1>2. \A p \in Page : ComesAgain(p) \in Page /\ IsLate(p) \in Page
    BY <1>1 DEF ComesAgain, IsLate, LatePage, NoPage, Page
  <1>3. \A l \in Listers, p \in Page :
            lister[l] \in ListerRecord /\ [lister[l] EXCEPT !.page = p] \in ListerRecord
    BY DEF AlbumTypeOK, ListerRecord
  <1>4. \A l \in Listers : lister[l].page \in Page
    BY DEF AlbumTypeOK
  <1>5. \A v \in PageVersions : pages[v] \in Page
    BY DEF AlbumTypeOK
  <1>6. CASE MarkPages(ComesAgain)
    BY <1>2, <1>3, <1>4, <1>5, <1>6 DEF MarkPages
  <1>7. CASE MarkPages(IsLate)
    BY <1>2, <1>3, <1>4, <1>5, <1>7 DEF MarkPages
  <1> QED BY <1>6, <1>7

\* ListAlbumsHandler and its goroutine touch nothing but the cache.
LEMMA ListInv ==
    ASSUME AlbumInv, NEW l \in Listers, ListStep(l)
    PROVE  AlbumInv'
  <1> USE DEF ListRest
  <1>1. UNCHANGED <<album, members, present, overlapped, content, version, editor>>
    BY DEF ListStep, ReadListVersion, LookUpPage, QueryAlbums, ReadVersionToStore, StorePage
  <1>2. 0 \in AlbumContents /\ 0 \in PageVersions
    BY AlbumAssumption DEF AlbumContents, PageVersions
  <1>3. NoPage \in Page /\ LatePage \in Page
    BY <1>2 DEF NoPage, LatePage, Page
  <1>4. IdleLister \in ListerRecord
    BY <1>2, <1>3 DEF IdleLister, ListerRecord
  <1>5. lister \in [Listers -> ListerRecord] /\ version \in PageVersions
        /\ content \in AlbumContents /\ pages \in [PageVersions -> Page]
    BY DEF AlbumInv, AlbumTypeOK, ListerRecord
  <1>6. \A p \in Page : [p EXCEPT !.there = TRUE] \in Page
                        /\ \A n \in AlbumContents : [p EXCEPT !.content = n] \in Page
    BY DEF Page
  <1>7. /\ pages' \in [PageVersions -> Page]
        /\ lister' \in [Listers -> ListerRecord]
    <2>1. CASE ReadListVersion(l)
      BY <2>1, <1>5 DEF ReadListVersion, ListerRecord
    <2>2. CASE LookUpPage(l)
      BY <2>2, <1>4, <1>5 DEF LookUpPage, ListerRecord, IdleLister
    <2>3. CASE QueryAlbums(l)
      BY <2>3, <1>5, <1>6 DEF QueryAlbums, ListerRecord
    <2>4. CASE ReadVersionToStore(l)
      BY <2>4, <1>3, <1>5, <1>6 DEF ReadVersionToStore, ListerRecord
    <2>5. CASE StorePage(l)
      BY <2>5, <1>4, <1>5 DEF StorePage, ListerRecord
    <2> QED BY <2>1, <2>2, <2>3, <2>4, <2>5 DEF ListStep
  <1>8. AlbumTypeOK'
    BY <1>1, <1>7 DEF AlbumInv, AlbumTypeOK, ListerRecord
  <1> QED BY <1>1, <1>8 DEF AlbumInv, IncrementsFit, DeletedAlbumsAreEmpty,
                            DanglingNeedsOverlap, PickedWereThere

\* The handlers that change albums.
LEMMA EditInv ==
    ASSUME AlbumInv, NEW e \in Editors, EditStep(e)
    PROVE  AlbumInv'
  <1> USE DEF EditRest, EditorGo, EditorEnds, Shows
  <1>1. 0 \in AlbumContents /\ 0 \in PageVersions /\ MaxContent \in Nat
    BY AlbumAssumption DEF AlbumContents, PageVersions
  <1>2. IdleEditor \in EditorRecord
    BY <1>1 DEF IdleEditor, EditorRecord
  <1>3. /\ editor \in [Editors -> EditorRecord]
        /\ lister \in [Listers -> ListerRecord]
        /\ pages \in [PageVersions -> Page]
        /\ album \in {"none", "live", "deleted"}
        /\ members \subseteq Images /\ present \subseteq Images /\ overlapped \subseteq Images
        /\ content \in 0 .. MaxContent /\ version \in 0 .. MaxContent
    BY DEF AlbumInv, AlbumTypeOK, EditorRecord, ListerRecord, AlbumContents, PageVersions
  <1>4. UNCHANGED <<present, overlapped>>
    BY DEF EditStep, CreateAlbum, DeleteAlbum, FetchForEdit, UpdateAlbum, AddImagesToAlbum,
           RemoveImagesFromAlbum, ReadVersionToIncrement, StoreVersion
  <1>5. /\ album' \in {"none", "live", "deleted"}
        /\ members' \subseteq Images
        /\ content' \in 0 .. MaxContent
        /\ album' = "deleted" => members' = {}
        /\ members' \ present \subseteq overlapped
    <2> USE DEF AlbumInv, DeletedAlbumsAreEmpty, DanglingNeedsOverlap
    <2>1. CASE CreateAlbum(e)
      BY <2>1, <1>1, <1>3 DEF CreateAlbum
    <2>2. CASE DeleteAlbum(e)
      BY <2>2, <1>1, <1>3 DEF DeleteAlbum
    <2>3. CASE FetchForEdit(e)
      BY <2>3, <1>1, <1>3 DEF FetchForEdit
    <2>4. CASE UpdateAlbum(e)
      BY <2>4, <1>1, <1>3 DEF UpdateAlbum
    <2>5. CASE AddImagesToAlbum(e)
      <3>1. editor[e].picked \subseteq Images /\ editor[e].picked \ present \subseteq overlapped
        BY <2>5, <1>3 DEF AddImagesToAlbum, PickedWereThere, EditorRecord
      <3> QED BY <2>5, <3>1, <1>1, <1>3 DEF AddImagesToAlbum
    <2>6. CASE RemoveImagesFromAlbum(e)
      BY <2>6, <1>1, <1>3 DEF RemoveImagesFromAlbum
    <2>7. CASE ReadVersionToIncrement(e)
      BY <2>7, <1>1, <1>3 DEF ReadVersionToIncrement
    <2>8. CASE StoreVersion(e)
      BY <2>8, <1>1, <1>3 DEF StoreVersion
    <2> QED BY <2>1, <2>2, <2>3, <2>4, <2>5, <2>6, <2>7, <2>8 DEF EditStep
  <1>6. /\ version' \in 0 .. MaxContent
        /\ pages' \in [PageVersions -> Page]
        /\ lister' \in [Listers -> ListerRecord]
    <2>1. CASE StoreVersion(e)
      <3>1. version' \in 0 .. MaxContent
        <4>1. editor[e].version \in 0 .. MaxContent /\ editor[e].version < MaxContent
          BY <2>1, <1>3 DEF StoreVersion, AlbumInv, IncrementsFit, EditorRecord, PageVersions
        <4> QED BY <2>1, <4>1, <1>1 DEF StoreVersion
      <3>2. MarkPages(ComesAgain) \/ UNCHANGED <<pages, lister>>
        BY <2>1 DEF StoreVersion
      <3> QED BY <3>1, <3>2, <1>3, MarkedTypes DEF AlbumInv
    <2>2. CASE ~ StoreVersion(e)
      BY <2>2, <1>3 DEF EditStep, CreateAlbum, DeleteAlbum, FetchForEdit, UpdateAlbum,
             AddImagesToAlbum, RemoveImagesFromAlbum, ReadVersionToIncrement
    <2> QED BY <2>1, <2>2
  <1>7. \E r \in EditorRecord :
           /\ editor' = [editor EXCEPT ![e] = r]
           /\ r.pc = "store" => r.version < MaxContent
           /\ r.pc = "add" => r.picked \subseteq present
    <2> DEFINE Witness(r) == /\ r \in EditorRecord
                             /\ editor' = [editor EXCEPT ![e] = r]
                             /\ r.pc = "store" => r.version < MaxContent
                             /\ r.pc = "add" => r.picked \subseteq present
    <2> SUFFICES \E r \in EditorRecord : Witness(r)
      OBVIOUS
    <2>1. ASSUME NEW s \in {"update", "version"}, EditorGo(e, s) PROVE \E r \in EditorRecord : Witness(r)
      <3>1. Witness([editor[e] EXCEPT !.pc = s, !.picked = {}])
        BY <2>1, <1>3 DEF EditorRecord
      <3> QED BY <3>1
    <2>2. ASSUME EditorEnds(e) PROVE \E r \in EditorRecord : Witness(r)
      <3>1. Witness(IdleEditor)
        BY <2>2, <1>2, <1>3 DEF IdleEditor
      <3> QED BY <3>1
    <2>3. CASE FetchForEdit(e)
      <3>1. CASE editor' = [editor EXCEPT ![e].pc = "update"]
        <4>1. Witness([editor[e] EXCEPT !.pc = "update"])
          BY <3>1, <1>3 DEF EditorRecord
        <4> QED BY <4>1
      <3>2. ASSUME NEW S \in SUBSET present \ {{}}, NEW s \in {"add", "remove"},
                   editor' = [editor EXCEPT ![e].pc = s, ![e].picked = S]
            PROVE  \E r \in EditorRecord : Witness(r)
        <4>1. Witness([editor[e] EXCEPT !.pc = s, !.picked = S])
          BY <3>2, <1>3 DEF EditorRecord
        <4> QED BY <4>1
      <3> QED BY <2>3, <3>1, <3>2 DEF FetchForEdit
    <2>4. CASE ReadVersionToIncrement(e)
      <3>1. Witness([editor[e] EXCEPT !.pc = "store", !.version = version])
        BY <2>4, <1>3 DEF ReadVersionToIncrement, EditorRecord, PageVersions
      <3> QED BY <3>1
    <2>5. CASE UpdateAlbum(e) \/ CreateAlbum(e) \/ DeleteAlbum(e)
      BY <2>5, <2>1 DEF UpdateAlbum, CreateAlbum, DeleteAlbum
    <2>6. CASE AddImagesToAlbum(e) \/ RemoveImagesFromAlbum(e)
      BY <2>6, <2>1, <2>2 DEF AddImagesToAlbum, RemoveImagesFromAlbum
    <2>7. CASE StoreVersion(e)
      BY <2>7, <2>2 DEF StoreVersion
    <2> QED BY <2>3, <2>4, <2>5, <2>6, <2>7 DEF EditStep
  <1>8. AlbumTypeOK'
    BY <1>3, <1>4, <1>5, <1>6, <1>7 DEF AlbumTypeOK, EditorRecord, ListerRecord, AlbumContents,
                                        PageVersions
  <1>9. IncrementsFit' /\ PickedWereThere'
    BY <1>3, <1>4, <1>7 DEF AlbumInv, IncrementsFit, PickedWereThere
  <1> QED BY <1>4, <1>5, <1>8, <1>9 DEF AlbumInv, DeletedAlbumsAreEmpty, DanglingNeedsOverlap

\* The deletion of an image takes it out of the album and marks it for the
\* additions that have picked it.
LEMMA DeletionInv ==
    ASSUME AlbumInv, NEW i \in Images, DeleteFromAlbums(i)
    PROVE  AlbumInv'
  <1>1. /\ UNCHANGED <<album, version, editor>>
        /\ present' = present \ {i} /\ members' = members \ {i}
        /\ overlapped \subseteq overlapped' /\ overlapped' \subseteq overlapped \cup {i}
        /\ \A e \in Editors : editor[e].pc = "add" /\ i \in editor[e].picked => i \in overlapped'
    BY DEF DeleteFromAlbums
  <1>2. MarkPages(IsLate) \/ UNCHANGED <<pages, lister>>
    BY DEF DeleteFromAlbums
  <1>3. /\ pages' \in [PageVersions -> Page]
        /\ lister' \in [Listers -> ListerRecord]
    BY <1>2, MarkedTypes DEF AlbumInv, AlbumTypeOK, ListerRecord
  <1>4. content' \in AlbumContents
    BY AlbumAssumption DEF AlbumInv, AlbumTypeOK, DeleteFromAlbums, Shows, AlbumContents
  <1>5. AlbumTypeOK'
    BY <1>1, <1>3, <1>4 DEF AlbumInv, AlbumTypeOK, ListerRecord
  <1>6. PickedWereThere'
    BY <1>1 DEF AlbumInv, PickedWereThere
  <1> QED BY <1>1, <1>5, <1>6 DEF AlbumInv, IncrementsFit, DeletedAlbumsAreEmpty,
                                  DanglingNeedsOverlap

LEMMA ExpiryInv ==
    ASSUME AlbumInv, ExpireVersion \/ ExpirePage
    PROVE  AlbumInv'
  <1>1. UNCHANGED <<album, members, present, overlapped, content, editor>>
    BY DEF ExpireVersion, ExpirePage
  <1>2. 0 \in PageVersions /\ 0 \in AlbumContents
    BY AlbumAssumption DEF PageVersions, AlbumContents
  <1>3. NoPage \in Page
    BY <1>2 DEF NoPage, Page
  <1>4. CASE ExpireVersion
    <2>1. version' = 0 /\ MarkPages(ComesAgain)
      BY <1>4 DEF ExpireVersion
    <2> QED BY <1>1, <1>2, <2>1, MarkedTypes
            DEF AlbumInv, AlbumTypeOK, ListerRecord, IncrementsFit, DeletedAlbumsAreEmpty,
                DanglingNeedsOverlap, PickedWereThere
  <1>5. CASE ExpirePage
    BY <1>1, <1>3, <1>5 DEF ExpirePage, AlbumInv, AlbumTypeOK, IncrementsFit,
       DeletedAlbumsAreEmpty, DanglingNeedsOverlap, PickedWereThere
  <1> QED BY <1>4, <1>5

LEMMA AlbumInitInv == AlbumInit => AlbumInv
  <1> SUFFICES ASSUME AlbumInit PROVE AlbumInv
    OBVIOUS
  <1>1. 0 \in PageVersions /\ 0 \in AlbumContents
    BY AlbumAssumption DEF PageVersions, AlbumContents
  <1>2. NoPage \in Page
    BY <1>1 DEF NoPage, Page
  <1> QED BY <1>1, <1>2 DEF AlbumInit, AlbumInv, AlbumTypeOK, IdleLister, IdleEditor,
             IncrementsFit, DeletedAlbumsAreEmpty, DanglingNeedsOverlap, PickedWereThere

LEMMA AlbumStepInv == AlbumInv /\ [AlbumNext]_albumVars => AlbumInv'
  <1>1. CASE UNCHANGED albumVars
    BY <1>1 DEF albumVars, AlbumInv, AlbumTypeOK, IncrementsFit, DeletedAlbumsAreEmpty,
                DanglingNeedsOverlap, PickedWereThere
  <1> QED BY <1>1, ListInv, EditInv, DeletionInv, ExpiryInv DEF AlbumNext

---------------------------------------------------------------------------
\* Theorems

\* AlbumInv holds whatever listings, handlers, deletions and expiries do.
THEOREM AlbumInvariance == AlbumSpec => []AlbumInv
  <1> QED BY AlbumInitInv, AlbumStepInv, PTL DEF AlbumSpec

\* An addition that has checked the album before it was deleted does not bring
\* images back into it: the transaction looks again.
THEOREM DeletedAlbumsStayEmpty == AlbumSpec => []DeletedAlbumsAreEmpty
  <1>1. AlbumInv => DeletedAlbumsAreEmpty
    BY DEF AlbumInv
  <1> QED BY <1>1, AlbumInvariance, PTL

\* The only images that are deleted and still in an album are those that were
\* deleted between the look-up and the transaction of an addition.
THEOREM DanglingMembersOverlapped == AlbumSpec => []DanglingNeedsOverlap
  <1>1. AlbumInv => DanglingNeedsOverlap
    BY DEF AlbumInv
  <1> QED BY <1>1, AlbumInvariance, PTL
---------------------------------------------------------------------------
\* The cached pages

\* Somebody has still to count the version up, and past v.
Owed(v) == \E e \in Editors :
    editor[e].pc = "version" \/ (editor[e].pc = "store" /\ v <= editor[e].version)

\* A page p of version v that is not what the albums are will not be served
\* again: its version has passed, or is about to.
Fresh(p) == p.there /\ ~ p.late /\ ~ p.again
Follows(p, v) == Fresh(p) => v <= version /\ (p.content = content \/ v < version \/ Owed(v))

\* In the cache, and on the way to it.
PagesFollow ==
    /\ \A v \in PageVersions : Follows(pages[v], v)
    /\ \A l \in Listers :
          /\ lister[l].pc = "store" => Follows(lister[l].page, lister[l].version)
          /\ lister[l].pc = "version" => lister[l].page.content <= content

\* Owed and Follows, after the step.
OwedThen(v) == \E e \in Editors :
    editor'[e].pc = "version" \/ (editor'[e].pc = "store" /\ v <= editor'[e].version)
StillFollows(p, v) ==
    Fresh(p) => v <= version' /\ (p.content = content' \/ v < version' \/ OwedThen(v))

LEMMA AlbumTyped ==
    ASSUME AlbumInv
    PROVE  /\ lister \in [Listers -> ListerRecord] /\ pages \in [PageVersions -> Page]
           /\ editor \in [Editors -> EditorRecord]
           /\ content \in Nat /\ version \in Nat /\ content \in AlbumContents /\ version \in PageVersions
           /\ \A v \in PageVersions : v \in Nat /\ pages[v] \in Page
           /\ \A p \in Page : p.content \in Nat
           /\ \A l \in Listers : lister[l].version \in PageVersions /\ lister[l].page \in Page
           /\ \A e \in Editors : editor[e].version \in Nat
  <1>1. AlbumContents \subseteq Nat /\ PageVersions \subseteq Nat
    BY AlbumAssumption DEF AlbumContents, PageVersions
  <1> QED BY <1>1 DEF AlbumInv, AlbumTypeOK, ListerRecord, EditorRecord, Page

LEMMA BlankPages ==
    /\ NoPage \in Page /\ ~ Fresh(NoPage) /\ LatePage \in Page /\ ~ Fresh(LatePage)
    /\ IdleLister \in ListerRecord /\ IdleLister.pc = "idle"
    /\ [IdleLister EXCEPT !.pc = "query"] \in ListerRecord
    /\ [IdleLister EXCEPT !.pc = "query"].pc = "query"
    /\ IdleEditor \in EditorRecord /\ IdleEditor.pc = "idle"
  <1>1. 0 \in AlbumContents /\ 0 \in PageVersions
    BY AlbumAssumption DEF AlbumContents, PageVersions
  <1>2. NoPage \in Page /\ ~ Fresh(NoPage)
    BY <1>1 DEF NoPage, Page, Fresh
  <1>3. LatePage \in Page /\ ~ Fresh(LatePage)
    BY <1>2 DEF LatePage, Page, Fresh
  <1> QED BY <1>1, <1>2, <1>3 DEF IdleLister, ListerRecord, IdleEditor, EditorRecord

\* Pages that are marked are not served as current ones any more.
LEMMA MarkedFollow ==
    ASSUME AlbumInv, PagesFollow, MarkPages(ComesAgain) \/ MarkPages(IsLate),
           content <= content', content' \in Nat
    PROVE  PagesFollow'
  <1>1. \A p \in Page : ~ Fresh(ComesAgain(p)) /\ ~ Fresh(IsLate(p))
    BY DEF Fresh, ComesAgain, IsLate, LatePage, NoPage, Page
  <1>2. \A v \in PageVersions : ~ Fresh(pages'[v])
    BY <1>1, AlbumTyped DEF MarkPages, Fresh
  <1>3. ASSUME NEW l \in Listers, lister[l].pc = "store"
        PROVE  lister'[l].pc = "store" /\ ~ Fresh(lister'[l].page)
    <2>1. lister[l] \in ListerRecord /\ lister[l].page \in Page
      BY AlbumTyped
    <2>2. \A p : LET r == [lister[l] EXCEPT !.page = p] IN r.pc = "store" /\ r.page = p
      BY <1>3, <2>1 DEF ListerRecord
    <2>3. CASE MarkPages(ComesAgain)
      <3>1. lister'[l] = [lister[l] EXCEPT !.page = ComesAgain(lister[l].page)]
        BY <1>3, <2>3 DEF MarkPages
      <3> QED BY <1>1, <2>1, <2>2, <3>1
    <2>4. CASE MarkPages(IsLate)
      <3>1. lister'[l] = [lister[l] EXCEPT !.page = IsLate(lister[l].page)]
        BY <1>3, <2>4 DEF MarkPages
      <3> QED BY <1>1, <2>1, <2>2, <3>1
    <2> QED BY <2>3, <2>4
  <1>4. \A l \in Listers : lister[l].pc # "store" => lister'[l] = lister[l]
    BY DEF MarkPages
  <1>5. \A l \in Listers : lister'[l].pc = "version" => lister'[l].page.content <= content'
    <2> SUFFICES ASSUME NEW l \in Listers, lister'[l].pc = "version"
                 PROVE  lister'[l].page.content <= content'
      OBVIOUS
    <2>1. lister'[l] = lister[l]
      BY <1>3, <1>4
    <2>2. lister[l].page.content <= content /\ lister[l].page.content \in Nat /\ content \in Nat
      BY <2>1, AlbumTyped DEF PagesFollow
    <2> QED BY <2>1, <2>2
  <1>6. \A l \in Listers : lister'[l].pc = "store" => ~ Fresh(lister'[l].page)
    BY <1>3, <1>4
  <1> QED BY <1>2, <1>5, <1>6 DEF PagesFollow, Follows

\* What leaves the version and the editors alone leaves every page that was there
\* as good as it was.
LEMMA ListFollow ==
    ASSUME AlbumInv, PagesFollow, NEW l \in Listers, ListStep(l)
    PROVE  PagesFollow'
  <1>1. UNCHANGED <<content, version, editor>>
    BY DEF ListStep, ListRest, ReadListVersion, LookUpPage, QueryAlbums, ReadVersionToStore, StorePage
  <1>2. /\ lister \in [Listers -> ListerRecord] /\ pages \in [PageVersions -> Page]
        /\ lister[l].page \in Page /\ lister[l].version \in PageVersions
        /\ content \in Nat /\ version \in Nat /\ lister[l].page.content \in Nat
    BY AlbumTyped
  <1>3. ASSUME pages' = pages, lister' \in [Listers -> ListerRecord],
               \A m \in Listers \ {l} : lister'[m] = lister[m],
               lister'[l].pc = "store" => StillFollows(lister'[l].page, lister'[l].version),
               lister'[l].pc = "version" => lister'[l].page.content <= content
        PROVE  PagesFollow'
    <2>1. \A m \in Listers : lister'[m].pc = "store" => StillFollows(lister'[m].page, lister'[m].version)
      BY <1>1, <1>3 DEF PagesFollow, Follows, StillFollows, Owed, OwedThen
    <2>2. \A m \in Listers : lister'[m].pc = "version" => lister'[m].page.content <= content'
      BY <1>1, <1>3 DEF PagesFollow
    <2>3. \A v \in PageVersions : StillFollows(pages'[v], v)
      BY <1>1, <1>3 DEF PagesFollow, Follows, StillFollows, Owed, OwedThen
    <2> QED BY <2>1, <2>2, <2>3 DEF PagesFollow, Follows, StillFollows, Owed, OwedThen
  <1>4. CASE ReadListVersion(l)
    <2> DEFINE r == [lister[l] EXCEPT !.pc = "look", !.version = version]
    <2>1. r \in ListerRecord /\ r.pc = "look"
      BY <1>2, AlbumTyped DEF ListerRecord
    <2>2. lister' = [lister EXCEPT ![l] = r] /\ pages' = pages
      BY <1>2, <1>4 DEF ReadListVersion
    <2> HIDE DEF r
    <2> QED BY <1>2, <1>3, <2>1, <2>2
  <1>5. CASE LookUpPage(l)
    <2>1. IdleLister \in ListerRecord /\ [IdleLister EXCEPT !.pc = "query"] \in ListerRecord
          /\ IdleLister.pc = "idle" /\ [IdleLister EXCEPT !.pc = "query"].pc = "query"
      BY BlankPages
    <2>2. PICK r \in ListerRecord : lister' = [lister EXCEPT ![l] = r] /\ r.pc \in {"idle", "query"}
      BY <1>5, <2>1 DEF LookUpPage
    <2>3. pages' = pages
      BY <1>5 DEF LookUpPage
    <2> QED BY <1>2, <1>3, <2>2, <2>3
  <1>6. CASE QueryAlbums(l)
    <2> DEFINE p == [lister[l].page EXCEPT !.content = content]
               r == [lister[l] EXCEPT !.pc = "version", !.page = p]
    <2>1. p \in Page /\ p.content = content
      BY <1>2, AlbumTyped DEF Page
    <2>2. lister' = [lister EXCEPT ![l] = r] /\ pages' = pages
      BY <1>2, <1>6 DEF QueryAlbums
    <2> HIDE DEF p
    <2>3. r \in ListerRecord /\ r.pc = "version" /\ r.page = p
      BY <1>2, <2>1 DEF ListerRecord
    <2> HIDE DEF r
    <2> QED BY <1>2, <1>3, <2>1, <2>2, <2>3
  <1>7. CASE ReadVersionToStore(l)
    <2> DEFINE p == IF lister[l].page.content < content THEN LatePage
                    ELSE [lister[l].page EXCEPT !.there = TRUE]
               r == [lister[l] EXCEPT !.pc = "store", !.version = version, !.page = p]
    <2>1. lister[l].page.content <= content
      BY <1>7 DEF ReadVersionToStore, PagesFollow
    <2>2. p \in Page /\ (Fresh(p) => p.content = content)
      <3>1. LatePage \in Page /\ ~ Fresh(LatePage)
        BY BlankPages
      <3>2. [lister[l].page EXCEPT !.there = TRUE] \in Page
            /\ [lister[l].page EXCEPT !.there = TRUE].content = lister[l].page.content
        BY <1>2 DEF Page
      <3> QED BY <1>2, <2>1, <3>1, <3>2
    <2>3. lister' = [lister EXCEPT ![l] = r] /\ pages' = pages
      BY <1>2, <1>7 DEF ReadVersionToStore
    <2> HIDE DEF p
    <2>4. r \in ListerRecord /\ r.pc = "store" /\ r.page = p /\ r.version = version
      BY <1>2, <2>2, AlbumTyped DEF ListerRecord
    <2> HIDE DEF r
    <2>5. StillFollows(p, version)
      BY <1>1, <1>2, <2>2 DEF StillFollows
    <2> QED BY <1>2, <1>3, <2>3, <2>4, <2>5
  <1>8. CASE StorePage(l)
    <2> DEFINE v == lister[l].version
               p == lister[l].page
    <2>1. /\ pages' = [pages EXCEPT ![v] = p] /\ lister' = [lister EXCEPT ![l] = IdleLister]
          /\ lister[l].pc = "store"
      BY <1>8 DEF StorePage
    <2>2. Follows(p, v)
      BY <2>1 DEF PagesFollow
    <2>3. \A u \in PageVersions : Follows(pages'[u], u)
      BY <1>2, <2>1, <2>2 DEF PagesFollow
    <2>4. \A m \in Listers : lister'[m] = lister[m] \/ lister'[m].pc = "idle"
      BY <1>2, <2>1 DEF IdleLister
    <2> QED BY <1>1, <2>3, <2>4 DEF PagesFollow, Follows, Owed
  <1> QED BY <1>4, <1>5, <1>6, <1>7, <1>8 DEF ListStep

\* A handler goes on, or ends.
LEMMA EditorMoves ==
    ASSUME AlbumInv, NEW e \in Editors
    PROVE  /\ EditorGo(e, "version") =>
                 editor'[e].pc = "version" /\ \A d \in Editors \ {e} : editor'[d] = editor[d]
           /\ EditorEnds(e) => \A d \in Editors \ {e} : editor'[d] = editor[d]
  BY AlbumTyped DEF EditorGo, EditorEnds, EditorRecord

\* A change leaves the pages to its own goroutine, and takes that duty from nobody.
LEMMA EditFollow ==
    ASSUME AlbumInv, PagesFollow, NEW e \in Editors, EditStep(e)
    PROVE  PagesFollow'
  <1> USE DEF EditRest
  <1>1. ASSUME UNCHANGED <<version, pages, lister>>, content <= content', content' \in Nat,
               \A d \in Editors \ {e} : editor'[d] = editor[d],
               content' = content \/ editor'[e].pc = "version",
               editor[e].pc = "version" => \/ editor'[e].pc = "version"
                                           \/ editor'[e].pc = "store" /\ editor'[e].version = version,
               editor[e].pc # "store"
        PROVE  PagesFollow'
    <2>1. \A v \in PageVersions : v <= version /\ Owed(v) => OwedThen(v)
      BY <1>1 DEF Owed, OwedThen
    <2>2. \A p \in Page, v \in PageVersions : Follows(p, v) => StillFollows(p, v)
      <3> SUFFICES ASSUME NEW p \in Page, NEW v \in PageVersions, Follows(p, v), Fresh(p)
                   PROVE  v <= version' /\ (p.content = content' \/ v < version' \/ OwedThen(v))
        BY DEF StillFollows
      <3>1. CASE editor'[e].pc = "version"
        BY <1>1, <3>1 DEF OwedThen, Follows
      <3>2. CASE content' = content
        BY <1>1, <2>1, <3>2 DEF Follows
      <3> QED BY <1>1, <3>1, <3>2
    <2>3. \A l \in Listers : lister[l].pc = "version" => lister[l].page.content <= content'
      <3> SUFFICES ASSUME NEW l \in Listers, lister[l].pc = "version"
                   PROVE  lister[l].page.content <= content'
        OBVIOUS
      <3>1. lister[l].page.content \in Nat /\ content \in Nat /\ lister[l].page.content <= content
        BY AlbumTyped DEF PagesFollow
      <3> QED BY <1>1, <3>1
    <2>4. \A l \in Listers : lister[l].pc = "store" => StillFollows(lister[l].page, lister[l].version)
      BY <2>2, AlbumTyped DEF PagesFollow
    <2>5. \A v \in PageVersions : StillFollows(pages[v], v)
      BY <2>2, AlbumTyped DEF PagesFollow
    <2> QED BY <1>1, <2>3, <2>4, <2>5 DEF PagesFollow, Follows, StillFollows, Owed, OwedThen
  <1>2. content \in Nat /\ version \in Nat /\ editor \in [Editors -> EditorRecord]
    BY AlbumTyped
  <1>3. ASSUME UNCHANGED <<version, pages, lister>>, editor[e].pc \notin {"version", "store"},
               \/ Shows /\ EditorGo(e, "version")
               \/ content' = content /\ (EditorGo(e, "version") \/ EditorEnds(e))
        PROVE  PagesFollow'
    <2>1. content <= content' /\ content' \in Nat
      BY <1>2, <1>3 DEF Shows
    <2>2. \A d \in Editors \ {e} : editor'[d] = editor[d]
      BY <1>3, EditorMoves
    <2>3. content' = content \/ editor'[e].pc = "version"
      BY <1>3, EditorMoves
    <2> QED BY <1>1, <1>3, <2>1, <2>2, <2>3
  <1>4. CASE CreateAlbum(e) \/ DeleteAlbum(e)
    BY <1>3, <1>4 DEF CreateAlbum, DeleteAlbum
  <1>5. CASE FetchForEdit(e)
    <2>1. \A d \in Editors \ {e} : editor'[d] = editor[d]
      BY <1>2, <1>5 DEF FetchForEdit
    <2> QED BY <1>1, <1>2, <1>5, <2>1 DEF FetchForEdit
  <1>6. CASE UpdateAlbum(e)
    <2>1. (Shows \/ content' = content) /\ EditorGo(e, "version")
      BY <1>6 DEF UpdateAlbum
    <2> QED BY <1>3, <1>6, <2>1 DEF UpdateAlbum
  <1>7. CASE AddImagesToAlbum(e)
    BY <1>3, <1>7 DEF AddImagesToAlbum
  <1>8. CASE RemoveImagesFromAlbum(e)
    BY <1>3, <1>8 DEF RemoveImagesFromAlbum
  <1>9. CASE ReadVersionToIncrement(e)
    <2> DEFINE r == [editor[e] EXCEPT !.pc = "store", !.version = version]
    <2>1. r.pc = "store" /\ r.version = version
      BY <1>2 DEF EditorRecord
    <2>2. editor' = [editor EXCEPT ![e] = r]
      BY <1>2, <1>9 DEF ReadVersionToIncrement
    <2> HIDE DEF r
    <2>3. editor'[e] = r /\ \A d \in Editors \ {e} : editor'[d] = editor[d]
      BY <1>2, <2>2
    <2> QED BY <1>1, <1>2, <1>9, <2>1, <2>3 DEF ReadVersionToIncrement
  <1>10. CASE StoreVersion(e)
    <2>1. /\ editor[e].pc = "store" /\ version' = editor[e].version + 1 /\ content' = content
          /\ \A d \in Editors \ {e} : editor'[d] = editor[d]
          /\ editor[e].version \in Nat
      BY <1>10, EditorMoves, AlbumTyped DEF StoreVersion
    <2>2. CASE version' < version
      BY <1>2, <1>10, <2>1, <2>2, MarkedFollow DEF StoreVersion
    <2>3. CASE ~ (version' < version)
      <3>1. UNCHANGED <<pages, lister>>
        BY <1>10, <2>3 DEF StoreVersion
      <3>2. \A p \in Page, v \in PageVersions : Follows(p, v) => StillFollows(p, v)
        <4> SUFFICES ASSUME NEW p \in Page, NEW v \in PageVersions, Follows(p, v), Fresh(p)
                     PROVE  v <= version' /\ (p.content = content' \/ v < version' \/ OwedThen(v))
          BY DEF StillFollows
        <4>1. v <= version' /\ v \in Nat /\ version' \in Nat
          BY <1>2, <2>1, <2>3, AlbumTyped DEF Follows
        <4>2. CASE v < version
          BY <1>2, <2>1, <2>3, <4>1, <4>2
        <4>3. CASE Owed(v)
          <5>1. CASE v <= editor[e].version
            BY <2>1, <4>1, <5>1
          <5>2. CASE ~ (v <= editor[e].version)
            BY <2>1, <4>1, <4>3, <5>2 DEF Owed, OwedThen
          <5> QED BY <5>1, <5>2
        <4> QED BY <2>1, <4>1, <4>2, <4>3 DEF Follows
      <3>3. \A l \in Listers : lister[l].pc = "store" => StillFollows(lister[l].page, lister[l].version)
        BY <3>2, AlbumTyped DEF PagesFollow
      <3>4. \A v \in PageVersions : StillFollows(pages[v], v)
        BY <3>2, AlbumTyped DEF PagesFollow
      <3>5. \A l \in Listers : lister[l].pc = "version" => lister[l].page.content <= content'
        BY <2>1 DEF PagesFollow
      <3> QED BY <3>1, <3>3, <3>4, <3>5 DEF PagesFollow, Follows, StillFollows, Owed, OwedThen
    <2> QED BY <2>2, <2>3
  <1> QED BY <1>4, <1>5, <1>6, <1>7, <1>8, <1>9, <1>10 DEF EditStep

LEMMA DeletionFollow ==
    ASSUME AlbumInv, PagesFollow, NEW i \in Images, DeleteFromAlbums(i)
    PROVE  PagesFollow'
  <1>1. content \in Nat
    BY AlbumTyped
  <1>2. CASE Shows /\ MarkPages(IsLate)
    BY <1>1, <1>2, MarkedFollow DEF Shows
  <1>3. CASE UNCHANGED <<content, pages, lister>>
    BY <1>3 DEF DeleteFromAlbums, PagesFollow, Follows, Owed
  <1> QED BY <1>2, <1>3 DEF DeleteFromAlbums

LEMMA ExpiryFollow ==
    ASSUME AlbumInv, PagesFollow, ExpireVersion \/ ExpirePage
    PROVE  PagesFollow'
  <1>1. CASE ExpireVersion
    BY <1>1, MarkedFollow, AlbumTyped DEF ExpireVersion
  <1>2. CASE ExpirePage
    <2>1. UNCHANGED <<content, version, editor, lister>>
      BY <1>2 DEF ExpirePage
    <2>2. \A v \in PageVersions : pages'[v] = pages[v] \/ ~ Fresh(pages'[v])
      BY <1>2, BlankPages, AlbumTyped DEF ExpirePage
    <2> QED BY <2>1, <2>2 DEF PagesFollow, Follows, Owed
  <1> QED BY <1>1, <1>2

LEMMA FollowInvariant == AlbumSpec => []PagesFollow
  <1>1. AlbumInit => PagesFollow
    <2> SUFFICES ASSUME AlbumInit PROVE PagesFollow
      OBVIOUS
    <2>1. \A v \in PageVersions : ~ Fresh(pages[v])
      BY BlankPages DEF AlbumInit
    <2>2. \A l \in Listers : lister[l].pc = "idle"
      BY BlankPages DEF AlbumInit
    <2> QED BY <2>1, <2>2 DEF PagesFollow, Follows
  <1>2. AlbumInv /\ PagesFollow /\ [AlbumNext]_albumVars => PagesFollow'
    <2>1. CASE UNCHANGED albumVars
      BY <2>1 DEF albumVars, PagesFollow, Follows, Owed
    <2> QED BY <2>1, ListFollow, EditFollow, DeletionFollow, ExpiryFollow DEF AlbumNext
  <1> QED BY <1>1, <1>2, AlbumInvariance, PTL DEF AlbumSpec

\* When every change has been followed by its invalidation the page that is
\* served shows the albums as they are, for any number of requests that list and
\* change them: a page that does not is of a version that has passed, or that a
\* change which is not done yet counts up.
THEOREM PagesStayCurrent == AlbumSpec => []PagesAreCurrent
  <1>1. AlbumInv /\ PagesFollow => PagesAreCurrent
    <2> SUFFICES ASSUME AlbumInv, PagesFollow, Invalidated, Fresh(pages[version])
                 PROVE  pages[version].content = content
      BY DEF PagesAreCurrent, Fresh
    <2>1. version \in PageVersions /\ ~ (version < version)
      BY AlbumTyped
    <2>2. ~ Owed(version)
      BY DEF Owed, Invalidated
    <2> QED BY <2>1, <2>2 DEF PagesFollow, Follows
  <1> QED BY <1>1, AlbumInvariance, FollowInvariant, PTL

=============================================================================
