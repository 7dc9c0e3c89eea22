------------------------- MODULE ChatSessionsProofs -------------------------
(* What a session leaves behind in the registries beside the rooms -- the     *)
(* temporary keys, the active senders, the accounts and the INFO card --      *)
(* stays true to the connections, for every instance of ChatConnection.       *)
EXTENDS ChatConnectionProofs

-----------------------------------------------------------------------------
(* The four kinds of step that matter here. *)

\* A socket becomes a party.
Enters(s, l) ==
  /\ m_loginRequest[s] = None
  /\ ~m__terminated[s]
  /\ AcceptConnection(s, l)
  /\ <<l.acc, l.name>> \in Identities
  /\ issued' = issued
  /\ \/ LocalServer /\ UNCHANGED <<waiting, infoCard>>
     \/ /\ ~LocalServer
        /\ l.req \in Keys
        /\ waiting[l.req] # None
        /\ waiting' = DeleteLogin(l.req)
        /\ UpdateAuthServer

\* A party's connection closes and everything under its name is cleaned up.
Leaves(s) ==
  /\ CloseAndCleanUp(s)
  /\ UNCHANGED <<keyVars, m_loginRequest, name>>

\* A step that changes no registry but the keys: of a connection, at most that
\* it begins to close, or that a stranger's or an evicted one's ends.
Aside ==
  /\ UNCHANGED <<m_loginRequest, m__group, m__terminated, m_units, c_accounts,
                 activeSenders, infoCard>>
  /\ \A t \in Sockets :
       readyState'[t] # readyState[t] =>
         \/ m_loginRequest[t] = None /\ ~m__terminated[t]
         \/ m__terminated[t] /\ readyState'[t] = "closed"
         \/ readyState[t] = "open" /\ readyState'[t] = "closing"
  /\ \/ UNCHANGED keyVars
     \/ \E k \in Keys, r \in LoginRequests : LoginRequest(k, r)
     \/ \E k \in Keys : LoginTimeout(k)

\* Accept is how a stranger becomes a party.
LEMMA AcceptEnters ==
  ASSUME TypeOK, OutsidersApart, NEW s \in Sockets, m_loginRequest[s] = None,
         Accept(s), issued' = issued
  PROVE  \E l \in Logins : Enters(s, l)
<1>0. ~m__terminated[s]
  BY DEF OutsidersApart
<1>1. CASE ~LocalServer
  <2>1. PICK k \in Keys, n \in UnitNames : AcceptWithKey(s, k, n)
    BY <1>1 DEF Accept
  <2>2. waiting[k] \in LoginRequests
    BY <2>1 DEF AcceptWithKey, TypeOK
  <2> DEFINE l == [acc |-> waiting[k].acc, grp |-> waiting[k].grp,
                   name |-> n, at |-> waiting[k].at, req |-> k]
  <2>3. l \in Logins /\ l.req = k
    BY <2>2 DEF LoginRequests, Logins
  <2>4. AcceptConnection(s, l) /\ <<l.acc, l.name>> \in Identities
    BY <2>1 DEF AcceptWithKey
  <2> HIDE DEF l
  <2>5. Enters(s, l)
    BY <1>0, <1>1, <2>1, <2>3, <2>4 DEF AcceptWithKey, Enters
  <2> QED BY <2>3, <2>5
<1>2. CASE LocalServer
  <2>1. PICK n \in UnitNames, at \in ActorTypes : AcceptLocal(s, n, at)
    BY <1>2 DEF Accept
  <2> DEFINE l == [acc |-> LocalAccount, grp |-> LocalGroup,
                   name |-> n, at |-> at, req |-> None]
  <2>2. l \in Logins
    BY ConfigAssumption DEF Logins
  <2>3. AcceptConnection(s, l) /\ <<l.acc, l.name>> \in Identities
    BY <2>1 DEF AcceptLocal
  <2> HIDE DEF l
  <2>4. Enters(s, l)
    BY <1>0, <1>2, <2>1, <2>3 DEF AcceptLocal, Enters
  <2> QED BY <2>2, <2>4
<1> QED BY <1>1, <1>2, ConfigAssumption

\* Every step is of one of these kinds.
LEMMA KindsOfStep ==
  ASSUME RoomsInv, [Next]_vars
  PROVE  \/ \E s \in Sockets, l \in Logins : Enters(s, l)
         \/ \E s \in Sockets : Leaves(s)
         \/ \E s \in Sockets : Logout(s)
         \/ Aside
<1>0. TypeOK /\ OutsidersApart
  BY DEF RoomsInv
<1> USE DEF keyVars, socketVars, roomVars
<1>1. ASSUME NEW k \in Keys, NEW r \in LoginRequests, LoginRequest(k, r)
      PROVE  Aside
  BY <1>1 DEF LoginRequest, Aside
<1>2. ASSUME NEW k \in Keys, LoginTimeout(k)
      PROVE  Aside
  BY <1>2 DEF LoginTimeout, Aside
<1>3. ASSUME NEW s \in Sockets, m_loginRequest[s] = None, ~m__terminated[s],
             UNCHANGED <<m_loginRequest, m__group, m__terminated, m_units,
                         c_accounts, activeSenders, infoCard, keyVars>>,
             \A t \in Sockets \ {s} : readyState'[t] = readyState[t]
      PROVE  Aside
  BY <1>3 DEF Aside
<1>4. ASSUME NEW s \in Sockets, m_loginRequest[s] = None, Refuse(s),
             issued' = issued
      PROVE  Aside
  BY <1>0, <1>3, <1>4 DEF Refuse, OutsidersApart, TypeOK
<1>5. ASSUME NEW s \in Sockets, ConnectForFrame(s) \/ RejectQuery(s)
                                \/ AuthTimeout(s)
      PROVE  Aside
  BY <1>0, <1>3, <1>5
     DEF ConnectForFrame, RejectQuery, AuthTimeout, OutsidersApart, TypeOK
<1>6. ASSUME NEW s \in Sockets, ConnectWithQuery(s)
      PROVE  Aside \/ \E l \in Logins : Enters(s, l)
  <2>1. m_loginRequest[s] = None /\ issued' = issued
    BY <1>0, <1>6 DEF ConnectWithQuery, OutsidersApart
  <2> QED BY <1>0, <1>4, <1>6, <2>1, AcceptEnters DEF ConnectWithQuery
<1>7. ASSUME NEW s \in Sockets, AuthFrame(s)
      PROVE  Aside \/ \E l \in Logins : Enters(s, l)
  <2>1. m_loginRequest[s] = None /\ issued' = issued
    BY <1>0, <1>7 DEF AuthFrame, OutsidersApart
  <2> QED BY <1>0, <1>4, <1>7, <2>1, AcceptEnters DEF AuthFrame
<1>8. ASSUME NEW s \in Sockets, UdpOpen(s) \/ UdpClose(s)
      PROVE  Aside
  BY <1>8 DEF UdpOpen, UdpClose, Aside
<1>9. ASSUME NEW s \in Sockets, Close(s)
      PROVE  Aside \/ Leaves(s)
  <2>1. CASE CloseQuietly(s)
    BY <1>0, <1>9, <2>1 DEF Close, CloseQuietly, Aside, TypeOK
  <2>2. CASE CloseAndCleanUp(s)
    BY <1>9, <2>2 DEF Close, Leaves
  <2> QED BY <1>9, <2>1, <2>2 DEF Close
<1>10. ASSUME NEW n \in UnitNames, UdpBound(n) \/ Reap(n)
       PROVE  Aside
  BY <1>10 DEF UdpBound, Reap, Aside
<1>11. ASSUME NEW s \in Sockets, PeerLeaves(s)
       PROVE  Aside
  BY <1>0, <1>11 DEF PeerLeaves, Aside, TypeOK
<1>12. CASE UNCHANGED vars
  BY <1>12 DEF vars, Aside
<1> QED
  BY <1>1, <1>2, <1>5, <1>6, <1>7, <1>8, <1>9, <1>10, <1>11, <1>12
     DEF Next, SocketStep

\* What a new party changes.  Its name is free when it joins.
EntersEffect(s, l) ==
  /\ l # None /\ l.acc \in Accounts /\ l.grp \in Groups
  /\ l.name \in UnitNames
  /\ s \notin Victims(l.acc, l.name)
  /\ \A t \in Victims(l.acc, l.name) :
       /\ t \in Sockets /\ l.name \in Names /\ m_loginRequest[t] # None
       /\ m_loginRequest[t].acc = l.acc
       /\ m_loginRequest[t].name = l.name
  /\ m_loginRequest' = [m_loginRequest EXCEPT ![s] = l]
  /\ \A t \in Sockets :
       /\ m_loginRequest'[t] = IF t = s THEN l ELSE m_loginRequest[t]
       /\ t = s => Live(t)'
       /\ t # s => readyState'[t] = IF t \in Victims(l.acc, l.name)
                                    THEN "closing" ELSE readyState[t]
       /\ m__terminated'[t] = IF t \in Victims(l.acc, l.name) THEN TRUE
                              ELSE m__terminated[t]
  /\ \A n \in UnitNames :
       activeSenders'[n] = IF n = l.name THEN s ELSE activeSenders[n]
  /\ c_accounts' \subseteq c_accounts \cup {l.acc}
  /\ \A b \in Accounts, g \in Groups, n \in UnitNames :
       m_units'[b][g][n] =
         IF b = l.acc /\ n = l.name /\ n # None
         THEN IF g = l.grp THEN s ELSE None
         ELSE IF b = l.acc /\ g = l.grp /\ n = l.name
                 /\ m_units[b][g][n] = None
         THEN s ELSE m_units[b][g][n]

\* A socket that enters has exactly this effect on the rooms.
LEMMA EntersFacts ==
  ASSUME RoomsInv, NEW s \in Sockets, NEW l \in Logins, Enters(s, l)
  PROVE  EntersEffect(s, l)
<1> DEFINE V == Victims(l.acc, l.name)
           U == UnitsWithout(l.acc, l.name)
           joins == U[l.acc][l.grp][l.name] = None
<1>0. TypeOK /\ RoomsAgree /\ UnitsAreLiveSockets
  BY DEF RoomsInv, RoomsAgree
<1>1. l # None /\ l.acc \in Accounts /\ l.grp \in Groups /\ l.name \in UnitNames
  BY NoneAssumption DEF Logins
<1>2. \A t \in V : /\ t \in Sockets /\ l.name \in Names
                   /\ m_loginRequest[t] # None
                   /\ m_loginRequest[t].acc = l.acc
                   /\ m_loginRequest[t].name = l.name
  BY <1>0, <1>1, VictimIsUnit DEF Victims
<1>3. s \notin V
  BY <1>2 DEF Enters
<1>4. /\ m_loginRequest' = [m_loginRequest EXCEPT ![s] = l]
      /\ activeSenders' = [activeSenders EXCEPT ![l.name] = s]
      /\ m__terminated' = TerminatedAfter(V)
      /\ readyState' = [ReadyAfter(V) EXCEPT
                           ![s] = IF @ = "closing" THEN @ ELSE "open"]
      /\ m_units' = IF joins THEN [U EXCEPT ![l.acc][l.grp][l.name] = s]
                    ELSE U
      /\ c_accounts' = AccountsWithout(l.acc, l.name) \cup {l.acc}
  BY DEF Enters, AcceptConnection, AddActiveSender
<1>5. c_accounts' \subseteq c_accounts \cup {l.acc}
  BY <1>4 DEF AccountsWithout
<1>6. U \in [Accounts -> [Groups -> [UnitNames -> SocketOrNone]]]
  BY <1>0, <1>1, RemovalType
<1>7. \A b \in Accounts, g \in Groups, n \in UnitNames :
        U[b][g][n] = IF l.name # None /\ b = l.acc /\ n = l.name THEN None
                     ELSE m_units[b][g][n]
  BY RemovalUnits
<1> HIDE DEF V, U
<1>8. \A t \in Sockets :
        /\ m_loginRequest'[t] = IF t = s THEN l ELSE m_loginRequest[t]
        /\ t = s => Live(t)'
        /\ t # s => readyState'[t] = IF t \in V THEN "closing"
                                                ELSE readyState[t]
        /\ m__terminated'[t] = IF t \in V THEN TRUE ELSE m__terminated[t]
  BY <1>0, <1>4 DEF ReadyAfter, TerminatedAfter, TypeOK, Live
<1>9. \A n \in UnitNames :
        activeSenders'[n] = IF n = l.name THEN s ELSE activeSenders[n]
  BY <1>0, <1>4 DEF TypeOK
<1>10. \A b \in Accounts, g \in Groups, n \in UnitNames :
         m_units'[b][g][n] = IF joins /\ b = l.acc /\ g = l.grp /\ n = l.name
                             THEN s ELSE U[b][g][n]
  BY <1>1, <1>4, <1>6
<1>11. \A b \in Accounts, g \in Groups, n \in UnitNames :
         m_units'[b][g][n] =
           IF b = l.acc /\ n = l.name /\ n # None
           THEN IF g = l.grp THEN s ELSE None
           ELSE IF b = l.acc /\ g = l.grp /\ n = l.name
                   /\ m_units[b][g][n] = None
           THEN s ELSE m_units[b][g][n]
  BY <1>1, <1>7, <1>10
<1> QED BY <1>1, <1>2, <1>3, <1>4, <1>5, <1>8, <1>9, <1>11 DEF V, EntersEffect

\* What the cleanup of a party changes.
LeavesEffect(s, l) ==
  /\ l # None /\ l.acc \in Accounts /\ l.name \in UnitNames
  /\ ~m__terminated[s]
  /\ \A t \in Victims(l.acc, l.name) :
       /\ t \in Sockets /\ l.name \in Names /\ m_loginRequest[t] # None
       /\ m_loginRequest[t].acc = l.acc
       /\ m_loginRequest[t].name = l.name
  /\ m_loginRequest' = m_loginRequest
  /\ \A t \in Sockets :
       /\ readyState'[t] = IF t = s THEN "closed"
                           ELSE IF t \in Victims(l.acc, l.name)
                           THEN "closing" ELSE readyState[t]
       /\ m__terminated'[t] = IF t \in Victims(l.acc, l.name) THEN TRUE
                              ELSE m__terminated[t]
  /\ \A n \in UnitNames :
       activeSenders'[n] = IF n = l.name /\ n # None THEN None
                           ELSE activeSenders[n]
  /\ c_accounts' = AccountsWithout(l.acc, l.name)
  /\ \A b \in Accounts, g \in Groups, n \in UnitNames :
       m_units'[b][g][n] = IF b = l.acc /\ n = l.name /\ n # None
                           THEN None ELSE m_units[b][g][n]

\* A socket that leaves by its own close or logout has exactly this effect.
LEMMA LeavesFacts ==
  ASSUME RoomsInv, NEW s \in Sockets, Leaves(s)
  PROVE  LeavesEffect(s, m_loginRequest[s])
<1> DEFINE l == m_loginRequest[s]
<1> DEFINE V == Victims(l.acc, l.name)
<1>0. TypeOK /\ RoomsAgree /\ UnitsAreLiveSockets
  BY DEF RoomsInv, RoomsAgree
<1>1. l # None /\ ~m__terminated[s] /\ l.acc \in Accounts /\ l.name \in UnitNames
  BY <1>0 DEF Leaves, CloseAndCleanUp, TypeOK, Logins
<1>2. \A t \in V : /\ t \in Sockets /\ l.name \in Names
                   /\ m_loginRequest[t] # None
                   /\ m_loginRequest[t].acc = l.acc
                   /\ m_loginRequest[t].name = l.name
  BY <1>0, <1>1, VictimIsUnit DEF Victims
<1>3. /\ m_loginRequest' = m_loginRequest
      /\ activeSenders' = IF l.name = None THEN activeSenders
                          ELSE [activeSenders EXCEPT ![l.name] = None]
      /\ m__terminated' = TerminatedAfter(V)
      /\ readyState' = [ReadyAfter(V) EXCEPT ![s] = "closed"]
      /\ m_units' = UnitsWithout(l.acc, l.name)
      /\ c_accounts' = AccountsWithout(l.acc, l.name)
  BY DEF Leaves, CloseAndCleanUp, DeleteActiveSender
<1> HIDE DEF V
<1>4. \A t \in Sockets :
        /\ readyState'[t] = IF t = s THEN "closed"
                            ELSE IF t \in V THEN "closing" ELSE readyState[t]
        /\ m__terminated'[t] = IF t \in V THEN TRUE ELSE m__terminated[t]
  BY <1>3 DEF ReadyAfter, TerminatedAfter
<1>5. \A n \in UnitNames :
        activeSenders'[n] = IF n = l.name /\ n # None THEN None
                            ELSE activeSenders[n]
  BY <1>0, <1>1, <1>3 DEF TypeOK
<1>6. \A b \in Accounts, g \in Groups, n \in UnitNames :
        m_units'[b][g][n] = IF b = l.acc /\ n = l.name /\ n # None
                            THEN None ELSE m_units[b][g][n]
  BY <1>1, <1>3, RemovalUnits
<1> QED BY <1>1, <1>2, <1>3, <1>4, <1>5, <1>6 DEF V, LeavesEffect

\* What a logout changes, besides the groups: at most the socket's own unit.
LEMMA LogoutFacts ==
  ASSUME RoomsInv, NEW s \in Sockets, Logout(s)
  PROVE  /\ UNCHANGED <<keyVars, readyState, m_loginRequest, name,
                        m__terminated, activeSenders, infoCard, c_accounts>>
         /\ \A t \in Sockets : m__group'[t] = IF t = s THEN None ELSE m__group[t]
         /\ \A b \in Accounts, g \in Groups, n \in UnitNames :
              \/ m_units'[b][g][n] = m_units[b][g][n]
              \/ m_units'[b][g][n] = None /\ n # None
<1>0. TypeOK /\ RoomsAgree
  BY DEF RoomsInv
<1>1. UNCHANGED <<keyVars, readyState, m_loginRequest, name,
                  m__terminated, activeSenders, infoCard, c_accounts>>
  BY DEF Logout, roomVars
<1>2. CASE m__group[s] = None \/ name[s] = None
  BY <1>0, <1>1, <1>2 DEF Logout, roomVars, TypeOK
<1>3. CASE ~(m__group[s] = None \/ name[s] = None)
  <2>1. m_units[m__group[s].acc][m__group[s].grp][name[s]] = s
    BY <1>0, <1>3 DEF RoomsAgree, GroupsHoldTheirSockets, IsMember
  <2>2. m__group' = [t \in Sockets |-> IF t = s THEN None ELSE m__group[t]]
    BY <1>3, <2>1 DEF Logout
  <2>3. m_units' = LogoutUnits(s)
    BY <1>3 DEF Logout
  <2>4. m__group[s].acc \in Accounts /\ m__group[s].grp \in Groups
          /\ name[s] \in UnitNames
    BY <1>0, <1>3 DEF TypeOK, GroupRefs
  <2>5. \A b \in Accounts, g \in Groups, n \in UnitNames :
          m_units'[b][g][n] = IF b = m__group[s].acc /\ g = m__group[s].grp
                                 /\ n = name[s]
                              THEN None ELSE m_units[b][g][n]
    BY <1>0, <2>3, <2>4 DEF LogoutUnits, TypeOK
  <2> QED BY <1>1, <1>3, <2>2, <2>5
<1> QED BY <1>2, <1>3

-----------------------------------------------------------------------------
(* The inductive invariant: two facts tie the properties to the connections.  *)

\* The unit of a party without a sender id is never removed.
NamelessStay ==
  \A s \in Sockets :
    m_loginRequest[s] # None /\ m_loginRequest[s].name = None =>
      \E g \in Groups : m_units[m_loginRequest[s].acc][g][None] # None

\* The keys that wait and the keys that were used are keys that were issued.
KeysIssued ==
  /\ \A k \in Keys : waiting[k] # None => k \in issued
  /\ ~LocalServer =>
       \A s \in Sockets :
         m_loginRequest[s] # None => m_loginRequest[s].req \in issued

SessionsInv ==
  /\ PartiesInv
  /\ NamelessStay
  /\ KeysIssued
  /\ KeyUsedOnce
  /\ NoDanglingSender
  /\ MemberIsActive
  /\ NoLeakedAccount
  /\ InfoCardCovers

\* What removes units removes them by sender id.
LEMMA NamelessStep ==
  ASSUME RoomsInv, NamelessStay, [Next]_vars
  PROVE  NamelessStay'
<1>0. TypeOK /\ None \in UnitNames /\ None \notin Sockets
  BY NoneAssumption DEF RoomsInv, UnitNames
<1> SUFFICES ASSUME NEW t \in Sockets, m_loginRequest'[t] # None,
                    m_loginRequest'[t].name = None
             PROVE  \E g \in Groups :
                      m_units'[m_loginRequest'[t].acc][g][None] # None
  BY DEF NamelessStay
<1>1. ASSUME m_loginRequest'[t] = m_loginRequest[t],
             \A b \in Accounts, g \in Groups :
               m_units[b][g][None] # None => m_units'[b][g][None] # None
      PROVE  \E g \in Groups : m_units'[m_loginRequest'[t].acc][g][None] # None
  <2>1. m_loginRequest[t].acc \in Accounts
    BY <1>0, <1>1 DEF TypeOK, Logins
  <2> QED BY <1>1, <2>1 DEF NamelessStay
<1>2. ASSUME NEW s \in Sockets, NEW l \in Logins, Enters(s, l)
      PROVE  \E g \in Groups : m_units'[m_loginRequest'[t].acc][g][None] # None
  <2>0. EntersEffect(s, l)
    BY <1>2, EntersFacts
  <2>1. /\ l.acc \in Accounts /\ l.grp \in Groups
        /\ m_loginRequest'[t] = IF t = s THEN l ELSE m_loginRequest[t]
    BY <2>0 DEF EntersEffect
  <2>2. ASSUME NEW b \in Accounts, NEW g \in Groups
        PROVE  m_units'[b][g][None] =
                 IF b = l.acc /\ g = l.grp /\ None = l.name
                    /\ m_units[b][g][None] = None
                 THEN s ELSE m_units[b][g][None]
    BY <1>0, <2>0 DEF EntersEffect
  <2>3. CASE t = s
    BY <1>0, <2>1, <2>2, <2>3
  <2>4. CASE t # s
    <3>1. \A b \in Accounts, g \in Groups :
            m_units[b][g][None] # None => m_units'[b][g][None] # None
      BY <2>2
    <3> QED BY <1>1, <2>1, <2>4, <3>1
  <2> QED BY <2>3, <2>4
<1>3. ASSUME NEW s \in Sockets, Leaves(s)
      PROVE  \E g \in Groups : m_units'[m_loginRequest'[t].acc][g][None] # None
  <2>1. LeavesEffect(s, m_loginRequest[s])
    BY <1>3, LeavesFacts
  <2>2. /\ m_loginRequest'[t] = m_loginRequest[t]
        /\ \A b \in Accounts, g \in Groups :
             m_units'[b][g][None] = m_units[b][g][None]
    BY <1>0, <2>1 DEF LeavesEffect
  <2> QED BY <1>1, <2>2
<1>4. ASSUME NEW s \in Sockets, Logout(s)
      PROVE  \E g \in Groups : m_units'[m_loginRequest'[t].acc][g][None] # None
  BY <1>0, <1>1, <1>4, LogoutFacts
<1>5. CASE Aside
  BY <1>1, <1>5 DEF Aside
<1> QED BY <1>2, <1>3, <1>4, <1>5, KindsOfStep

\* A key is fresh when it is issued, and gone once it was used.
LEMMA KeysStep ==
  ASSUME RoomsInv, KeysIssued, KeyUsedOnce, [Next]_vars
  PROVE  KeysIssued' /\ KeyUsedOnce'
<1>0. TypeOK
  BY DEF RoomsInv
<1>1. ASSUME m_loginRequest' = m_loginRequest, issued \subseteq issued',
             \A k \in Keys : waiting'[k] # None =>
               waiting[k] # None \/ (k \in issued' /\ k \notin issued)
      PROVE  KeysIssued' /\ KeyUsedOnce'
  <2>1. ~LocalServer => \A s \in Sockets :
          m_loginRequest[s] # None => m_loginRequest[s].req \in issued
    BY DEF KeysIssued
  <2>2. issued \subseteq Keys
    BY <1>0 DEF TypeOK
  <2>3. KeysIssued'
    BY <1>1 DEF KeysIssued
  <2>4. KeyUsedOnce'
    BY <1>1, <2>1, <2>2 DEF KeyUsedOnce
  <2> QED BY <2>3, <2>4
<1>2. ASSUME NEW s \in Sockets, NEW l \in Logins, Enters(s, l)
      PROVE  KeysIssued' /\ KeyUsedOnce'
  <2>0. EntersEffect(s, l)
    BY <1>2, EntersFacts
  <2>1. \A t \in Sockets :
          m_loginRequest'[t] = IF t = s THEN l ELSE m_loginRequest[t]
    BY <2>0 DEF EntersEffect
  <2>2. issued' = issued /\ m_loginRequest[s] = None
    BY <1>2 DEF Enters
  <2>3. CASE LocalServer
    <3>1. waiting' = waiting
      BY <1>2, <2>3 DEF Enters
    <3> QED BY <2>2, <2>3, <3>1 DEF KeysIssued, KeyUsedOnce
  <2>4. CASE ~LocalServer
    <3>1. /\ l.req \in Keys /\ waiting[l.req] # None
          /\ \A k \in Keys :
               waiting'[k] = IF k = l.req THEN None ELSE waiting[k]
      BY <1>0, <1>2, <2>4 DEF Enters, DeleteLogin, TypeOK
    <3>2. KeysIssued'
      BY <2>1, <2>2, <3>1 DEF KeysIssued
    <3>3. \A t \in Sockets : m_loginRequest[t] # None =>
            /\ m_loginRequest[t].req \in Keys
            /\ waiting[m_loginRequest[t].req] = None
            /\ m_loginRequest[t].req # l.req
      BY <1>0, <2>4, <3>1 DEF KeysIssued, KeyUsedOnce, TypeOK
    <3>4. KeyUsedOnce'
      BY <2>1, <2>2, <2>4, <3>1, <3>3 DEF KeyUsedOnce
    <3> QED BY <3>2, <3>4
  <2> QED BY <2>3, <2>4
<1>3. ASSUME NEW s \in Sockets, Leaves(s) PROVE KeysIssued' /\ KeyUsedOnce'
  BY <1>1, <1>3 DEF Leaves, keyVars
<1>4. ASSUME NEW s \in Sockets, Logout(s) PROVE KeysIssued' /\ KeyUsedOnce'
  BY <1>1, <1>4, LogoutFacts DEF keyVars
<1>5. CASE Aside
  <2>1. m_loginRequest' = m_loginRequest
    BY <1>5 DEF Aside
  <2>2. CASE UNCHANGED keyVars
    BY <1>1, <2>1, <2>2 DEF keyVars
  <2>3. ASSUME NEW k \in Keys, NEW r \in LoginRequests, LoginRequest(k, r)
        PROVE  KeysIssued' /\ KeyUsedOnce'
    <3>1. \A j \in Keys : waiting'[j] # None =>
            waiting[j] # None \/ (j \in issued' /\ j \notin issued)
      BY <1>0, <2>3 DEF LoginRequest, TypeOK
    <3> QED BY <1>1, <2>1, <2>3, <3>1 DEF LoginRequest
  <2>4. ASSUME NEW k \in Keys, LoginTimeout(k)
        PROVE  KeysIssued' /\ KeyUsedOnce'
    <3>1. \A j \in Keys : waiting'[j] # None => waiting[j] # None
      BY <1>0, <2>4 DEF LoginTimeout, DeleteLogin, TypeOK
    <3> QED BY <1>1, <2>1, <2>4, <3>1 DEF LoginTimeout
  <2> QED BY <1>5, <2>2, <2>3, <2>4 DEF Aside
<1> QED BY <1>2, <1>3, <1>4, <1>5, KindsOfStep

\* An entry is replaced by whoever takes the name over, and deleted by name.
LEMMA SenderStep ==
  ASSUME RoomsInv, NoDanglingSender, [Next]_vars
  PROVE  NoDanglingSender'
<1>0. TypeOK /\ Names \subseteq UnitNames /\ None \notin Names
  BY NoneAssumption DEF RoomsInv, UnitNames
<1> SUFFICES ASSUME NEW n \in Names, activeSenders'[n] # None
             PROVE  /\ readyState'[activeSenders'[n]] \in {"open", "closing"}
                    /\ ~m__terminated'[activeSenders'[n]]
                    /\ m_loginRequest'[activeSenders'[n]] # None
                    /\ m_loginRequest'[activeSenders'[n]].name = n
  BY DEF NoDanglingSender, Live
<1> DEFINE t == activeSenders[n]
           Stands == /\ readyState'[activeSenders'[n]] \in {"open", "closing"}
                     /\ ~m__terminated'[activeSenders'[n]]
                     /\ m_loginRequest'[activeSenders'[n]] # None
                     /\ m_loginRequest'[activeSenders'[n]].name = n
<1>1. t # None => /\ t \in Sockets
                  /\ readyState[t] \in {"open", "closing"}
                  /\ m_loginRequest[t] # None
                  /\ m_loginRequest[t].name = n
                  /\ ~m__terminated[t]
  BY <1>0 DEF NoDanglingSender, Live, TypeOK, SocketOrNone
<1>2. ASSUME NEW s \in Sockets, NEW l \in Logins, Enters(s, l)
      PROVE  Stands
  <2> DEFINE V == Victims(l.acc, l.name)
  <2>0. EntersEffect(s, l) /\ m_loginRequest[s] = None /\ ~m__terminated[s]
    BY <1>2, EntersFacts DEF Enters
  <2>1. /\ l # None
        /\ m_loginRequest[s] = None /\ ~m__terminated[s] /\ s \notin V
        /\ \A v \in V : m_loginRequest[v].name = l.name
        /\ activeSenders'[n] = IF n = l.name THEN s ELSE t
        /\ \A v \in Sockets :
             /\ m_loginRequest'[v] = IF v = s THEN l ELSE m_loginRequest[v]
             /\ v = s => readyState'[v] \in {"open", "closing"}
             /\ v # s => readyState'[v] = IF v \in V THEN "closing"
                                                     ELSE readyState[v]
             /\ m__terminated'[v] = IF v \in V THEN TRUE ELSE m__terminated[v]
    BY <1>0, <2>0 DEF EntersEffect, Live
  <2> HIDE DEF V, t
  <2> QED BY <1>1, <2>1
<1>3. ASSUME NEW s \in Sockets, Leaves(s) PROVE Stands
  <2> DEFINE l == m_loginRequest[s]
             V == Victims(l.acc, l.name)
  <2>0. LeavesEffect(s, l)
    BY <1>3, LeavesFacts
  <2>1. /\ \A v \in V : m_loginRequest[v].name = l.name
        /\ activeSenders'[n] = IF n = l.name THEN None ELSE t
        /\ m_loginRequest' = m_loginRequest
        /\ \A v \in Sockets :
             /\ readyState'[v] = IF v = s THEN "closed" ELSE IF v \in V
                                 THEN "closing" ELSE readyState[v]
             /\ m__terminated'[v] = IF v \in V THEN TRUE ELSE m__terminated[v]
    BY <1>0, <2>0 DEF LeavesEffect
  <2> HIDE DEF V, t
  <2> QED BY <1>1, <2>1
<1>4. ASSUME NEW s \in Sockets, Logout(s) PROVE Stands
  BY <1>1, <1>4, LogoutFacts
<1>5. CASE Aside
  BY <1>1, <1>5 DEF Aside
<1> QED BY <1>2, <1>3, <1>4, <1>5, KindsOfStep

\* A unit shares its exclusive sender id with no party of another account.
LEMMA ExclusiveUnit ==
  ASSUME PartiesInv, NEW b \in Accounts, NEW g \in Groups, NEW n \in Names,
         NEW t \in Sockets, m_units[b][g][n] = t, Exclusive(n),
         NEW a \in Accounts, <<a, n>> \in Identities
  PROVE  a = b
<1>1. m_loginRequest[t] # None /\ m_loginRequest[t].acc = b
        /\ m_loginRequest[t].name = n
  BY DEF PartiesInv, RoomsInv, RoomsAgree, UnitsAreLiveSockets
<1>2. <<b, n>> \in Identities
  BY <1>1 DEF PartiesInv, PartiesStay
<1> QED BY <1>2 DEF Exclusive

\* Whoever takes a sender id over takes the unit and the entry over together.
LEMMA ActiveStep ==
  ASSUME PartiesInv, MemberIsActive, [Next]_vars
  PROVE  MemberIsActive'
<1>0. RoomsInv /\ Names \subseteq UnitNames /\ None \notin Names
        /\ None \notin Sockets
  BY NoneAssumption DEF PartiesInv, UnitNames
<1> SUFFICES ASSUME NEW b \in Accounts, NEW g \in Groups, NEW n \in Names,
                    NEW t \in Sockets, Exclusive(n), m_units'[b][g][n] = t
             PROVE  activeSenders'[n] = t
  BY DEF MemberIsActive, Exclusive
<1>1. m_units[b][g][n] = t => activeSenders[n] = t
  BY DEF MemberIsActive
<1>2. ASSUME NEW s \in Sockets, NEW l \in Logins, Enters(s, l)
      PROVE  activeSenders'[n] = t
  <2>0. EntersEffect(s, l) /\ <<l.acc, l.name>> \in Identities
    BY <1>0, <1>2, EntersFacts DEF Enters
  <2>1. l.acc \in Accounts /\ n \in UnitNames
        /\ activeSenders'[n] = IF n = l.name THEN s ELSE activeSenders[n]
    BY <1>0, <2>0 DEF EntersEffect
  <2>2. m_units'[b][g][n] =
          IF b = l.acc /\ n = l.name /\ n # None
          THEN IF g = l.grp THEN s ELSE None
          ELSE IF b = l.acc /\ g = l.grp /\ n = l.name
                  /\ m_units[b][g][n] = None
          THEN s ELSE m_units[b][g][n]
    BY <2>0, <2>1 DEF EntersEffect
  <2>3. CASE n # l.name
    BY <1>1, <2>1, <2>2, <2>3
  <2>4. CASE n = l.name /\ b = l.acc
    BY <1>0, <2>1, <2>2, <2>4
  <2>5. CASE n = l.name /\ b # l.acc
    <3>1. m_units[b][g][n] = t
      BY <2>2, <2>5
    <3> QED BY <2>0, <2>1, <2>5, <3>1, ExclusiveUnit
  <2> QED BY <2>3, <2>4, <2>5
<1>3. ASSUME NEW s \in Sockets, Leaves(s)
      PROVE  activeSenders'[n] = t
  <2> DEFINE l == m_loginRequest[s]
  <2>0. LeavesEffect(s, l)
    BY <1>0, <1>3, LeavesFacts
  <2>1. l # None /\ l.acc \in Accounts
    BY <2>0 DEF LeavesEffect
  <2>2. <<l.acc, l.name>> \in Identities
    BY <2>1 DEF PartiesInv, PartiesStay
  <2> HIDE DEF l
  <2>3. n \in UnitNames /\ n # None
    BY <1>0
  <2>4. activeSenders'[n] = IF n = l.name THEN None ELSE activeSenders[n]
    BY <2>0, <2>3 DEF LeavesEffect
  <2>5. m_units'[b][g][n] = IF b = l.acc /\ n = l.name THEN None
                            ELSE m_units[b][g][n]
    BY <2>0, <2>3 DEF LeavesEffect
  <2>6. m_units[b][g][n] = t /\ ~(b = l.acc /\ n = l.name)
    BY <1>0, <2>5
  <2>7. n # l.name
    BY <2>1, <2>2, <2>6, ExclusiveUnit
  <2> QED BY <1>1, <2>4, <2>6, <2>7
<1>4. ASSUME NEW s \in Sockets, Logout(s)
      PROVE  activeSenders'[n] = t
  <2>1. m_units'[b][g][n] = m_units[b][g][n] \/ m_units'[b][g][n] = None
    BY <1>0, <1>4, LogoutFacts
  <2>2. activeSenders' = activeSenders
    BY <1>0, <1>4, LogoutFacts
  <2> QED BY <1>0, <1>1, <2>1, <2>2
<1>5. CASE Aside
  BY <1>1, <1>5 DEF Aside
<1> QED BY <1>0, <1>2, <1>3, <1>4, <1>5, KindsOfStep

\* What keeps an account registered.
Held(a) ==
  \/ \E s \in Sockets :
       /\ Live(s)
       /\ ~m__terminated[s]
       /\ m_loginRequest[s] # None
       /\ m_loginRequest[s].acc = a
  \/ \E g \in Groups : m_units[a][g][None] # None

\* It is kept as long as nobody of the account is touched.
LEMMA HeldKept ==
  ASSUME NEW a, Held(a), m_loginRequest' = m_loginRequest,
         \A g \in Groups :
           m_units[a][g][None] # None => m_units'[a][g][None] # None,
         \A t \in Sockets :
           /\ Live(t)
           /\ ~m__terminated[t]
           /\ m_loginRequest[t] # None
           /\ m_loginRequest[t].acc = a
           => Live(t)' /\ ~m__terminated'[t]
  PROVE  Held(a)'
BY DEF Held

\* The groups that a cleanup leaves in the party's account have a unit in them,
\* which is a connected party unless it announced no sender id.
LEMMA LeavesHeld ==
  ASSUME RoomsInv, NamelessStay, NEW s \in Sockets, Leaves(s),
         m_loginRequest[s].acc \in c_accounts'
  PROVE  Held(m_loginRequest[s].acc)'
<1> DEFINE l == m_loginRequest[s]
           a == l.acc
           n == l.name
<1>0. TypeOK /\ RoomsAgree /\ None \in UnitNames /\ None \notin Sockets
  BY NoneAssumption DEF RoomsInv, UnitNames
<1>1. LeavesEffect(s, l)
  BY LeavesFacts
<1>2. /\ l # None /\ a \in Accounts /\ n \in UnitNames
      /\ ~m__terminated[s]
      /\ m_loginRequest' = m_loginRequest
      /\ c_accounts' = AccountsWithout(a, n)
      /\ \A t \in Victims(a, n) : m_loginRequest[t].name = n
  BY <1>1 DEF LeavesEffect
<1>3. \A t \in Sockets :
        /\ readyState'[t] = IF t = s THEN "closed" ELSE IF t \in Victims(a, n)
                            THEN "closing" ELSE readyState[t]
        /\ m__terminated'[t] = IF t \in Victims(a, n) THEN TRUE
                               ELSE m__terminated[t]
  BY <1>1 DEF LeavesEffect
<1>4. \A g \in Groups : m_units'[a][g][None] = m_units[a][g][None]
  <2> SUFFICES ASSUME NEW g \in Groups
               PROVE  m_units'[a][g][None] = m_units[a][g][None]
    OBVIOUS
  <2>1. \A m \in UnitNames :
          m_units'[a][g][m] = IF a = l.acc /\ m = l.name /\ m # None THEN None
                              ELSE m_units[a][g][m]
    BY <1>1, <1>2 DEF LeavesEffect
  <2> HIDE DEF l
  <2> QED BY <1>0, <2>1
<1>5. CASE n = None
  <2>1. PICK g \in Groups : m_units[a][g][None] # None
    BY <1>2, <1>5 DEF NamelessStay
  <2>2. m_units'[a][g][None] # None
    BY <1>4, <2>1
  <2> QED BY <1>2, <2>2 DEF Held
<1>6. CASE n # None
  <2>1. GroupsWithout(a, n)[a] # {}
    BY <1>2, <1>6 DEF AccountsWithout
  <2>2. PICK g \in Groups, m \in UnitNames : UnitsWithout(a, n)[a][g][m] # None
    BY <1>0, <1>2, <2>1, RemovalGroups DEF RoomsAgree
  <2>3. m # n /\ m_units[a][g][m] # None
    BY <1>2, <1>6, <2>2, RemovalUnits
  <2>4. CASE m = None
    <3>1. m_units'[a][g][None] # None
      BY <1>4, <2>3, <2>4
    <3> QED BY <1>2, <3>1 DEF Held
  <2>5. CASE m # None
    <3>1. PICK t \in Sockets : m_units[a][g][m] = t
      BY <1>0, <1>2, <2>3 DEF TypeOK, SocketOrNone
    <3>2. m \in Names
      BY <2>5 DEF UnitNames
    <3>3. /\ Live(t) /\ ~m__terminated[t]
          /\ m_loginRequest[t] # None
          /\ m_loginRequest[t].acc = a
          /\ m_loginRequest[t].name = m
      BY <1>0, <1>2, <3>1, <3>2 DEF RoomsAgree, UnitsAreLiveSockets
    <3>4. t # s /\ t \notin Victims(a, n)
      BY <1>2, <2>3, <3>3
    <3>5. Live(t)' /\ ~m__terminated'[t]
      BY <1>3, <3>3, <3>4 DEF Live
    <3> QED BY <1>2, <3>3, <3>5 DEF Held
  <2> QED BY <2>4, <2>5
<1> QED BY <1>5, <1>6

\* An account is registered by its party, and goes with the last of its groups.
LEMMA AccountStep ==
  ASSUME RoomsInv, NamelessStay, NoLeakedAccount, [Next]_vars
  PROVE  NoLeakedAccount'
<1>0. TypeOK /\ None \in UnitNames /\ None \notin Sockets
  BY NoneAssumption DEF RoomsInv, UnitNames
<1> SUFFICES ASSUME NEW a \in c_accounts' PROVE Held(a)'
  BY DEF NoLeakedAccount, Held
<1>1. a \in c_accounts => a \in Accounts /\ Held(a)
  BY <1>0 DEF TypeOK, NoLeakedAccount, Held
<1>2. ASSUME NEW s \in Sockets, NEW l \in Logins, Enters(s, l)
      PROVE  Held(a)'
  <2>0. EntersEffect(s, l) /\ m_loginRequest[s] = None /\ ~m__terminated[s]
    BY <1>2, EntersFacts DEF Enters
  <2>1. /\ l # None
        /\ s \notin Victims(l.acc, l.name)
        /\ \A t \in Victims(l.acc, l.name) : m_loginRequest[t].acc = l.acc
        /\ c_accounts' \subseteq c_accounts \cup {l.acc}
    BY <2>0 DEF EntersEffect
  <2>2. \A t \in Sockets :
          /\ m_loginRequest'[t] = IF t = s THEN l ELSE m_loginRequest[t]
          /\ t = s => Live(t)'
          /\ t # s => readyState'[t] = IF t \in Victims(l.acc, l.name)
                                       THEN "closing" ELSE readyState[t]
          /\ m__terminated'[t] = IF t \in Victims(l.acc, l.name) THEN TRUE
                                 ELSE m__terminated[t]
    BY <2>0 DEF EntersEffect
  <2>3. CASE a = l.acc
    BY <2>0, <2>1, <2>2, <2>3 DEF Held
  <2>4. CASE a # l.acc
    <3>1. a \in Accounts /\ Held(a)
      BY <1>1, <2>1, <2>4
    <3>2. CASE \E g \in Groups : m_units[a][g][None] # None
      <4>1. PICK g \in Groups : m_units[a][g][None] # None
        BY <3>2
      <4>2. m_units'[a][g][None] = m_units[a][g][None]
        BY <1>0, <2>0, <2>4, <3>1 DEF EntersEffect
      <4> QED BY <4>1, <4>2 DEF Held
    <3>3. ASSUME NEW t \in Sockets, Live(t),
                 ~m__terminated[t], m_loginRequest[t] # None,
                 m_loginRequest[t].acc = a
          PROVE  Held(a)'
      <4>1. t # s /\ t \notin Victims(l.acc, l.name)
        BY <2>0, <2>1, <2>4, <3>3
      <4> QED BY <2>2, <3>3, <4>1 DEF Held, Live
    <3> QED BY <3>1, <3>2, <3>3 DEF Held
  <2> QED BY <2>3, <2>4
<1>3. ASSUME NEW s \in Sockets, Leaves(s)
      PROVE  Held(a)'
  <2> DEFINE l == m_loginRequest[s]
  <2>0. LeavesEffect(s, l)
    BY <1>3, LeavesFacts
  <2>1. CASE a = l.acc
    <3>1. m_loginRequest' = m_loginRequest
      BY <2>0 DEF LeavesEffect
    <3>2. Held(m_loginRequest[s].acc)'
      BY <1>3, <2>1, LeavesHeld
    <3> QED BY <2>1, <3>1, <3>2 DEF Held
  <2>2. CASE a # l.acc
    <3>1. /\ a \in c_accounts
          /\ m_loginRequest' = m_loginRequest
          /\ \A t \in Victims(l.acc, l.name) : m_loginRequest[t].acc = l.acc
      BY <2>0 DEF LeavesEffect, AccountsWithout
    <3>2. \A t \in Sockets :
            /\ readyState'[t] = IF t = s THEN "closed"
                                ELSE IF t \in Victims(l.acc, l.name)
                                THEN "closing" ELSE readyState[t]
            /\ m__terminated'[t] = IF t \in Victims(l.acc, l.name) THEN TRUE
                                   ELSE m__terminated[t]
      BY <2>0 DEF LeavesEffect
    <3>3. \A g \in Groups : m_units'[a][g][None] = m_units[a][g][None]
      BY <1>0, <1>1, <2>0, <2>2, <3>1 DEF LeavesEffect
    <3>4. ASSUME NEW t \in Sockets, Live(t), ~m__terminated[t],
                 m_loginRequest[t] # None, m_loginRequest[t].acc = a
          PROVE  Live(t)' /\ ~m__terminated'[t]
      BY <2>2, <3>1, <3>2, <3>4 DEF Live
    <3> QED BY <1>1, <3>1, <3>3, <3>4, HeldKept
  <2> QED BY <2>1, <2>2
<1>4. ASSUME NEW s \in Sockets, Logout(s)
      PROVE  Held(a)'
  <2>1. UNCHANGED <<c_accounts, m_loginRequest, readyState, m__terminated>>
    BY <1>4, LogoutFacts
  <2>2. a \in Accounts /\ Held(a)
    BY <1>1, <2>1
  <2>3. \A g \in Groups : m_units'[a][g][None] = m_units[a][g][None]
    BY <1>0, <1>4, <2>2, LogoutFacts
  <2>4. \A t \in Sockets : Live(t) => Live(t)'
    BY <2>1 DEF Live
  <2> QED BY <2>1, <2>2, <2>3, <2>4, HeldKept
<1>5. CASE Aside
  <2>1. \A t \in Sockets : Live(t) /\ ~m__terminated[t]
                             /\ m_loginRequest[t] # None
                             => Live(t)' /\ ~m__terminated'[t]
    BY <1>5 DEF Aside, Live
  <2> QED BY <1>1, <1>5, <2>1, HeldKept DEF Aside
<1> QED BY <1>2, <1>3, <1>4, <1>5, KindsOfStep

\* A card is sent whenever an account or a unit is added.
LEMMA CardStep ==
  ASSUME RoomsInv, InfoCardCovers, [Next]_vars
  PROVE  InfoCardCovers'
<1>1. ASSUME NEW s \in Sockets, NEW l \in Logins, Enters(s, l)
      PROVE  InfoCardCovers'
  BY <1>1 DEF Enters, UpdateAuthServer, InfoCardCovers
<1>2. ASSUME NEW s \in Sockets, Leaves(s)
      PROVE  InfoCardCovers'
  BY <1>2 DEF Leaves, CloseAndCleanUp, UpdateAuthServer, InfoCardCovers
<1>3. ASSUME NEW s \in Sockets, Logout(s)
      PROVE  InfoCardCovers'
  <2>1. UNCHANGED <<infoCard, c_accounts>>
    BY <1>3, LogoutFacts
  <2>2. \A b \in Accounts, g \in Groups, n \in UnitNames :
          m_units'[b][g][n] \in {m_units[b][g][n], None}
    BY <1>3, LogoutFacts
  <2>3. Details(m_units') \subseteq Details(m_units)
    BY <2>2, NoneAssumption DEF Details
  <2> QED BY <2>1, <2>3 DEF InfoCardCovers
<1>4. CASE Aside
  BY <1>4 DEF Aside, InfoCardCovers
<1> QED BY <1>1, <1>2, <1>3, <1>4, KindsOfStep

-----------------------------------------------------------------------------
(* The theorems. *)

\* At the start nothing is registered.
LEMMA SessionsInit ==
  Init => SessionsInv
<1> SUFFICES ASSUME Init PROVE SessionsInv
  OBVIOUS
<1>1. PartiesInv
  BY PartiesInit
<1>2. NamelessStay /\ KeysIssued /\ KeyUsedOnce /\ NoLeakedAccount
  BY DEF Init, NamelessStay, KeysIssued, KeyUsedOnce,
         NoLeakedAccount
<1>3. NoDanglingSender
  BY DEF Init, NoDanglingSender, UnitNames
<1>4. \A a \in Accounts, g \in Groups, n \in UnitNames : m_units[a][g][n] = None
  BY DEF Init
<1>5. MemberIsActive
  BY <1>4, NoneAssumption DEF MemberIsActive, UnitNames
<1>6. Details(m_units) = {}
  BY <1>4, NoneAssumption DEF Details
<1>7. InfoCardCovers
  BY <1>6 DEF Init, InfoCardCovers
<1> QED BY <1>1, <1>2, <1>3, <1>5, <1>7 DEF SessionsInv

\* Every step keeps it.
LEMMA SessionsStep ==
  SessionsInv /\ [Next]_vars => SessionsInv'
<1> SUFFICES ASSUME SessionsInv, [Next]_vars PROVE SessionsInv'
  OBVIOUS
<1>1. RoomsInv /\ PartiesInv'
  BY PartiesStep DEF SessionsInv, PartiesInv
<1>2. NamelessStay' /\ KeysIssued' /\ KeyUsedOnce'
  BY <1>1, NamelessStep, KeysStep DEF SessionsInv
<1>3. NoDanglingSender' /\ MemberIsActive' /\ NoLeakedAccount' /\ InfoCardCovers'
  BY <1>1, SenderStep, ActiveStep, AccountStep, CardStep DEF SessionsInv
<1> QED BY <1>1, <1>2, <1>3 DEF SessionsInv

\* The invariant of the sessions holds in every state.
LEMMA SessionsAlways ==
  Spec => []SessionsInv
BY SessionsInit, SessionsStep, PTL DEF Spec

\* A temporary key of the AUTH server admits one socket at most, whatever order
\* its 10 s timer, its use and a repeated use come in.
THEOREM KeysAreUsedOnce ==
  Spec => []KeyUsedOnce
<1>1. SessionsInv => KeyUsedOnce
  BY DEF SessionsInv
<1> QED BY <1>1, SessionsAlways, PTL

\* An entry of the active senders stands for a connection that logged in under
\* that sender id, was not evicted, and whose 'close' event is still to come:
\* closing and replacing leave none behind.
THEOREM SendersNeverDangle ==
  Spec => []NoDanglingSender
<1>1. SessionsInv => NoDanglingSender
  BY DEF SessionsInv
<1> QED BY <1>1, SessionsAlways, PTL

\* Every unit of a room is found by its sender id, if only one account uses it.
THEOREM MembersAreActive ==
  Spec => []MemberIsActive
<1>1. SessionsInv => MemberIsActive
  BY DEF SessionsInv
<1> QED BY <1>1, SessionsAlways, PTL

\* A registered account has a party whose 'close' event is still to come and to
\* clean up, or a unit without a sender id.
THEOREM AccountsDoNotLeak ==
  Spec => []NoLeakedAccount
<1>1. SessionsInv => NoLeakedAccount
  BY DEF SessionsInv
<1> QED BY <1>1, SessionsAlways, PTL

\* The AUTH server's last card names the accounts that are here and every unit.
THEOREM CardAlwaysCovers ==
  Spec => []InfoCardCovers
<1>1. SessionsInv => InfoCardCovers
  BY DEF SessionsInv
<1> QED BY <1>1, SessionsAlways, PTL

\* A party that announced its sender id is in its group when it is accepted:
\* the kick-out of the name's last user has always made room for it.
THEOREM NamedPartiesJoin ==
  Spec => NamedPartyJoins
<1>1. RoomsInv /\ [Next]_vars =>
        [\A s \in Sockets : Joins(s) /\ m_loginRequest'[s].name \in Names =>
           m__group'[s] # None]_vars
  <2> SUFFICES ASSUME RoomsInv, [Next]_vars, NEW s \in Sockets, Joins(s),
                      m_loginRequest'[s].name \in Names
               PROVE  m__group'[s] # None
    OBVIOUS
  <2>0. TypeOK
    BY DEF RoomsInv
  <2>1. ASSUME NEW t \in Sockets, NEW l \in Logins, Enters(t, l)
        PROVE  m__group'[s] # None
    <3>1. EntersEffect(t, l) /\ AcceptConnection(t, l)
      BY <2>1, EntersFacts DEF Enters
    <3>2. m_loginRequest'[s] = IF s = t THEN l ELSE m_loginRequest[s]
      BY <3>1 DEF EntersEffect
    <3>3. s = t /\ l.name # None
      BY <3>2, NoneAssumption DEF Joins
    <3>4. l.acc \in Accounts /\ l.grp \in Groups /\ l.name \in UnitNames
      BY <3>1 DEF EntersEffect
    <3>5. UnitsWithout(l.acc, l.name)[l.acc][l.grp][l.name] = None
      BY <3>3, <3>4, RemovalUnits
    <3>6. m__group' = [GroupAfter(Victims(l.acc, l.name))
                         EXCEPT ![t] = [acc |-> l.acc, grp |-> l.grp]]
      BY <3>1, <3>5 DEF AcceptConnection
    <3>7. m__group'[s] = [acc |-> l.acc, grp |-> l.grp]
      BY <3>3, <3>6 DEF GroupAfter
    <3> QED BY <3>4, <3>7, NoneAssumption DEF GroupRefs
  <2>2. ASSUME NEW t \in Sockets, Leaves(t) \/ Logout(t) PROVE FALSE
    BY <2>2, LogoutFacts DEF Leaves, Joins
  <2>3. CASE Aside
    BY <2>3 DEF Aside, Joins
  <2> QED BY <2>1, <2>2, <2>3, KindsOfStep
<1>2. Spec => []RoomsInv
  BY SessionsAlways, PTL DEF SessionsInv, PartiesInv
<1> QED BY <1>1, <1>2, PTL DEF Spec, NamedPartyJoins
=============================================================================
