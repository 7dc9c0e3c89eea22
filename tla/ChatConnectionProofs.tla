------------------------ MODULE ChatConnectionProofs ------------------------
(* Theorems about ChatConnection, for every set of sockets, accounts, groups, *)
(* sender ids and keys and every configuration of the server.                 *)
EXTENDS ChatConnection, TLAPS

-----------------------------------------------------------------------------
(* Type correctness. *)

\* What the by-name removal computes has the type of what it replaces.
LEMMA RemovalType ==
  ASSUME TypeOK, NEW a \in Accounts, NEW n \in UnitNames
  PROVE  /\ UnitsWithout(a, n) \in
              [Accounts -> [Groups -> [UnitNames -> SocketOrNone]]]
         /\ GroupsWithout(a, n) \in [Accounts -> SUBSET Groups]
         /\ AccountsWithout(a, n) \in SUBSET Accounts
         /\ Victims(a, n) \in SUBSET Sockets
<1>1. UnitsWithout(a, n) \in
        [Accounts -> [Groups -> [UnitNames -> SocketOrNone]]]
  BY DEF TypeOK, UnitsWithout, SocketOrNone
<1>2. GroupsWithout(a, n) \in [Accounts -> SUBSET Groups]
  BY DEF TypeOK, GroupsWithout
<1>3. AccountsWithout(a, n) \in SUBSET Accounts
  BY DEF TypeOK, AccountsWithout
<1>4. Victims(a, n) \in SUBSET Sockets
  BY DEF Victims
<1> QED BY <1>1, <1>2, <1>3, <1>4

\* So has what the mark of an eviction computes.
LEMMA EvictionType ==
  ASSUME TypeOK, NEW V \in SUBSET Sockets
  PROVE  /\ TerminatedAfter(V) \in [Sockets -> BOOLEAN]
         /\ ReadyAfter(V) \in
              [Sockets -> {"none", "open", "closing", "closed"}]
         /\ GroupAfter(V) \in [Sockets -> GroupRefs \cup {None}]
BY DEF TypeOK, TerminatedAfter, ReadyAfter, GroupAfter

\* The sockets of a card are sockets.
LEMMA DetailsType ==
  ASSUME NEW u
  PROVE  Details(u) \in SUBSET Sockets
BY DEF Details

\* _acceptConnection keeps the types.
LEMMA AcceptConnectionType ==
  ASSUME TypeOK, NEW s \in Sockets, NEW l \in Logins, AcceptConnection(s, l)
  PROVE  /\ readyState' \in [Sockets -> {"none", "open", "closing", "closed"}]
         /\ m_loginRequest' \in [Sockets -> Logins \cup {None}]
         /\ name' \in [Sockets -> UnitNames]
         /\ m__group' \in [Sockets -> GroupRefs \cup {None}]
         /\ m__terminated' \in [Sockets -> BOOLEAN]
         /\ m_units' \in [Accounts -> [Groups -> [UnitNames -> SocketOrNone]]]
         /\ m_groups' \in [Accounts -> SUBSET Groups]
         /\ c_accounts' \in SUBSET Accounts
         /\ activeSenders' \in [UnitNames -> SocketOrNone]
<1>1. l.acc \in Accounts /\ l.grp \in Groups /\ l.name \in UnitNames
  BY DEF Logins
<1>2. /\ UnitsWithout(l.acc, l.name) \in
           [Accounts -> [Groups -> [UnitNames -> SocketOrNone]]]
      /\ GroupsWithout(l.acc, l.name) \in [Accounts -> SUBSET Groups]
      /\ AccountsWithout(l.acc, l.name) \in SUBSET Accounts
      /\ Victims(l.acc, l.name) \in SUBSET Sockets
  BY <1>1, RemovalType
<1>3. /\ TerminatedAfter(Victims(l.acc, l.name)) \in [Sockets -> BOOLEAN]
      /\ ReadyAfter(Victims(l.acc, l.name)) \in
           [Sockets -> {"none", "open", "closing", "closed"}]
      /\ GroupAfter(Victims(l.acc, l.name)) \in
           [Sockets -> GroupRefs \cup {None}]
  BY <1>2, EvictionType
<1>4. s \in SocketOrNone
  BY DEF SocketOrNone
<1>5. m_units' \in [Accounts -> [Groups -> [UnitNames -> SocketOrNone]]]
  BY <1>1, <1>2, <1>4 DEF AcceptConnection
<1>6. m_groups' \in [Accounts -> SUBSET Groups]
  BY <1>1, <1>2 DEF AcceptConnection
<1>7. [acc |-> l.acc, grp |-> l.grp] \in GroupRefs
  BY <1>1 DEF GroupRefs
<1>8. m__group' \in [Sockets -> GroupRefs \cup {None}]
  BY <1>3, <1>7 DEF AcceptConnection
<1>9. /\ readyState' \in [Sockets -> {"none", "open", "closing", "closed"}]
      /\ m__terminated' \in [Sockets -> BOOLEAN]
      /\ c_accounts' \in SUBSET Accounts
  BY <1>1, <1>2, <1>3 DEF AcceptConnection
<1>10. /\ m_loginRequest' \in [Sockets -> Logins \cup {None}]
       /\ name' \in [Sockets -> UnitNames]
       /\ activeSenders' \in [UnitNames -> SocketOrNone]
  BY <1>1, <1>4 DEF AcceptConnection, TypeOK, AddActiveSender
<1> QED BY <1>5, <1>6, <1>8, <1>9, <1>10

\* Accepting a party keeps the types.
LEMMA AcceptType ==
  ASSUME TypeOK, NEW s \in Sockets, Accept(s),
         UNCHANGED <<issued, udpProxies, loggedOut>>,
         m_authPending' \in [Sockets -> BOOLEAN]
  PROVE  TypeOK'
<1>1. CASE ~LocalServer
  <2>1. PICK k \in Keys, n \in UnitNames : AcceptWithKey(s, k, n)
    BY <1>1 DEF Accept
  <2>2. waiting[k] \in LoginRequests
    BY <2>1 DEF AcceptWithKey, TypeOK
  <2> DEFINE l == [acc |-> waiting[k].acc, grp |-> waiting[k].grp,
                   name |-> n, at |-> waiting[k].at, req |-> k]
  <2>3. l \in Logins
    BY <2>2 DEF LoginRequests, Logins
  <2>4. AcceptConnection(s, l)
    BY <2>1 DEF AcceptWithKey
  <2>5. waiting' \in [Keys -> LoginRequests \cup {None}]
    BY <2>1 DEF AcceptWithKey, DeleteLogin, TypeOK
  <2> HIDE DEF l
  <2>6. /\ readyState' \in [Sockets -> {"none", "open", "closing", "closed"}]
        /\ m_loginRequest' \in [Sockets -> Logins \cup {None}]
        /\ name' \in [Sockets -> UnitNames]
        /\ m__group' \in [Sockets -> GroupRefs \cup {None}]
        /\ m__terminated' \in [Sockets -> BOOLEAN]
        /\ m_units' \in [Accounts -> [Groups -> [UnitNames -> SocketOrNone]]]
        /\ m_groups' \in [Accounts -> SUBSET Groups]
        /\ c_accounts' \in SUBSET Accounts
        /\ activeSenders' \in [UnitNames -> SocketOrNone]
    BY <2>3, <2>4, AcceptConnectionType
  <2>7. infoCard' \in [accounts : SUBSET Accounts, units : SUBSET Sockets]
    BY <2>1, <2>6, DetailsType DEF AcceptWithKey, UpdateAuthServer
  <2> QED BY <2>5, <2>6, <2>7 DEF TypeOK
<1>2. CASE LocalServer
  <2>1. PICK n \in UnitNames, at \in ActorTypes : AcceptLocal(s, n, at)
    BY <1>2 DEF Accept
  <2> DEFINE l == [acc |-> LocalAccount, grp |-> LocalGroup,
                   name |-> n, at |-> at, req |-> None]
  <2>3. l \in Logins
    BY ConfigAssumption DEF Logins
  <2>4. AcceptConnection(s, l)
    BY <2>1 DEF AcceptLocal
  <2> HIDE DEF l
  <2>6. /\ readyState' \in [Sockets -> {"none", "open", "closing", "closed"}]
        /\ m_loginRequest' \in [Sockets -> Logins \cup {None}]
        /\ name' \in [Sockets -> UnitNames]
        /\ m__group' \in [Sockets -> GroupRefs \cup {None}]
        /\ m__terminated' \in [Sockets -> BOOLEAN]
        /\ m_units' \in [Accounts -> [Groups -> [UnitNames -> SocketOrNone]]]
        /\ m_groups' \in [Accounts -> SUBSET Groups]
        /\ c_accounts' \in SUBSET Accounts
        /\ activeSenders' \in [UnitNames -> SocketOrNone]
    BY <2>3, <2>4, AcceptConnectionType
  <2>7. UNCHANGED <<waiting, infoCard>>
    BY <2>1 DEF AcceptLocal
  <2> QED BY <2>6, <2>7 DEF TypeOK
<1> QED BY <1>1, <1>2, ConfigAssumption

\* Every step keeps the types.
LEMMA TypeStep ==
  TypeOK /\ [Next]_vars => TypeOK'
<1> SUFFICES ASSUME TypeOK, [Next]_vars PROVE TypeOK'
  OBVIOUS
<1> USE DEF keyVars, socketVars, roomVars
<1>1. ASSUME NEW k \in Keys, NEW r \in LoginRequests, LoginRequest(k, r)
      PROVE  TypeOK'
  BY <1>1 DEF LoginRequest, TypeOK
<1>2. ASSUME NEW k \in Keys, LoginTimeout(k)
      PROVE  TypeOK'
  BY <1>2 DEF LoginTimeout, DeleteLogin, TypeOK
<1>3. ASSUME NEW s \in Sockets, ConnectForFrame(s)
      PROVE  TypeOK'
  BY <1>3 DEF ConnectForFrame, TypeOK
<1>4. ASSUME NEW s \in Sockets, ConnectWithQuery(s)
      PROVE  TypeOK'
  <2>1. CASE Accept(s)
    BY <1>4, <2>1, AcceptType DEF ConnectWithQuery, TypeOK
  <2>2. CASE Refuse(s)
    BY <1>4, <2>2 DEF ConnectWithQuery, Refuse, TypeOK
  <2> QED BY <1>4, <2>1, <2>2 DEF ConnectWithQuery
<1>5. ASSUME NEW s \in Sockets, RejectQuery(s)
      PROVE  TypeOK'
  BY <1>5 DEF RejectQuery, TypeOK
<1>6. ASSUME NEW s \in Sockets, AuthFrame(s)
      PROVE  TypeOK'
  <2>0. m_authPending' \in [Sockets -> BOOLEAN]
    BY <1>6 DEF AuthFrame, TypeOK
  <2>1. CASE Accept(s)
    BY <1>6, <2>0, <2>1, AcceptType DEF AuthFrame
  <2>2. CASE Refuse(s)
    BY <1>6, <2>0, <2>2 DEF AuthFrame, Refuse, TypeOK
  <2> QED BY <1>6, <2>1, <2>2 DEF AuthFrame
<1>7. ASSUME NEW s \in Sockets, AuthTimeout(s)
      PROVE  TypeOK'
  BY <1>7 DEF AuthTimeout, TypeOK
<1>8. ASSUME NEW s \in Sockets, Logout(s)
      PROVE  TypeOK'
  <2>1. CASE m__group[s] = None \/ name[s] = None
    BY <1>8, <2>1 DEF Logout, TypeOK
  <2>2. CASE ~(m__group[s] = None \/ name[s] = None)
    <3>1. m__group[s].acc \in Accounts /\ m__group[s].grp \in Groups
      BY <2>2 DEF TypeOK, GroupRefs
    <3>2. name[s] \in UnitNames
      BY DEF TypeOK
    <3>3. m_units' \in [Accounts -> [Groups -> [UnitNames -> SocketOrNone]]]
      <4>1. m_units' = LogoutUnits(s)
        BY <1>8, <2>2 DEF Logout
      <4>2. None \in SocketOrNone
        BY DEF SocketOrNone
      <4> QED BY <3>1, <3>2, <4>1, <4>2 DEF LogoutUnits, TypeOK
    <3>4. /\ m__group' \in [Sockets -> GroupRefs \cup {None}]
          /\ m_groups' \in [Accounts -> SUBSET Groups]
      <4> DEFINE old == m_units[m__group[s].acc][m__group[s].grp][name[s]]
      <4>1. m__group' = [t \in Sockets |-> IF t = old THEN None
                                                     ELSE m__group[t]]
        BY <1>8, <2>2 DEF Logout
      <4>2. \/ m_groups' = [m_groups EXCEPT ![m__group[s].acc] = @]
            \/ m_groups' = [m_groups EXCEPT ![m__group[s].acc] =
                                             @ \ {m__group[s].grp}]
        BY <1>8, <2>2 DEF Logout
      <4>3. m__group' \in [Sockets -> GroupRefs \cup {None}]
        BY <4>1 DEF TypeOK
      <4>4. m_groups' \in [Accounts -> SUBSET Groups]
        <5>1. m_groups[m__group[s].acc] \in SUBSET Groups
          BY <3>1 DEF TypeOK
        <5>2. m_groups[m__group[s].acc] \ {m__group[s].grp} \in SUBSET Groups
          BY <5>1
        <5> QED BY <3>1, <4>2, <5>1, <5>2 DEF TypeOK
      <4> QED BY <4>3, <4>4
    <3> QED BY <1>8, <2>2, <3>3, <3>4 DEF Logout, TypeOK
  <2> QED BY <2>1, <2>2
<1>9. ASSUME NEW s \in Sockets, UdpOpen(s) \/ UdpClose(s)
      PROVE  TypeOK'
  BY <1>9 DEF UdpOpen, UdpClose, WithoutProxy, TypeOK
<1>10. ASSUME NEW s \in Sockets, Close(s)
       PROVE  TypeOK'
  <2>1. CASE CloseQuietly(s)
    BY <1>10, <2>1 DEF Close, CloseQuietly, TypeOK
  <2>2. CASE CloseAndCleanUp(s)
    <3> DEFINE l == m_loginRequest[s]
    <3>1. l \in Logins
      BY <2>2 DEF CloseAndCleanUp, TypeOK
    <3>2. l.acc \in Accounts /\ l.name \in UnitNames
      BY <3>1 DEF Logins
    <3>3. /\ UnitsWithout(l.acc, l.name) \in
               [Accounts -> [Groups -> [UnitNames -> SocketOrNone]]]
          /\ GroupsWithout(l.acc, l.name) \in [Accounts -> SUBSET Groups]
          /\ AccountsWithout(l.acc, l.name) \in SUBSET Accounts
          /\ Victims(l.acc, l.name) \in SUBSET Sockets
      BY <3>2, RemovalType
    <3>4. /\ TerminatedAfter(Victims(l.acc, l.name)) \in [Sockets -> BOOLEAN]
          /\ ReadyAfter(Victims(l.acc, l.name)) \in
               [Sockets -> {"none", "open", "closing", "closed"}]
          /\ GroupAfter(Victims(l.acc, l.name)) \in
               [Sockets -> GroupRefs \cup {None}]
      BY <3>3, EvictionType
    <3>5. /\ m_units' \in [Accounts -> [Groups -> [UnitNames -> SocketOrNone]]]
          /\ m_groups' \in [Accounts -> SUBSET Groups]
          /\ c_accounts' \in SUBSET Accounts
          /\ m__terminated' \in [Sockets -> BOOLEAN]
          /\ m__group' \in [Sockets -> GroupRefs \cup {None}]
          /\ readyState' \in
               [Sockets -> {"none", "open", "closing", "closed"}]
      BY <2>2, <3>3, <3>4 DEF CloseAndCleanUp
    <3>6. activeSenders' \in [UnitNames -> SocketOrNone]
      BY <2>2 DEF CloseAndCleanUp, DeleteActiveSender, TypeOK, SocketOrNone
    <3>7. infoCard' \in [accounts : SUBSET Accounts, units : SUBSET Sockets]
      BY <2>2, <3>5, DetailsType DEF CloseAndCleanUp, UpdateAuthServer
    <3>8. udpProxies' \in [UnitNames -> {"none", "binding", "ready"}]
      BY <2>2 DEF CloseAndCleanUp, WithoutProxy, TypeOK
    <3> QED BY <1>10, <3>5, <3>6, <3>7, <3>8 DEF Close, TypeOK
  <2> QED BY <1>10, <2>1, <2>2 DEF Close
<1>11. ASSUME NEW n \in UnitNames, UdpBound(n) \/ Reap(n)
       PROVE  TypeOK'
  BY <1>11 DEF UdpBound, Reap, WithoutProxy, TypeOK
<1>12. ASSUME NEW s \in Sockets, PeerLeaves(s)
       PROVE  TypeOK'
  BY <1>12 DEF PeerLeaves, TypeOK
<1>13. CASE UNCHANGED vars
  BY <1>13 DEF vars, TypeOK
<1> QED
  BY <1>1, <1>2, <1>3, <1>4, <1>5, <1>6, <1>7, <1>8, <1>9, <1>10, <1>11,
     <1>12, <1>13 DEF Next, SocketStep

\* The types hold at the start.
LEMMA TypeInit ==
  Init => TypeOK
BY DEF Init, TypeOK, UnitNames, SocketOrNone

\* Every variable of the connection handling keeps its type.
THEOREM TypeCorrect ==
  Spec => []TypeOK
BY TypeInit, TypeStep, PTL DEF Spec

-----------------------------------------------------------------------------
(* The rooms.  RoomsAgree is inductive together with the types and with the   *)
(* fact that a socket on its way in is in no room yet.                        *)

RoomsInv == TypeOK /\ RoomsAgree /\ OutsidersApart

\* What a by-name removal leaves of the rooms, entry by entry.
LEMMA RemovalUnits ==
  ASSUME NEW a, NEW n, NEW b \in Accounts, NEW g \in Groups, NEW m \in UnitNames
  PROVE  UnitsWithout(a, n)[b][g][m] =
           IF n # None /\ b = a /\ m = n THEN None ELSE m_units[b][g][m]
BY DEF UnitsWithout

\* Whom it removes.
LEMMA RemovalVictims ==
  ASSUME NEW a, NEW n, NEW t \in Sockets
  PROVE  t \in Victims(a, n) <=>
           n # None /\ \E g \in Groups : m_units[a][g][n] = t
BY DEF Victims

\* What becomes of each socket.
LEMMA Eviction ==
  ASSUME NEW V, NEW t \in Sockets
  PROVE  /\ TerminatedAfter(V)[t] = IF t \in V THEN TRUE ELSE m__terminated[t]
         /\ ReadyAfter(V)[t] = IF t \in V THEN "closing" ELSE readyState[t]
         /\ GroupAfter(V)[t] = IF t \in V THEN None ELSE m__group[t]
BY DEF TerminatedAfter, ReadyAfter, GroupAfter

\* A victim is the unit of that name in the account, and so not a stranger.
LEMMA VictimIsUnit ==
  ASSUME UnitsAreLiveSockets, NEW a \in Accounts, NEW n \in UnitNames,
         NEW t \in Victims(a, n)
  PROVE  /\ n \in Names
         /\ Live(t)
         /\ m_loginRequest[t] # None
         /\ m_loginRequest[t].acc = a
         /\ m_loginRequest[t].name = n
<1>1. t \in Sockets /\ n # None
  BY DEF Victims
<1>2. PICK g \in Groups : m_units[a][g][n] = t
  BY DEF Victims
<1>3. n \in Names
  BY <1>1 DEF UnitNames
<1> QED BY <1>1, <1>2, <1>3 DEF UnitsAreLiveSockets

\* The groups it leaves are the ones that still hold a unit.
LEMMA RemovalGroups ==
  ASSUME TypeOK, NoEmptyGroup, NEW a \in Accounts, NEW n \in UnitNames
  PROVE  /\ \A b \in Accounts :
              GroupsWithout(a, n)[b] =
                {g \in Groups : \E m \in UnitNames :
                                  UnitsWithout(a, n)[b][g][m] # None}
         /\ \A b \in Accounts :
              GroupsWithout(a, n)[b] # {} => b \in AccountsWithout(a, n)
<1>1. ASSUME NEW b \in Accounts
      PROVE  GroupsWithout(a, n)[b] =
               {g \in Groups : \E m \in UnitNames :
                                 UnitsWithout(a, n)[b][g][m] # None}
  <2>1. ASSUME NEW g \in Groups
        PROVE  g \in GroupsWithout(a, n)[b] <=>
                 \E m \in UnitNames : UnitsWithout(a, n)[b][g][m] # None
    <3>1. g \in m_groups[b] <=> \E m \in UnitNames : m_units[b][g][m] # None
      BY DEF NoEmptyGroup
    <3>2. g \in GroupsWithout(a, n)[b] <=>
            /\ g \in m_groups[b]
            /\ \/ n = None \/ b # a \/ m_units[a][g][n] = None
               \/ \E m \in UnitNames \ {n} : m_units[a][g][m] # None
      BY DEF GroupsWithout
    <3>3. \A m \in UnitNames : UnitsWithout(a, n)[b][g][m] =
            IF n # None /\ b = a /\ m = n THEN None ELSE m_units[b][g][m]
      BY RemovalUnits
    <3> QED BY <3>1, <3>2, <3>3
  <2>2. GroupsWithout(a, n)[b] \subseteq Groups
    BY DEF GroupsWithout, TypeOK
  <2> QED BY <2>1, <2>2
<1>2. ASSUME NEW b \in Accounts, GroupsWithout(a, n)[b] # {}
      PROVE  b \in AccountsWithout(a, n)
  <2>1. m_groups[b] # {}
    BY <1>2 DEF GroupsWithout
  <2>2. b \in c_accounts
    BY <2>1 DEF NoEmptyGroup
  <2> QED BY <1>2, <2>2 DEF AccountsWithout
<1> QED BY <1>1, <1>2

\* _acceptConnection keeps the rooms in step when the socket is new to them.
LEMMA AcceptConnectionRooms ==
  ASSUME TypeOK, RoomsAgree, NEW s \in Sockets, NEW l \in Logins,
         m_loginRequest[s] = None, name[s] = None, m__group[s] = None,
         ~m__terminated[s],
         AcceptConnection(s, l)
  PROVE  RoomsAgree'
<1> DEFINE a == l.acc
           n == l.name
           V == Victims(a, n)
           U == UnitsWithout(a, n)
           joins == U[a][l.grp][n] = None
<1>1. a \in Accounts /\ l.grp \in Groups /\ n \in UnitNames
  BY DEF Logins
<1>2. /\ U \in [Accounts -> [Groups -> [UnitNames -> SocketOrNone]]]
      /\ V \in SUBSET Sockets
  BY <1>1, RemovalType
<1>3. \A b \in Accounts, g \in Groups, m \in UnitNames :
        U[b][g][m] =
          IF n # None /\ b = a /\ m = n THEN None ELSE m_units[b][g][m]
  BY RemovalUnits
<1>4. \A t \in Sockets :
        t \in V <=> n # None /\ \E g \in Groups : m_units[a][g][n] = t
  BY RemovalVictims
<1>5. \A b \in Accounts, g \in Groups, m \in UnitNames :
        m_units'[b][g][m] =
          IF joins /\ b = a /\ g = l.grp /\ m = n THEN s ELSE U[b][g][m]
  <2>1. m_units' = IF joins THEN [U EXCEPT ![a][l.grp][n] = s] ELSE U
    BY DEF AcceptConnection
  <2> HIDE DEF U, joins, a, n
  <2> QED BY <1>1, <1>2, <2>1
<1>6. \A t \in Sockets :
        /\ m__terminated'[t] = IF t \in V THEN TRUE ELSE m__terminated[t]
        /\ t = s => Live(t)'
        /\ t # s => readyState'[t] = IF t \in V THEN "closing"
                                                ELSE readyState[t]
        /\ m__group'[t] = IF t = s /\ joins
                          THEN [acc |-> a, grp |-> l.grp]
                          ELSE IF t \in V THEN None ELSE m__group[t]
        /\ name'[t] = IF t = s /\ joins THEN n ELSE name[t]
        /\ m_loginRequest'[t] = IF t = s THEN l ELSE m_loginRequest[t]
  <2> TAKE t \in Sockets
  <2>1. m__terminated'[t] = IF t \in V THEN TRUE ELSE m__terminated[t]
    BY Eviction DEF AcceptConnection
  <2>2. /\ t = s => Live(t)'
        /\ t # s => readyState'[t] = IF t \in V THEN "closing"
                                                ELSE readyState[t]
    <3>1. readyState' = [ReadyAfter(V) EXCEPT
                           ![s] = IF @ = "closing" THEN @ ELSE "open"]
      BY DEF AcceptConnection
    <3> HIDE DEF V
    <3> QED BY <3>1 DEF ReadyAfter, Live
  <2>3. m__group'[t] = IF t = s /\ joins
                       THEN [acc |-> a, grp |-> l.grp]
                       ELSE IF t \in V THEN None ELSE m__group[t]
    <3>1. m__group' = IF joins
                      THEN [GroupAfter(V)
                              EXCEPT ![s] = [acc |-> a, grp |-> l.grp]]
                      ELSE GroupAfter(V)
      BY DEF AcceptConnection
    <3> HIDE DEF V, joins
    <3> QED BY <3>1 DEF GroupAfter
  <2>4. /\ name'[t] = IF t = s /\ joins THEN n ELSE name[t]
        /\ m_loginRequest'[t] = IF t = s THEN l ELSE m_loginRequest[t]
    BY DEF AcceptConnection, TypeOK
  <2> QED BY <2>1, <2>2, <2>3, <2>4
<1>7. n # None => joins
  BY <1>1, <1>3
<1>8. s \notin V
  BY <1>1, VictimIsUnit DEF RoomsAgree
<1>9. /\ None \notin Names
      /\ None \notin Sockets
      /\ l # None
      /\ [acc |-> a, grp |-> l.grp] # None
  BY <1>1, NoneAssumption DEF GroupRefs
<1> HIDE DEF a, n, V, U, joins
<1>10. UnitsAreLiveSockets'
  <2> SUFFICES ASSUME NEW b \in Accounts, NEW g \in Groups, NEW m \in Names,
                      NEW t \in Sockets, m_units'[b][g][m] = t
               PROVE  /\ Live(t)'
                      /\ ~m__terminated'[t]
                      /\ m_loginRequest'[t] # None
                      /\ m_loginRequest'[t].acc = b
                      /\ m_loginRequest'[t].grp = g
                      /\ m_loginRequest'[t].name = m
                      /\ name'[t] = m
                      /\ m__group'[t] # None
                      /\ m__group'[t].acc = b
                      /\ m__group'[t].grp = g
    BY DEF UnitsAreLiveSockets
  <2>0. m \in UnitNames
    BY DEF UnitNames
  <2>1. CASE joins /\ b = a /\ g = l.grp /\ m = n
    <3>1. t = s
      BY <1>5, <2>0, <2>1
    <3>2. /\ Live(t)'
          /\ m__terminated'[t] = m__terminated[s]
          /\ m_loginRequest'[t] = l
          /\ name'[t] = n
          /\ m__group'[t] = [acc |-> a, grp |-> l.grp]
      BY <1>6, <1>8, <2>1, <3>1
    <3> QED BY <1>9, <2>1, <3>2 DEF a, n
  <2>2. CASE ~(joins /\ b = a /\ g = l.grp /\ m = n)
    <3>1. m_units[b][g][m] = t /\ ~(n # None /\ b = a /\ m = n)
      BY <1>3, <1>5, <1>9, <2>0, <2>2
    <3>2. /\ Live(t)
          /\ ~m__terminated[t]
          /\ m_loginRequest[t] # None
          /\ m_loginRequest[t].acc = b
          /\ m_loginRequest[t].grp = g
          /\ m_loginRequest[t].name = m
          /\ name[t] = m
          /\ m__group[t] # None
          /\ m__group[t].acc = b
          /\ m__group[t].grp = g
      BY <3>1 DEF RoomsAgree, UnitsAreLiveSockets
    <3>3. t # s
      BY <3>2
    <3>4. t \notin V
      <4> SUFFICES ASSUME t \in V PROVE FALSE
        OBVIOUS
      <4>1. n \in Names /\ m_loginRequest[t].acc = a
              /\ m_loginRequest[t].name = n
        BY <1>1, VictimIsUnit DEF RoomsAgree, V
      <4> QED BY <1>9, <3>1, <3>2, <4>1
    <3> QED BY <1>6, <3>2, <3>3, <3>4 DEF Live
  <2> QED BY <2>1, <2>2
<1>11. GroupsHoldTheirSockets'
  <2> SUFFICES ASSUME NEW t \in Sockets, m__group'[t] # None
               PROVE  m_units'[m__group'[t].acc][m__group'[t].grp][name'[t]]
                        = t
    BY DEF GroupsHoldTheirSockets, IsMember
  <2>1. CASE t = s
    <3>1. joins
      BY <1>6, <1>8, <2>1
    <3>2. m__group'[t] = [acc |-> a, grp |-> l.grp] /\ name'[t] = n
      BY <1>6, <2>1, <3>1
    <3>3. m_units'[a][l.grp][n] = s
      BY <1>1, <1>5, <3>1
    <3> QED BY <2>1, <3>2, <3>3
  <2>2. CASE t # s
    <3>1. t \notin V /\ m__group'[t] = m__group[t] /\ name'[t] = name[t]
      BY <1>6, <2>2
    <3>2. m__group[t] \in GroupRefs /\ name[t] \in UnitNames
      BY <3>1 DEF TypeOK
    <3>3. m__group[t].acc \in Accounts /\ m__group[t].grp \in Groups
      BY <3>2 DEF GroupRefs
    <3>4. m_units[m__group[t].acc][m__group[t].grp][name[t]] = t
      BY <3>1 DEF RoomsAgree, GroupsHoldTheirSockets, IsMember
    <3>5. ~(n # None /\ m__group[t].acc = a /\ name[t] = n)
      BY <1>4, <3>1, <3>3, <3>4
    <3>6. U[m__group[t].acc][m__group[t].grp][name[t]] = t
      BY <1>3, <3>2, <3>3, <3>4, <3>5
    <3>7. ~(/\ joins
            /\ m__group[t].acc = a
            /\ m__group[t].grp = l.grp
            /\ name[t] = n)
      BY <1>9, <3>6 DEF joins
    <3> QED BY <1>5, <3>1, <3>2, <3>3, <3>6, <3>7
  <2> QED BY <2>1, <2>2
<1>12. NoEmptyGroup'
  <2>1. \A b \in Accounts :
          /\ GroupsWithout(a, n)[b] =
               {g \in Groups : \E m \in UnitNames : U[b][g][m] # None}
          /\ GroupsWithout(a, n)[b] # {} => b \in AccountsWithout(a, n)
    BY <1>1, RemovalGroups DEF RoomsAgree, U
  <2>2. \A b \in Accounts :
          m_groups'[b] = IF b = a THEN GroupsWithout(a, n)[b] \cup {l.grp}
                                  ELSE GroupsWithout(a, n)[b]
    BY <1>1, RemovalType DEF AcceptConnection, a, n
  <2>3. c_accounts' = AccountsWithout(a, n) \cup {a}
    BY DEF AcceptConnection, a, n
  <2>4. m_units'[a][l.grp][n] # None
    BY <1>1, <1>5, <1>9 DEF joins
  <2>5. ASSUME NEW b \in Accounts
        PROVE  m_groups'[b] = {g \in Groups : \E m \in UnitNames :
                                                m_units'[b][g][m] # None}
    <3>1. ASSUME NEW g \in Groups
          PROVE  g \in m_groups'[b] <=>
                   \E m \in UnitNames : m_units'[b][g][m] # None
      <4>1. CASE b = a /\ g = l.grp
        BY <1>1, <2>2, <2>4, <4>1
      <4>2. CASE ~(b = a /\ g = l.grp)
        <5>1. \A m \in UnitNames : m_units'[b][g][m] = U[b][g][m]
          BY <1>5, <4>2
        <5>2. g \in m_groups'[b] <=> g \in GroupsWithout(a, n)[b]
          BY <2>2, <4>2
        <5> QED BY <2>1, <5>1, <5>2
      <4> QED BY <4>1, <4>2
    <3>2. m_groups'[b] \subseteq Groups
      BY <1>1, <2>1, <2>2
    <3> QED BY <3>1, <3>2
  <2>6. ASSUME NEW b \in Accounts, m_groups'[b] # {}
        PROVE  b \in c_accounts'
    BY <2>1, <2>2, <2>3, <2>6
  <2> QED BY <2>5, <2>6 DEF NoEmptyGroup
<1>13. OneUnitPerAccount'
  <2> SUFFICES ASSUME NEW b \in Accounts, NEW m \in Names, NEW g \in Groups,
                      NEW h \in Groups, m_units'[b][g][m] # None,
                      m_units'[b][h][m] # None
               PROVE  g = h
    BY DEF OneUnitPerAccount
  <2>0. m \in UnitNames /\ m # None
    BY <1>9 DEF UnitNames
  <2>1. CASE b = a /\ m = n
    BY <1>3, <1>5, <2>0, <2>1
  <2>2. CASE ~(b = a /\ m = n)
    <3>1. m_units[b][g][m] # None /\ m_units[b][h][m] # None
      BY <1>3, <1>5, <2>0, <2>2
    <3> QED BY <3>1 DEF RoomsAgree, OneUnitPerAccount
  <2> QED BY <2>1, <2>2
<1> QED BY <1>10, <1>11, <1>12, <1>13 DEF RoomsAgree

\* Accepting a party keeps the rooms in step.
LEMMA AcceptRooms ==
  ASSUME TypeOK, RoomsAgree, OutsidersApart, NEW s \in Sockets,
         m_loginRequest[s] = None, Accept(s)
  PROVE  /\ RoomsAgree'
         /\ \E l \in Logins : AcceptConnection(s, l)
                               /\ <<l.acc, l.name>> \in Identities
<1>1. name[s] = None /\ m__group[s] = None /\ ~m__terminated[s]
  BY DEF OutsidersApart
<1>2. \E l \in Logins : AcceptConnection(s, l)
                        /\ <<l.acc, l.name>> \in Identities
  <2>1. CASE ~LocalServer
    <3>1. PICK k \in Keys, n \in UnitNames : AcceptWithKey(s, k, n)
      BY <2>1 DEF Accept
    <3>2. waiting[k] \in LoginRequests
      BY <3>1 DEF AcceptWithKey, TypeOK
    <3> DEFINE l == [acc |-> waiting[k].acc, grp |-> waiting[k].grp,
                     name |-> n, at |-> waiting[k].at, req |-> k]
    <3>3. l \in Logins
      BY <3>2 DEF LoginRequests, Logins
    <3>4. AcceptConnection(s, l) /\ <<l.acc, l.name>> \in Identities
      BY <3>1 DEF AcceptWithKey
    <3> HIDE DEF l
    <3> QED BY <3>3, <3>4
  <2>2. CASE LocalServer
    <3>1. PICK n \in UnitNames, at \in ActorTypes : AcceptLocal(s, n, at)
      BY <2>2 DEF Accept
    <3> DEFINE l == [acc |-> LocalAccount, grp |-> LocalGroup,
                     name |-> n, at |-> at, req |-> None]
    <3>3. l \in Logins
      BY ConfigAssumption DEF Logins
    <3>4. AcceptConnection(s, l) /\ <<l.acc, l.name>> \in Identities
      BY <3>1 DEF AcceptLocal
    <3> HIDE DEF l
    <3> QED BY <3>3, <3>4
  <2> QED BY <2>1, <2>2, ConfigAssumption
<1> QED BY <1>1, <1>2, AcceptConnectionRooms

\* Nothing changes but the ready state of a socket that is in no room or that
\* is still to have its 'close' event.
LEMMA ReadyOnlyRooms ==
  ASSUME TypeOK, RoomsAgree, NEW s \in Sockets,
         \/ m_loginRequest[s] = None \/ m__terminated[s]
         \/ readyState[s] = "none" \/ Live(s)',
         \A t \in Sockets \ {s} : readyState'[t] = readyState[t],
         UNCHANGED <<m_loginRequest, name, m__group, m__terminated, m_units,
                     m_groups, c_accounts>>
  PROVE  RoomsAgree'
<1>1. UnitsAreLiveSockets'
  <2> SUFFICES ASSUME NEW b \in Accounts, NEW g \in Groups, NEW m \in Names,
                      NEW t \in Sockets, m_units[b][g][m] = t
               PROVE  /\ Live(t)'
                      /\ ~m__terminated[t]
                      /\ m_loginRequest[t] # None
                      /\ m_loginRequest[t].acc = b
                      /\ m_loginRequest[t].grp = g
                      /\ m_loginRequest[t].name = m
                      /\ name[t] = m
                      /\ m__group[t] # None
                      /\ m__group[t].acc = b
                      /\ m__group[t].grp = g
    BY DEF UnitsAreLiveSockets
  <2>1. /\ Live(t)
        /\ ~m__terminated[t]
        /\ m_loginRequest[t] # None
        /\ m_loginRequest[t].acc = b
        /\ m_loginRequest[t].grp = g
        /\ m_loginRequest[t].name = m
        /\ name[t] = m
        /\ m__group[t] # None
        /\ m__group[t].acc = b
        /\ m__group[t].grp = g
    BY DEF RoomsAgree, UnitsAreLiveSockets
  <2>2. t = s => Live(t)'
    BY <2>1 DEF Live
  <2> QED BY <2>1, <2>2 DEF Live
<1>2. GroupsHoldTheirSockets'
  BY DEF RoomsAgree, GroupsHoldTheirSockets, IsMember
<1>3. NoEmptyGroup' /\ OneUnitPerAccount'
  BY DEF RoomsAgree, NoEmptyGroup, OneUnitPerAccount
<1> QED BY <1>1, <1>2, <1>3 DEF RoomsAgree

\* A step that touches none of it keeps the rooms in step.
LEMMA UnchangedRooms ==
  ASSUME RoomsAgree,
         UNCHANGED <<readyState, m_loginRequest, name, m__group,
                     m__terminated, m_units, m_groups, c_accounts>>
  PROVE  RoomsAgree'
BY DEF RoomsAgree, UnitsAreLiveSockets, GroupsHoldTheirSockets, NoEmptyGroup,
       OneUnitPerAccount, IsMember, Live

\* The cleanup of a 'close' event keeps the rooms in step.
LEMMA CleanUpRooms ==
  ASSUME TypeOK, RoomsAgree, NEW s \in Sockets, CloseAndCleanUp(s),
         UNCHANGED <<m_loginRequest, name>>
  PROVE  RoomsAgree'
<1> DEFINE l == m_loginRequest[s]
           a == l.acc
           n == l.name
           V == Victims(a, n)
           U == UnitsWithout(a, n)
<1>1. a \in Accounts /\ n \in UnitNames
  BY DEF CloseAndCleanUp, TypeOK, Logins
<1>2. m_units' = U
  BY DEF CloseAndCleanUp
<1>3. \A b \in Accounts, g \in Groups, m \in UnitNames :
        m_units'[b][g][m] =
          IF n # None /\ b = a /\ m = n THEN None ELSE m_units[b][g][m]
  BY <1>2, RemovalUnits
<1>4. \A t \in Sockets :
        t \in V <=> n # None /\ \E g \in Groups : m_units[a][g][n] = t
  BY RemovalVictims
<1>5. \A t \in Sockets :
        /\ m__terminated'[t] = IF t \in V THEN TRUE ELSE m__terminated[t]
        /\ readyState'[t] = IF t = s THEN "closed"
                            ELSE IF t \in V THEN "closing" ELSE readyState[t]
        /\ m__group'[t] = IF t \in V THEN None ELSE m__group[t]
  <2> TAKE t \in Sockets
  <2>1. /\ m__terminated' = TerminatedAfter(V)
        /\ m__group' = GroupAfter(V)
        /\ readyState' = [ReadyAfter(V) EXCEPT ![s] = "closed"]
    BY DEF CloseAndCleanUp
  <2> HIDE DEF V
  <2> QED BY <2>1 DEF TerminatedAfter, GroupAfter, ReadyAfter
<1>6. None \notin Names /\ None \notin Sockets
  BY NoneAssumption
<1>7. m_groups' = GroupsWithout(a, n) /\ c_accounts' = AccountsWithout(a, n)
  BY DEF CloseAndCleanUp
<1> HIDE DEF l, a, n, V, U
<1>8. UnitsAreLiveSockets'
  <2> SUFFICES ASSUME NEW b \in Accounts, NEW g \in Groups, NEW m \in Names,
                      NEW t \in Sockets, m_units'[b][g][m] = t
               PROVE  /\ Live(t)'
                      /\ ~m__terminated'[t]
                      /\ m_loginRequest[t] # None
                      /\ m_loginRequest[t].acc = b
                      /\ m_loginRequest[t].grp = g
                      /\ m_loginRequest[t].name = m
                      /\ name[t] = m
                      /\ m__group'[t] # None
                      /\ m__group'[t].acc = b
                      /\ m__group'[t].grp = g
    BY DEF UnitsAreLiveSockets
  <2>1. m \in UnitNames
    BY DEF UnitNames
  <2>2. m_units[b][g][m] = t /\ ~(n # None /\ b = a /\ m = n)
    BY <1>3, <1>6, <2>1
  <2>3. /\ Live(t)
        /\ ~m__terminated[t]
        /\ m_loginRequest[t] # None
        /\ m_loginRequest[t].acc = b
        /\ m_loginRequest[t].grp = g
        /\ m_loginRequest[t].name = m
        /\ name[t] = m
        /\ m__group[t] # None
        /\ m__group[t].acc = b
        /\ m__group[t].grp = g
    BY <2>2 DEF RoomsAgree, UnitsAreLiveSockets
  <2>4. t # s
    BY <1>6, <2>2, <2>3 DEF l, a, n
  <2>5. t \notin V
    <3> SUFFICES ASSUME t \in V PROVE FALSE
      OBVIOUS
    <3>1. n \in Names /\ m_loginRequest[t].acc = a
            /\ m_loginRequest[t].name = n
      BY <1>1, VictimIsUnit DEF RoomsAgree, V
    <3> QED BY <1>6, <2>2, <2>3, <3>1
  <2> QED BY <1>5, <2>3, <2>4, <2>5 DEF Live
<1>9. GroupsHoldTheirSockets'
  <2> SUFFICES ASSUME NEW t \in Sockets, m__group'[t] # None
               PROVE  m_units'[m__group'[t].acc][m__group'[t].grp][name[t]] = t
    BY DEF GroupsHoldTheirSockets, IsMember
  <2>1. t \notin V /\ m__group'[t] = m__group[t]
    BY <1>5
  <2>2. m__group[t] \in GroupRefs /\ name[t] \in UnitNames
    BY <2>1 DEF TypeOK
  <2>3. m__group[t].acc \in Accounts /\ m__group[t].grp \in Groups
    BY <2>2 DEF GroupRefs
  <2>4. m_units[m__group[t].acc][m__group[t].grp][name[t]] = t
    BY <2>1 DEF RoomsAgree, GroupsHoldTheirSockets, IsMember
  <2>5. ~(n # None /\ m__group[t].acc = a /\ name[t] = n)
    BY <1>4, <2>1, <2>3, <2>4
  <2> QED BY <1>3, <2>1, <2>2, <2>3, <2>4, <2>5
<1>10. NoEmptyGroup'
  <2>1. /\ \A b \in Accounts :
             GroupsWithout(a, n)[b] =
               {g \in Groups : \E m \in UnitNames :
                                 UnitsWithout(a, n)[b][g][m] # None}
        /\ \A b \in Accounts :
             GroupsWithout(a, n)[b] # {} => b \in AccountsWithout(a, n)
    BY <1>1, RemovalGroups DEF RoomsAgree
  <2> QED BY <1>2, <1>7, <2>1 DEF NoEmptyGroup, U
<1>11. OneUnitPerAccount'
  <2> SUFFICES ASSUME NEW b \in Accounts, NEW m \in Names, NEW g \in Groups,
                      NEW h \in Groups, m_units'[b][g][m] # None,
                      m_units'[b][h][m] # None
               PROVE  g = h
    BY DEF OneUnitPerAccount
  <2>1. m \in UnitNames
    BY DEF UnitNames
  <2>2. m_units[b][g][m] # None /\ m_units[b][h][m] # None
    BY <1>3, <2>1
  <2> QED BY <2>2 DEF RoomsAgree, OneUnitPerAccount
<1> QED BY <1>8, <1>9, <1>10, <1>11 DEF RoomsAgree

\* So does a logout: the unit that goes is the socket itself.
LEMMA LogoutRooms ==
  ASSUME TypeOK, RoomsAgree, NEW s \in Sockets, Logout(s)
  PROVE  RoomsAgree'
<1>0. /\ UNCHANGED <<readyState, m_loginRequest, name, m__terminated>>
      /\ None \notin Names
      /\ None \notin Sockets
  BY NoneAssumption DEF Logout
<1>1. CASE m__group[s] = None \/ name[s] = None
  <2>1. /\ m__group' = [m__group EXCEPT ![s] = None]
        /\ UNCHANGED <<m_units, m_groups, c_accounts>>
    BY <1>1 DEF Logout, roomVars
  <2>2. UnitsAreLiveSockets'
    <3> SUFFICES ASSUME NEW b \in Accounts, NEW g \in Groups, NEW m \in Names,
                        NEW t \in Sockets, m_units[b][g][m] = t
                 PROVE  /\ Live(t)
                        /\ ~m__terminated[t]
                        /\ m_loginRequest[t] # None
                        /\ m_loginRequest[t].acc = b
                        /\ m_loginRequest[t].grp = g
                        /\ m_loginRequest[t].name = m
                        /\ name[t] = m
                        /\ m__group'[t] # None
                        /\ m__group'[t].acc = b
                        /\ m__group'[t].grp = g
      BY <1>0, <2>1 DEF UnitsAreLiveSockets, Live
    <3>1. /\ Live(t)
          /\ ~m__terminated[t]
          /\ m_loginRequest[t] # None
          /\ m_loginRequest[t].acc = b
          /\ m_loginRequest[t].grp = g
          /\ m_loginRequest[t].name = m
          /\ name[t] = m
          /\ m__group[t] # None
          /\ m__group[t].acc = b
          /\ m__group[t].grp = g
      BY DEF RoomsAgree, UnitsAreLiveSockets
    <3>2. t # s
      BY <1>0, <1>1, <3>1
    <3>3. m__group'[t] = m__group[t]
      BY <2>1, <3>2 DEF TypeOK
    <3> QED BY <3>1, <3>3
  <2>3. GroupsHoldTheirSockets'
    <3> SUFFICES ASSUME NEW t \in Sockets, m__group'[t] # None
                 PROVE  m_units[m__group'[t].acc][m__group'[t].grp][name[t]] = t
      BY <1>0, <2>1 DEF GroupsHoldTheirSockets, IsMember
    <3>1. m__group'[t] = m__group[t]
      BY <2>1 DEF TypeOK
    <3> QED BY <3>1 DEF RoomsAgree, GroupsHoldTheirSockets, IsMember
  <2>4. NoEmptyGroup' /\ OneUnitPerAccount'
    BY <2>1 DEF RoomsAgree, NoEmptyGroup, OneUnitPerAccount
  <2> QED BY <2>2, <2>3, <2>4 DEF RoomsAgree
<1>2. CASE ~(m__group[s] = None \/ name[s] = None)
  <2> DEFINE a == m__group[s].acc
             g == m__group[s].grp
             n == name[s]
  <2>1. /\ a \in Accounts
        /\ g \in Groups
        /\ n \in UnitNames
        /\ n \in Names
    BY <1>2 DEF TypeOK, GroupRefs, UnitNames
  <2>2. m_units[a][g][n] = s
    BY <1>2 DEF RoomsAgree, GroupsHoldTheirSockets, IsMember
  <2>3. /\ m_units' = LogoutUnits(s)
        /\ m__group' = [t \in Sockets |->
                          IF t = s THEN None ELSE m__group[t]]
        /\ m_groups' = [m_groups EXCEPT ![a] =
             IF \A m \in UnitNames \ {n} : m_units[a][g][m] = None
             THEN @ \ {g} ELSE @]
        /\ c_accounts' = c_accounts
    BY <1>0, <1>2, <2>2 DEF Logout
  <2>4. \A b \in Accounts, h \in Groups, m \in UnitNames :
          m_units'[b][h][m] = IF b = a /\ h = g /\ m = n THEN None
                                                         ELSE m_units[b][h][m]
    BY <2>1, <2>3 DEF LogoutUnits, TypeOK
  <2>5. \A t \in Sockets : m__group'[t] = IF t = s THEN None ELSE m__group[t]
    BY <2>3
  <2> HIDE DEF a, g, n
  <2>6. UnitsAreLiveSockets'
    <3> SUFFICES ASSUME NEW b \in Accounts, NEW h \in Groups, NEW m \in Names,
                        NEW t \in Sockets, m_units'[b][h][m] = t
                 PROVE  /\ Live(t)
                        /\ ~m__terminated[t]
                        /\ m_loginRequest[t] # None
                        /\ m_loginRequest[t].acc = b
                        /\ m_loginRequest[t].grp = h
                        /\ m_loginRequest[t].name = m
                        /\ name[t] = m
                        /\ m__group'[t] # None
                        /\ m__group'[t].acc = b
                        /\ m__group'[t].grp = h
      BY <1>0 DEF UnitsAreLiveSockets, Live
    <3>1. m \in UnitNames
      BY DEF UnitNames
    <3>2. m_units[b][h][m] = t /\ ~(b = a /\ h = g /\ m = n)
      BY <1>0, <2>4, <3>1
    <3>3. /\ Live(t)
          /\ ~m__terminated[t]
          /\ m_loginRequest[t] # None
          /\ m_loginRequest[t].acc = b
          /\ m_loginRequest[t].grp = h
          /\ m_loginRequest[t].name = m
          /\ name[t] = m
          /\ m__group[t] # None
          /\ m__group[t].acc = b
          /\ m__group[t].grp = h
      BY <3>2 DEF RoomsAgree, UnitsAreLiveSockets
    <3>4. t # s
      BY <3>2, <3>3 DEF a, g, n
    <3> QED BY <2>5, <3>3, <3>4
  <2>7. GroupsHoldTheirSockets'
    <3> SUFFICES ASSUME NEW t \in Sockets, m__group'[t] # None
                 PROVE  m_units'[m__group'[t].acc][m__group'[t].grp][name[t]]
                          = t
      BY <1>0 DEF GroupsHoldTheirSockets, IsMember
    <3>1. t # s /\ m__group'[t] = m__group[t]
      BY <2>5
    <3>2. m__group[t] \in GroupRefs /\ name[t] \in UnitNames
      BY <3>1 DEF TypeOK
    <3>3. m__group[t].acc \in Accounts /\ m__group[t].grp \in Groups
      BY <3>2 DEF GroupRefs
    <3>4. m_units[m__group[t].acc][m__group[t].grp][name[t]] = t
      BY <3>1 DEF RoomsAgree, GroupsHoldTheirSockets, IsMember
    <3> QED BY <2>2, <2>4, <3>1, <3>2, <3>3, <3>4
  <2>8. NoEmptyGroup'
    <3>1. ASSUME NEW b \in Accounts
          PROVE  m_groups'[b] = {h \in Groups : \E m \in UnitNames :
                                                  m_units'[b][h][m] # None}
      <4>1. m_groups[b] = {h \in Groups : \E m \in UnitNames :
                                            m_units[b][h][m] # None}
        BY DEF RoomsAgree, NoEmptyGroup
      <4>2. m_groups'[b] \subseteq Groups
        BY <2>1, <2>3, <4>1 DEF TypeOK
      <4>3. ASSUME NEW h \in Groups
            PROVE  h \in m_groups'[b] <=>
                     \E m \in UnitNames : m_units'[b][h][m] # None
        <5>1. CASE b = a /\ h = g
          <6>1. g \in m_groups'[a] <=>
                  /\ g \in m_groups[a]
                  /\ ~ \A m \in UnitNames \ {n} : m_units[a][g][m] = None
            BY <2>1, <2>3 DEF TypeOK
          <6> QED BY <2>1, <2>4, <4>1, <5>1, <6>1
        <5>2. CASE ~(b = a /\ h = g)
          <6>1. h \in m_groups'[b] <=> h \in m_groups[b]
            BY <2>1, <2>3, <5>2 DEF TypeOK
          <6>2. \A m \in UnitNames : m_units'[b][h][m] = m_units[b][h][m]
            BY <2>4, <5>2
          <6> QED BY <4>1, <6>1, <6>2
        <5> QED BY <5>1, <5>2
      <4> QED BY <4>2, <4>3
    <3>2. ASSUME NEW b \in Accounts, m_groups'[b] # {}
          PROVE  b \in c_accounts'
      <4>1. m_groups'[b] \subseteq m_groups[b]
        BY <2>1, <2>3 DEF TypeOK
      <4> QED BY <2>3, <3>2, <4>1 DEF RoomsAgree, NoEmptyGroup
    <3> QED BY <3>1, <3>2 DEF NoEmptyGroup
  <2>9. OneUnitPerAccount'
    <3> SUFFICES ASSUME NEW b \in Accounts, NEW m \in Names, NEW h \in Groups,
                        NEW i \in Groups, m_units'[b][h][m] # None,
                        m_units'[b][i][m] # None
                 PROVE  h = i
      BY DEF OneUnitPerAccount
    <3>1. m \in UnitNames
      BY DEF UnitNames
    <3>2. m_units[b][h][m] # None /\ m_units[b][i][m] # None
      BY <2>4, <3>1
    <3> QED BY <3>2 DEF RoomsAgree, OneUnitPerAccount
  <2> QED BY <2>6, <2>7, <2>8, <2>9 DEF RoomsAgree
<1> QED BY <1>1, <1>2

\* An accepted socket is connected, has a login, and was not evicted; nobody else
\* becomes a stranger or ceases to be one.
LEMMA AcceptOutsiders ==
  ASSUME RoomsInv, NEW s \in Sockets, m_loginRequest[s] = None, Accept(s),
         \A t \in Sockets \ {s} : m_authPending'[t] = m_authPending[t],
         ~m_authPending'[s]
  PROVE  OutsidersApart'
<1>1. TypeOK /\ RoomsAgree /\ OutsidersApart
  BY DEF RoomsInv
<1>2. PICK l \in Logins : AcceptConnection(s, l)
  BY <1>1, AcceptRooms
<1> DEFINE V == Victims(l.acc, l.name)
<1>3. l.acc \in Accounts /\ l.name \in UnitNames
  BY DEF Logins
<1>4. \A t \in V : t \in Sockets /\ m_loginRequest[t] # None
  BY <1>1, <1>3, VictimIsUnit DEF RoomsAgree, Victims
<1>5. \A t \in Sockets \ {s} :
        /\ readyState'[t] = IF t \in V THEN "closing" ELSE readyState[t]
        /\ m__terminated'[t] = IF t \in V THEN TRUE ELSE m__terminated[t]
        /\ m__group'[t] = IF t \in V THEN None ELSE m__group[t]
        /\ name'[t] = name[t]
        /\ m_loginRequest'[t] = m_loginRequest[t]
  <2> TAKE t \in Sockets \ {s}
  <2>1. /\ readyState' = [ReadyAfter(V) EXCEPT
                             ![s] = IF @ = "closing" THEN @ ELSE "open"]
        /\ m__terminated' = TerminatedAfter(V)
        /\ m_loginRequest' = [m_loginRequest EXCEPT ![s] = l]
        /\ \/ m__group' = GroupAfter(V)
           \/ m__group' = [GroupAfter(V) EXCEPT
                             ![s] = [acc |-> l.acc, grp |-> l.grp]]
        /\ \/ name' = name
           \/ name' = [name EXCEPT ![s] = l.name]
    BY <1>2 DEF AcceptConnection
  <2> HIDE DEF V
  <2> QED BY <1>1, <2>1 DEF ReadyAfter, TerminatedAfter, GroupAfter, TypeOK
<1>6. readyState'[s] # "none" /\ m_loginRequest'[s] = l
  BY <1>1, <1>2 DEF AcceptConnection, ReadyAfter, TypeOK
<1>7. l # None
  BY NoneAssumption
<1> HIDE DEF V
<1> SUFFICES ASSUME NEW t \in Sockets
             PROVE  /\ readyState'[t] = "none" =>
                         ~m_authPending'[t] /\ m_loginRequest'[t] = None
                    /\ m_authPending'[t] => m_loginRequest'[t] = None
                    /\ m_loginRequest'[t] = None =>
                         /\ name'[t] = None
                         /\ m__group'[t] = None
                         /\ ~m__terminated'[t]
  BY DEF OutsidersApart
<1>8. CASE t = s
  BY <1>6, <1>7, <1>8
<1>9. CASE t # s
  <2>1. CASE t \in V
    BY <1>1, <1>4, <1>5, <1>9, <2>1 DEF OutsidersApart
  <2>2. CASE t \notin V
    BY <1>1, <1>5, <1>9, <2>2 DEF OutsidersApart
  <2> QED BY <2>1, <2>2
<1> QED BY <1>8, <1>9

\* Every step keeps the rooms in step.
LEMMA RoomsStep ==
  RoomsInv /\ [Next]_vars => RoomsInv'
<1> SUFFICES ASSUME RoomsInv, [Next]_vars
             PROVE  RoomsAgree' /\ OutsidersApart'
  BY TypeStep DEF RoomsInv
<1>0. TypeOK /\ RoomsAgree /\ OutsidersApart
  BY DEF RoomsInv
<1> USE DEF keyVars, socketVars, roomVars
<1>1. ASSUME NEW k \in Keys, NEW r \in LoginRequests, LoginRequest(k, r)
      PROVE  RoomsAgree' /\ OutsidersApart'
  BY <1>0, <1>1, UnchangedRooms DEF LoginRequest, OutsidersApart
<1>2. ASSUME NEW k \in Keys, LoginTimeout(k)
      PROVE  RoomsAgree' /\ OutsidersApart'
  BY <1>0, <1>2, UnchangedRooms DEF LoginTimeout, OutsidersApart
<1>3. ASSUME NEW s \in Sockets, ConnectForFrame(s)
      PROVE  RoomsAgree' /\ OutsidersApart'
  <2>1. /\ readyState[s] = "none"
        /\ \A t \in Sockets \ {s} : /\ readyState'[t] = readyState[t]
                                    /\ m_authPending'[t] = m_authPending[t]
        /\ readyState'[s] = "open"
        /\ UNCHANGED <<m_loginRequest, name, m__group, m__terminated, m_units,
                       m_groups, c_accounts>>
    BY <1>0, <1>3 DEF ConnectForFrame, TypeOK
  <2>2. RoomsAgree'
    BY <1>0, <2>1, ReadyOnlyRooms
  <2> QED BY <1>0, <2>1, <2>2 DEF OutsidersApart
<1>4. ASSUME NEW s \in Sockets, ConnectWithQuery(s)
      PROVE  RoomsAgree' /\ OutsidersApart'
  <2>1. /\ m_loginRequest[s] = None
        /\ ~m_authPending[s]
        /\ readyState[s] = "none"
        /\ m_authPending' = m_authPending
    BY <1>0, <1>4 DEF ConnectWithQuery, OutsidersApart
  <2>2. CASE Accept(s)
    BY <1>0, <2>1, <2>2, AcceptRooms, AcceptOutsiders
  <2>3. CASE Refuse(s)
    <3>1. /\ \A t \in Sockets \ {s} : readyState'[t] = readyState[t]
          /\ readyState'[s] = "closing"
          /\ UNCHANGED <<m_loginRequest, name, m__group, m__terminated,
                         m_units, m_groups, c_accounts>>
      BY <1>0, <2>3 DEF Refuse, TypeOK
    <3>2. RoomsAgree'
      BY <1>0, <2>1, <3>1, ReadyOnlyRooms
    <3> QED BY <1>0, <2>1, <3>1, <3>2 DEF OutsidersApart
  <2> QED BY <1>4, <2>2, <2>3 DEF ConnectWithQuery
<1>5. ASSUME NEW s \in Sockets, RejectQuery(s)
      PROVE  RoomsAgree' /\ OutsidersApart'
  <2>1. /\ readyState[s] = "none"
        /\ \A t \in Sockets \ {s} : readyState'[t] = readyState[t]
        /\ readyState'[s] = "closed"
        /\ UNCHANGED <<m_authPending, m_loginRequest, name, m__group,
                       m__terminated, m_units, m_groups, c_accounts>>
    BY <1>0, <1>5 DEF RejectQuery, TypeOK
  <2>2. RoomsAgree'
    BY <1>0, <2>1, ReadyOnlyRooms
  <2> QED BY <1>0, <2>1, <2>2 DEF OutsidersApart
<1>6. ASSUME NEW s \in Sockets, AuthFrame(s)
      PROVE  RoomsAgree' /\ OutsidersApart'
  <2>1. /\ m_loginRequest[s] = None
        /\ readyState[s] # "none"
        /\ ~m_authPending'[s]
        /\ \A t \in Sockets \ {s} : m_authPending'[t] = m_authPending[t]
    BY <1>0, <1>6 DEF AuthFrame, OutsidersApart, TypeOK, Live
  <2>2. CASE Accept(s)
    BY <1>0, <2>1, <2>2, AcceptRooms, AcceptOutsiders
  <2>3. CASE Refuse(s)
    <3>1. /\ \A t \in Sockets \ {s} : readyState'[t] = readyState[t]
          /\ readyState'[s] = "closing"
          /\ UNCHANGED <<m_loginRequest, name, m__group, m__terminated,
                         m_units, m_groups, c_accounts>>
      BY <1>0, <2>3 DEF Refuse, TypeOK
    <3>2. RoomsAgree'
      BY <1>0, <2>1, <3>1, ReadyOnlyRooms
    <3> QED BY <1>0, <2>1, <3>1, <3>2 DEF OutsidersApart
  <2> QED BY <1>6, <2>2, <2>3 DEF AuthFrame
<1>7. ASSUME NEW s \in Sockets, AuthTimeout(s)
      PROVE  RoomsAgree' /\ OutsidersApart'
  <2>1. /\ m_loginRequest[s] = None
        /\ readyState[s] # "none"
        /\ \A t \in Sockets \ {s} : /\ readyState'[t] = readyState[t]
                                    /\ m_authPending'[t] = m_authPending[t]
        /\ readyState'[s] # "none"
        /\ ~m_authPending'[s]
        /\ UNCHANGED <<m_loginRequest, name, m__group, m__terminated, m_units,
                       m_groups, c_accounts>>
    BY <1>0, <1>7 DEF AuthTimeout, OutsidersApart, TypeOK
  <2>2. RoomsAgree'
    BY <1>0, <2>1, ReadyOnlyRooms
  <2> QED BY <1>0, <2>1, <2>2 DEF OutsidersApart
<1>8. ASSUME NEW s \in Sockets, Logout(s)
      PROVE  RoomsAgree' /\ OutsidersApart'
  <2>1. RoomsAgree'
    BY <1>0, <1>8, LogoutRooms
  <2>2. /\ UNCHANGED <<readyState, m_authPending, m_loginRequest, name,
                       m__terminated>>
        /\ \A t \in Sockets : m__group'[t] \in {None, m__group[t]}
    BY <1>0, <1>8 DEF Logout, TypeOK
  <2> QED BY <1>0, <2>1, <2>2 DEF OutsidersApart
<1>9. ASSUME NEW s \in Sockets, UdpOpen(s) \/ UdpClose(s)
      PROVE  RoomsAgree' /\ OutsidersApart'
  BY <1>0, <1>9, UnchangedRooms DEF UdpOpen, UdpClose, OutsidersApart
<1>10. ASSUME NEW s \in Sockets, Close(s)
       PROVE  RoomsAgree' /\ OutsidersApart'
  <2>1. /\ UNCHANGED <<m_authPending, m_loginRequest, name>>
        /\ readyState[s] # "none"
    BY <1>10 DEF Close
  <2>2. CASE CloseQuietly(s)
    <3>1. /\ m_loginRequest[s] = None \/ m__terminated[s]
          /\ \A t \in Sockets \ {s} : readyState'[t] = readyState[t]
          /\ readyState'[s] = "closed"
          /\ UNCHANGED <<m__group, m__terminated, m_units, m_groups,
                         c_accounts>>
      BY <1>0, <2>2 DEF CloseQuietly, TypeOK
    <3>2. RoomsAgree'
      BY <1>0, <2>1, <3>1, ReadyOnlyRooms
    <3> QED BY <1>0, <2>1, <3>1, <3>2 DEF OutsidersApart
  <2>3. CASE CloseAndCleanUp(s)
    <3>1. RoomsAgree'
      BY <1>0, <2>1, <2>3, CleanUpRooms
    <3> DEFINE V == Victims(m_loginRequest[s].acc, m_loginRequest[s].name)
    <3>2. /\ m_loginRequest[s].acc \in Accounts
          /\ m_loginRequest[s].name \in UnitNames
      BY <1>0, <2>3 DEF CloseAndCleanUp, TypeOK, Logins
    <3>3. \A t \in V : t \in Sockets /\ m_loginRequest[t] # None
      BY <1>0, <3>2, VictimIsUnit DEF RoomsAgree, Victims
    <3>4. \A t \in Sockets :
            /\ m__terminated'[t] = IF t \in V THEN TRUE ELSE m__terminated[t]
            /\ readyState'[t] = IF t = s THEN "closed"
                                ELSE IF t \in V THEN "closing"
                                ELSE readyState[t]
            /\ m__group'[t] = IF t \in V THEN None ELSE m__group[t]
      <4>1. /\ m__terminated' = TerminatedAfter(V)
            /\ m__group' = GroupAfter(V)
            /\ readyState' = [ReadyAfter(V) EXCEPT ![s] = "closed"]
        BY <2>3 DEF CloseAndCleanUp
      <4> HIDE DEF V
      <4> QED BY <4>1 DEF TerminatedAfter, GroupAfter, ReadyAfter
    <3>5. m_loginRequest[s] # None
      BY <2>3 DEF CloseAndCleanUp
    <3> HIDE DEF V
    <3>6. OutsidersApart'
      <4> SUFFICES ASSUME NEW t \in Sockets
                   PROVE  /\ readyState'[t] = "none" =>
                               ~m_authPending[t] /\ m_loginRequest[t] = None
                          /\ m_authPending[t] => m_loginRequest[t] = None
                          /\ m_loginRequest[t] = None =>
                               /\ name[t] = None
                               /\ m__group'[t] = None
                               /\ ~m__terminated'[t]
        BY <2>1 DEF OutsidersApart
      <4>1. CASE t \in V \/ t = s
        BY <1>0, <3>3, <3>4, <3>5, <4>1 DEF OutsidersApart
      <4>2. CASE ~(t \in V \/ t = s)
        BY <1>0, <3>4, <4>2 DEF OutsidersApart
      <4> QED BY <4>1, <4>2
    <3> QED BY <3>1, <3>6
  <2> QED BY <1>10, <2>2, <2>3 DEF Close
<1>11. ASSUME NEW n \in UnitNames, UdpBound(n) \/ Reap(n)
       PROVE  RoomsAgree' /\ OutsidersApart'
  BY <1>0, <1>11, UnchangedRooms DEF UdpBound, Reap, OutsidersApart
<1>12. ASSUME NEW s \in Sockets, PeerLeaves(s)
       PROVE  RoomsAgree' /\ OutsidersApart'
  <2>1. /\ readyState[s] = "open"
        /\ \A t \in Sockets \ {s} : readyState'[t] = readyState[t]
        /\ readyState'[s] = "closing"
        /\ UNCHANGED <<m_authPending, m_loginRequest, name, m__group,
                       m__terminated, m_units, m_groups, c_accounts>>
    BY <1>0, <1>12 DEF PeerLeaves, TypeOK
  <2>2. RoomsAgree'
    BY <1>0, <2>1, ReadyOnlyRooms DEF Live
  <2> QED BY <1>0, <2>1, <2>2 DEF OutsidersApart
<1>13. CASE UNCHANGED vars
  BY <1>0, <1>13, UnchangedRooms DEF vars, OutsidersApart
<1> QED
  BY <1>1, <1>2, <1>3, <1>4, <1>5, <1>6, <1>7, <1>8, <1>9, <1>10, <1>11,
     <1>12, <1>13 DEF Next, SocketStep

\* The rooms are in step at the start.
LEMMA RoomsInit ==
  Init => RoomsInv
<1> SUFFICES ASSUME Init PROVE RoomsInv
  OBVIOUS
<1>1. TypeOK
  BY TypeInit
<1>2. UnitsAreLiveSockets /\ OneUnitPerAccount
  BY NoneAssumption DEF Init, UnitsAreLiveSockets, OneUnitPerAccount, UnitNames
<1>3. GroupsHoldTheirSockets /\ NoEmptyGroup
  BY DEF Init, GroupsHoldTheirSockets, NoEmptyGroup, IsMember
<1>4. OutsidersApart
  BY DEF Init, OutsidersApart
<1> QED BY <1>1, <1>2, <1>3, <1>4 DEF RoomsInv, RoomsAgree

\* The accounts, the groups, the unit tables and the sockets' own fields agree
\* at all times, however connections, evictions, logouts and late 'close'
\* events interleave.
THEOREM RoomsAlwaysAgree ==
  Spec => []RoomsAgree
<1>1. Spec => []RoomsInv
  BY RoomsInit, RoomsStep, PTL DEF Spec
<1>2. RoomsInv => RoomsAgree
  BY DEF RoomsInv
<1> QED BY <1>1, <1>2, PTL

-----------------------------------------------------------------------------
(* Who may be removed.  PartiesStay is inductive on top of RoomsInv, and from *)
(* it follows what the 'close' event of one socket can do to another.         *)

PartiesInv == RoomsInv /\ PartiesStay

\* PartiesStay of one socket.
Stays(s) ==
  m_loginRequest[s] # None =>
    /\ <<m_loginRequest[s].acc, m_loginRequest[s].name>> \in Identities
    /\ name[s] \in {None, m_loginRequest[s].name}
    /\ IsMember(s) => name[s] = m_loginRequest[s].name
    /\ (/\ m_loginRequest[s].name # None
        /\ ~m__terminated[s]
        /\ s \notin loggedOut
        /\ readyState[s] # "closed") => IsMember(s)

\* A socket whose fields do not change stays as it was.
LEMMA StaysUnchanged ==
  ASSUME NEW t \in Sockets, Stays(t),
         m_loginRequest'[t] = m_loginRequest[t], name'[t] = name[t],
         \/ m__group'[t] = m__group[t]
         \/ m__group'[t] = None /\ (m__terminated'[t] \/ t \in loggedOut'),
         m__terminated[t] => m__terminated'[t],
         t \in loggedOut => t \in loggedOut',
         readyState[t] = "closed" => readyState'[t] = "closed"
  PROVE  Stays(t)'
BY DEF Stays, IsMember

\* Every step keeps the parties where they are.
LEMMA PartiesStep ==
  PartiesInv /\ [Next]_vars => PartiesInv'
<1> SUFFICES ASSUME PartiesInv, [Next]_vars, NEW t \in Sockets
             PROVE  Stays(t)'
  BY RoomsStep DEF PartiesInv, PartiesStay, Stays
<1>0. TypeOK /\ RoomsAgree /\ OutsidersApart /\ Stays(t)
  BY DEF PartiesInv, RoomsInv, PartiesStay, Stays
<1> USE DEF keyVars, socketVars, roomVars
<1>1. ASSUME NEW s \in Sockets, m_loginRequest[s] = None, Accept(s),
             loggedOut' = loggedOut, readyState[s] # "closed"
      PROVE  Stays(t)'
  <2>1. PICK l \in Logins : AcceptConnection(s, l)
                            /\ <<l.acc, l.name>> \in Identities
    BY <1>0, <1>1, AcceptRooms
  <2> DEFINE V == Victims(l.acc, l.name)
             joins == UnitsWithout(l.acc, l.name)[l.acc][l.grp][l.name] = None
  <2>2. l.acc \in Accounts /\ l.grp \in Groups /\ l.name \in UnitNames
    BY DEF Logins
  <2>3. l.name # None => joins
    BY <2>2, RemovalUnits
  <2>4. /\ m_loginRequest' = [m_loginRequest EXCEPT ![s] = l]
        /\ name' = IF joins THEN [name EXCEPT ![s] = l.name] ELSE name
        /\ m__group' = IF joins
                       THEN [GroupAfter(V) EXCEPT
                               ![s] = [acc |-> l.acc, grp |-> l.grp]]
                       ELSE GroupAfter(V)
        /\ m__terminated' = TerminatedAfter(V)
        /\ readyState' = [ReadyAfter(V) EXCEPT
                             ![s] = IF @ = "closing" THEN @ ELSE "open"]
    BY <2>1 DEF AcceptConnection
  <2>5. \A u \in V : u \in Sockets /\ readyState[u] # "closed"
                     /\ m_loginRequest[u] # None
    BY <1>0, <2>2, VictimIsUnit DEF RoomsAgree, Victims, Live
  <2>6. name[s] = None /\ m__group[s] = None
    BY <1>0, <1>1 DEF OutsidersApart
  <2> HIDE DEF V, joins
  <2>7. CASE t = s
    <3>1. /\ m_loginRequest'[t] = l
          /\ name'[t] = IF joins THEN l.name ELSE None
          /\ joins => m__group'[t] = [acc |-> l.acc, grp |-> l.grp]
          /\ ~joins => m__group'[t] = None
      BY <1>0, <2>4, <2>6, <2>7 DEF GroupAfter, TypeOK
    <3>2. [acc |-> l.acc, grp |-> l.grp] # None
      BY <2>2, NoneAssumption DEF GroupRefs
    <3> QED BY <2>1, <2>3, <3>1, <3>2 DEF Stays, IsMember
  <2>8. CASE t # s
    <3>1. /\ m_loginRequest'[t] = m_loginRequest[t]
          /\ name'[t] = name[t]
          /\ m__group'[t] = IF t \in V THEN None ELSE m__group[t]
          /\ m__terminated'[t] = IF t \in V THEN TRUE ELSE m__terminated[t]
          /\ readyState'[t] = IF t \in V THEN "closing" ELSE readyState[t]
      BY <1>0, <2>4, <2>8 DEF GroupAfter, TerminatedAfter, ReadyAfter, TypeOK
    <3>2. CASE t \in V
      BY <1>0, <1>1, <2>5, <3>1, <3>2, StaysUnchanged
    <3>3. CASE t \notin V
      BY <1>0, <1>1, <3>1, <3>3, StaysUnchanged
    <3> QED BY <3>2, <3>3
  <2> QED BY <2>7, <2>8
<1>2. ASSUME UNCHANGED <<m_loginRequest, name, m__group, m__terminated,
                         loggedOut>>,
             readyState[t] = "closed" => readyState'[t] = "closed"
      PROVE  Stays(t)'
  BY <1>0, <1>2, StaysUnchanged
<1>3. ASSUME NEW k \in Keys, NEW r \in LoginRequests, LoginRequest(k, r)
      PROVE  Stays(t)'
  BY <1>2, <1>3 DEF LoginRequest
<1>4. ASSUME NEW k \in Keys, LoginTimeout(k)
      PROVE  Stays(t)'
  BY <1>2, <1>4 DEF LoginTimeout
<1>5. ASSUME NEW s \in Sockets, ConnectForFrame(s)
      PROVE  Stays(t)'
  BY <1>0, <1>2, <1>5 DEF ConnectForFrame, TypeOK
<1>6. ASSUME NEW s \in Sockets, ConnectWithQuery(s)
      PROVE  Stays(t)'
  <2>1. m_loginRequest[s] = None /\ readyState[s] = "none"
          /\ loggedOut' = loggedOut
    BY <1>0, <1>6 DEF ConnectWithQuery, OutsidersApart
  <2>2. CASE Accept(s)
    BY <1>1, <2>1, <2>2
  <2>3. CASE Refuse(s)
    BY <1>0, <1>2, <2>1, <2>3 DEF Refuse, TypeOK
  <2> QED BY <1>6, <2>2, <2>3 DEF ConnectWithQuery
<1>7. ASSUME NEW s \in Sockets, RejectQuery(s)
      PROVE  Stays(t)'
  BY <1>0, <1>2, <1>7 DEF RejectQuery, TypeOK
<1>8. ASSUME NEW s \in Sockets, AuthFrame(s)
      PROVE  Stays(t)'
  <2>1. m_loginRequest[s] = None /\ readyState[s] # "closed"
          /\ loggedOut' = loggedOut
    BY <1>0, <1>8 DEF AuthFrame, OutsidersApart, Live
  <2>2. CASE Accept(s)
    BY <1>1, <2>1, <2>2
  <2>3. CASE Refuse(s)
    BY <1>0, <1>2, <2>1, <2>3 DEF Refuse, TypeOK
  <2> QED BY <1>8, <2>2, <2>3 DEF AuthFrame
<1>9. ASSUME NEW s \in Sockets, AuthTimeout(s)
      PROVE  Stays(t)'
  BY <1>0, <1>2, <1>9 DEF AuthTimeout, TypeOK
<1>10. ASSUME NEW s \in Sockets, Logout(s)
       PROVE  Stays(t)'
  <2>1. /\ UNCHANGED <<readyState, m_loginRequest, name, m__terminated>>
        /\ loggedOut' = loggedOut \cup {s}
    BY <1>10 DEF Logout
  <2>2. m__group'[t] = IF t = s THEN None ELSE m__group[t]
    <3>1. CASE m__group[s] = None \/ name[s] = None
      BY <1>0, <1>10, <3>1 DEF Logout, TypeOK
    <3>2. CASE ~(m__group[s] = None \/ name[s] = None)
      <4>1. m_units[m__group[s].acc][m__group[s].grp][name[s]] = s
        BY <1>0, <3>2 DEF RoomsAgree, GroupsHoldTheirSockets, IsMember
      <4> QED BY <1>10, <3>2, <4>1 DEF Logout
    <3> QED BY <3>1, <3>2
  <2> QED BY <1>0, <2>1, <2>2, StaysUnchanged
<1>11. ASSUME NEW s \in Sockets, UdpOpen(s) \/ UdpClose(s)
       PROVE  Stays(t)'
  BY <1>2, <1>11 DEF UdpOpen, UdpClose
<1>12. ASSUME NEW s \in Sockets, Close(s)
       PROVE  Stays(t)'
  <2>1. UNCHANGED <<m_loginRequest, name, loggedOut>>
    BY <1>12 DEF Close
  <2>2. CASE CloseQuietly(s)
    BY <1>0, <1>2, <2>1, <2>2 DEF CloseQuietly, TypeOK
  <2>3. CASE CloseAndCleanUp(s)
    <3> DEFINE V == Victims(m_loginRequest[s].acc, m_loginRequest[s].name)
    <3>1. /\ m__terminated' = TerminatedAfter(V)
          /\ m__group' = GroupAfter(V)
          /\ readyState' = [ReadyAfter(V) EXCEPT ![s] = "closed"]
      BY <2>3 DEF CloseAndCleanUp
    <3>2. /\ m_loginRequest[s].acc \in Accounts
          /\ m_loginRequest[s].name \in UnitNames
      BY <1>0, <2>3 DEF CloseAndCleanUp, TypeOK, Logins
    <3>3. \A u \in V : readyState[u] # "closed"
      BY <1>0, <3>2, VictimIsUnit DEF RoomsAgree, Live
    <3> HIDE DEF V
    <3>4. /\ m__group'[t] = IF t \in V THEN None ELSE m__group[t]
          /\ m__terminated'[t] = IF t \in V THEN TRUE ELSE m__terminated[t]
          /\ readyState'[t] = IF t = s THEN "closed"
                              ELSE IF t \in V THEN "closing" ELSE readyState[t]
      BY <3>1 DEF GroupAfter, TerminatedAfter, ReadyAfter
    <3>5. CASE t \in V
      BY <1>0, <2>1, <3>3, <3>4, <3>5, StaysUnchanged
    <3>6. CASE t \notin V
      BY <1>0, <2>1, <3>4, <3>6, StaysUnchanged
    <3> QED BY <3>5, <3>6
  <2> QED BY <1>12, <2>2, <2>3 DEF Close
<1>13. ASSUME NEW n \in UnitNames, UdpBound(n) \/ Reap(n)
       PROVE  Stays(t)'
  BY <1>2, <1>13 DEF UdpBound, Reap
<1>14. ASSUME NEW s \in Sockets, PeerLeaves(s)
       PROVE  Stays(t)'
  BY <1>0, <1>2, <1>14 DEF PeerLeaves, TypeOK
<1>15. CASE UNCHANGED vars
  BY <1>2, <1>15 DEF vars
<1> QED
  BY <1>3, <1>4, <1>5, <1>6, <1>7, <1>8, <1>9, <1>10, <1>11, <1>12, <1>13,
     <1>14, <1>15 DEF Next, SocketStep

\* At the start there are no parties.
LEMMA PartiesInit ==
  Init => PartiesInv
BY RoomsInit DEF PartiesInv, Init, PartiesStay

\* A unit that is in a room under a sender id is found there, and nowhere else
\* in the account.
LEMMA MemberIsUnit ==
  ASSUME PartiesInv, NEW t \in Sockets, IsMember(t), name[t] # None
  PROVE  /\ name[t] \in Names
         /\ m_loginRequest[t] # None
         /\ m_loginRequest[t].acc \in Accounts
         /\ m_loginRequest[t].grp \in Groups
         /\ m_loginRequest[t].name = name[t]
         /\ m_units[m_loginRequest[t].acc][m_loginRequest[t].grp][name[t]] = t
<1>1. TypeOK /\ RoomsAgree
  BY DEF PartiesInv, RoomsInv
<1>2. /\ m__group[t].acc \in Accounts
      /\ m__group[t].grp \in Groups
      /\ name[t] \in Names
  BY <1>1 DEF TypeOK, IsMember, GroupRefs, UnitNames
<1>3. m_units[m__group[t].acc][m__group[t].grp][name[t]] = t
  BY <1>1 DEF RoomsAgree, GroupsHoldTheirSockets
<1>4. /\ m_loginRequest[t] # None
      /\ m_loginRequest[t].acc = m__group[t].acc
      /\ m_loginRequest[t].grp = m__group[t].grp
      /\ m_loginRequest[t].name = name[t]
  BY <1>1, <1>2, <1>3 DEF RoomsAgree, UnitsAreLiveSockets
<1> QED BY <1>2, <1>3, <1>4

\* The cleanup of a party that did not log out and whose sender id belongs to
\* one account finds nobody but the party itself.
LEMMA CleanUpSpares ==
  ASSUME PartiesInv, NEW s \in Sockets, CloseAndCleanUp(s),
         readyState[s] # "closed", s \notin loggedOut,
         Exclusive(m_loginRequest[s].name),
         name' = name,
         NEW t \in Sockets \ {s}, IsMember(t)
  PROVE  Spares(t)
<1>1. TypeOK /\ RoomsAgree /\ PartiesStay
  BY DEF PartiesInv, RoomsInv
<1> DEFINE n == m_loginRequest[s].name
           a == m_loginRequest[s].acc
           V == Victims(a, n)
<1>2. /\ m_loginRequest[s] # None
      /\ ~m__terminated[s]
      /\ m__group' = GroupAfter(V)
      /\ udpProxies' = IF name[s] = None THEN udpProxies
                                         ELSE WithoutProxy(name[s])
      /\ activeSenders' = IF n = None THEN activeSenders
                          ELSE [activeSenders EXCEPT ![n] = None]
  BY DEF CloseAndCleanUp, DeleteActiveSender
<1>3. a \in Accounts /\ n \in UnitNames /\ <<a, n>> \in Identities
      /\ name[s] \in {None, n}
  BY <1>1, <1>2 DEF TypeOK, Logins, PartiesStay
<1>4. name[t] \in UnitNames
  BY <1>1 DEF TypeOK
<1>5. CASE n = None
  <2>1. V = {} /\ name[s] = None
    BY <1>3, <1>5 DEF Victims
  <2>2. m__group'[t] = m__group[t]
    BY <1>2, <2>1 DEF GroupAfter
  <2> QED BY <1>2, <1>5, <2>1, <2>2 DEF Spares
<1>6. CASE n # None
  <2>1. IsMember(s) /\ name[s] = n
    BY <1>1, <1>2, <1>6 DEF PartiesStay
  <2>2. /\ n \in Names
        /\ m_loginRequest[s].grp \in Groups
        /\ m_units[a][m_loginRequest[s].grp][n] = s
    BY <1>6, <2>1, MemberIsUnit
  <2>3. \A h \in Groups : m_units[a][h][n] # t
    <3> SUFFICES ASSUME NEW h \in Groups, m_units[a][h][n] = t
                 PROVE  FALSE
      OBVIOUS
    <3>1. m_units[a][h][n] # None /\ m_units[a][m_loginRequest[s].grp][n] # None
      BY <2>2, NoneAssumption
    <3>2. h = m_loginRequest[s].grp
      BY <1>1, <1>3, <2>2, <3>1 DEF RoomsAgree, OneUnitPerAccount
    <3> QED BY <2>2, <3>2
  <2>4. t \notin V
    BY <2>3 DEF Victims
  <2>5. name[t] # n
    <3> SUFFICES ASSUME name[t] = n PROVE FALSE
      OBVIOUS
    <3>1. /\ m_loginRequest[t] # None
          /\ m_loginRequest[t].acc \in Accounts
          /\ m_loginRequest[t].grp \in Groups
          /\ m_loginRequest[t].name = n
          /\ m_units[m_loginRequest[t].acc][m_loginRequest[t].grp][n] = t
      BY <1>6, MemberIsUnit
    <3>2. <<m_loginRequest[t].acc, n>> \in Identities
      BY <1>1, <3>1 DEF PartiesStay
    <3>3. m_loginRequest[t].acc = a
      BY <1>3, <3>1, <3>2 DEF Exclusive
    <3> QED BY <2>3, <3>1, <3>3
  <2>6. m__group'[t] = m__group[t]
    BY <1>2, <2>4 DEF GroupAfter
  <2>7. activeSenders[name[t]] = t => activeSenders'[name[t]] = t
    BY <1>1, <1>2, <1>4, <2>5 DEF TypeOK
  <2>8. udpProxies[name[t]] # "none" => udpProxies'[name[t]] # "none"
    BY <1>1, <1>2, <1>4, <2>1, <2>5 DEF WithoutProxy, TypeOK
  <2> QED BY <2>6, <2>7, <2>8 DEF Spares
<1> QED BY <1>5, <1>6

\* A socket is closed by its own 'close' event only.
LEMMA OnlyCloseCloses ==
  ASSUME PartiesInv, [Next]_vars, NEW s \in Sockets, CloseEvent(s)
  PROVE  Close(s)
<1>0. TypeOK /\ RoomsAgree /\ OutsidersApart
  BY DEF PartiesInv, RoomsInv
<1>1. readyState[s] \in {"open", "closing"} /\ readyState'[s] = "closed"
  BY DEF CloseEvent, Live
<1> USE DEF keyVars, socketVars, roomVars
<1>2. ASSUME NEW r \in Sockets, m_loginRequest[r] = None, Accept(r)
      PROVE  FALSE
  <2>1. PICK l \in Logins : AcceptConnection(r, l)
    BY <1>0, <1>2, AcceptRooms
  <2>2. readyState' = [ReadyAfter(Victims(l.acc, l.name)) EXCEPT
                         ![r] = IF @ = "closing" THEN @ ELSE "open"]
    BY <2>1 DEF AcceptConnection
  <2>3. readyState'[s] \in {"open", "closing", readyState[s]}
    BY <2>2 DEF ReadyAfter
  <2> QED BY <1>1, <2>3
<1>3. ASSUME NEW r \in Sockets, Refuse(r)
      PROVE  FALSE
  BY <1>0, <1>1, <1>3 DEF Refuse, TypeOK
<1>4. ASSUME NEW r \in Sockets, ConnectWithQuery(r)
      PROVE  FALSE
  BY <1>0, <1>2, <1>3, <1>4 DEF ConnectWithQuery, OutsidersApart
<1>5. ASSUME NEW r \in Sockets, AuthFrame(r)
      PROVE  FALSE
  BY <1>0, <1>2, <1>3, <1>5 DEF AuthFrame, OutsidersApart
<1>6. ASSUME NEW r \in Sockets, ConnectForFrame(r) \/ RejectQuery(r)
                                \/ AuthTimeout(r) \/ PeerLeaves(r)
      PROVE  FALSE
  BY <1>0, <1>1, <1>6
     DEF ConnectForFrame, RejectQuery, AuthTimeout, PeerLeaves, TypeOK
<1>7. ASSUME readyState' = readyState
      PROVE  FALSE
  BY <1>1, <1>7
<1>8. ASSUME NEW r \in Sockets, Close(r)
      PROVE  r = s
  <2>1. CASE CloseQuietly(r)
    BY <1>0, <1>1, <2>1 DEF CloseQuietly, TypeOK
  <2>2. CASE CloseAndCleanUp(r)
    <3>1. readyState' = [ReadyAfter(Victims(m_loginRequest[r].acc,
                                            m_loginRequest[r].name))
                           EXCEPT ![r] = "closed"]
      BY <2>2 DEF CloseAndCleanUp
    <3>2. r # s => readyState'[s] \in {"closing", readyState[s]}
      BY <3>1 DEF ReadyAfter
    <3> QED BY <1>1, <3>2
  <2> QED BY <1>8, <2>1, <2>2 DEF Close
<1>9. ASSUME NEW r \in Sockets, SocketStep(r)
      PROVE  Close(r)
  BY <1>4, <1>5, <1>6, <1>7, <1>9
     DEF SocketStep, Logout, UdpOpen, UdpClose
<1>10. PICK r \in Sockets : SocketStep(r)
  BY <1>7 DEF Next, vars, LoginRequest, LoginTimeout, UdpBound, Reap
<1> QED BY <1>8, <1>9, <1>10

\* The 'close' event of a socket -- also a late one, after its name was taken
\* over by a new connection -- leaves every other unit its membership, its
\* active-sender entry and its proxy, unless the socket had logged out or its
\* sender id is used in two accounts.
THEOREM CloseSparesTheReplacement ==
  Spec => CloseSparesOthers
<1>1. Spec => []PartiesInv
  BY PartiesInit, PartiesStep, PTL DEF Spec
<1>2. PartiesInv /\ [Next]_vars =>
        [\A s \in Sockets :
           \/ s \in loggedOut
           \/ m_loginRequest[s] # None /\ ~Exclusive(m_loginRequest[s].name)
           \/ CloseSpares(s)]_vars
  <2> SUFFICES ASSUME PartiesInv, [Next]_vars, NEW s \in Sockets,
                      s \notin loggedOut,
                      m_loginRequest[s] = None
                        \/ Exclusive(m_loginRequest[s].name),
                      CloseEvent(s), NEW t \in Sockets \ {s}, IsMember(t)
               PROVE  Spares(t)
    BY DEF CloseSpares
  <2>1. Close(s)
    BY OnlyCloseCloses
  <2>2. CASE CloseQuietly(s)
    BY <2>2 DEF CloseQuietly, Spares
  <2>3. CASE CloseAndCleanUp(s)
    <3>1. /\ readyState[s] # "closed"
          /\ name' = name
          /\ m_loginRequest[s] # None
      BY <2>1, <2>3 DEF Close, CloseAndCleanUp
    <3> QED BY <2>3, <3>1, CleanUpSpares
  <2> QED BY <2>1, <2>2, <2>3 DEF Close
<1> QED BY <1>1, <1>2, PTL DEF Spec, CloseSparesOthers

\* A party that announced a sender id is in its room until it logs out, is
\* replaced or closes.
THEOREM PartiesAlwaysStay ==
  Spec => []PartiesStay
<1>1. Spec => []PartiesInv
  BY PartiesInit, PartiesStep, PTL DEF Spec
<1>2. PartiesInv => PartiesStay
  BY DEF PartiesInv
<1> QED BY <1>1, <1>2, PTL
=============================================================================
