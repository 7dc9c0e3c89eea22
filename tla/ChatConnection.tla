--------------------------- MODULE ChatConnection ---------------------------
(***************************************************************************)
(* The life of a party's web socket on the communication server:           *)
(* js_chat_connection.js with the registries it keeps in step -- the       *)
(* temporary login keys (js_andruav_comm_server.js), the account/group     *)
(* rooms (js_andruav_chat_account_rooms.js), the active senders            *)
(* (js_andruav_active_senders.js), the registry of UDP proxies             *)
(* (js_udp_proxy.js) and the last INFO card sent to the AUTH server.       *)
(*                                                                         *)
(* Node runs one callback at a time, so one action is one callback run to  *)
(* its end.  What interleaves are the callbacks: connections, frames,      *)
(* timers, the asynchronous 'close' events and the reaper.                 *)
(***************************************************************************)
EXTENDS Naturals, FiniteSets

CONSTANTS
  Sockets,      \* instances of WebSocket; each one lives once
  Accounts, Groups,
  Names,        \* sender ids that parties announce
  Keys,         \* temporary login keys, fresh uuids
  ActorTypes,   \* actor types a login request carries, "d" is a drone
  None,         \* JavaScript's null / undefined
  Identities,   \* the pairs <<account, sender id>> parties log in with
  LocalServer,  \* local_server_enabled
  LocalAccount, \* local_server_account_id
  LocalGroup,   \* '1'
  OldCompat     \* ws_auth_no_frame_old_compatibility

\* A sender id the client left out is undefined, and indexes an object as
\* any other name does.
UnitNames == Names \cup {None}
LoginRequests == [acc : Accounts, grp : Groups, at : ActorTypes]
Logins == [acc : Accounts, grp : Groups, name : UnitNames, at : ActorTypes,
           req : Keys \cup {None}]
GroupRefs == [acc : Accounts, grp : Groups]

ASSUME NoneAssumption ==
  /\ None \notin Sockets
  /\ None \notin Names
  /\ None \notin Keys
  /\ None \notin LoginRequests
  /\ None \notin Logins
  /\ None \notin GroupRefs

ASSUME ConfigAssumption ==
  /\ LocalServer \in BOOLEAN
  /\ OldCompat \in BOOLEAN
  /\ LocalAccount \in Accounts
  /\ LocalGroup \in Groups
  /\ Identities \subseteq Accounts \X UnitNames

VARIABLES
  waiting,      \* m_waitingAccounts: key -> login request
  issued,       \* the keys the AUTH server was ever given
  readyState,   \* of each socket: "none" before it connects, then as in ws
  m_authPending,
  m_loginRequest,
  name,
  m__group,
  m__terminated,
  m_units,      \* account -> group -> unit name -> socket
  m_groups,     \* account -> its groups
  c_accounts,   \* the accounts
  activeSenders,\* m_activeSenderIDsList
  udpProxies,   \* m_activeUdpProxy: "none", "binding" (not ready), "ready"
  infoCard,     \* the INFO card last given to the AUTH link
  loggedOut     \* history: sockets that have sent LogoutCommServer

keyVars == <<waiting, issued>>
socketVars == <<readyState, m_authPending, m_loginRequest, name, m__group,
                m__terminated>>
roomVars == <<m_units, m_groups, c_accounts>>
vars == <<keyVars, socketVars, roomVars, activeSenders, udpProxies, infoCard,
          loggedOut>>

-----------------------------------------------------------------------------
(* The rooms. *)

SocketOrNone == Sockets \cup {None}

\* A socket is connected until its 'close' event: OPEN, or CLOSING because one
\* of the sides has begun to close it.
Live(s) == readyState[s] \in {"open", "closing"}

\* The sockets fn_getAccountDetails walks over: all that m_units holds.
Details(units) ==
  {s \in Sockets : \E a \in Accounts, g \in Groups, n \in UnitNames :
                      units[a][g][n] = s}

Init ==
  /\ waiting = [k \in Keys |-> None]
  /\ issued = {}
  /\ readyState = [s \in Sockets |-> "none"]
  /\ m_authPending = [s \in Sockets |-> FALSE]
  /\ m_loginRequest = [s \in Sockets |-> None]
  /\ name = [s \in Sockets |-> None]
  /\ m__group = [s \in Sockets |-> None]
  /\ m__terminated = [s \in Sockets |-> FALSE]
  /\ m_units = [a \in Accounts |-> [g \in Groups |->
                  [n \in UnitNames |-> None]]]
  /\ m_groups = [a \in Accounts |-> {}]
  /\ c_accounts = {}
  /\ activeSenders = [n \in UnitNames |-> None]
  /\ udpProxies = [n \in UnitNames |-> "none"]
  /\ infoCard = [accounts |-> {}, units |-> {}]
  /\ loggedOut = {}

\* fn_del_member_fromAccountByName(p_loginRequest, true) looks for the name in
\* every group of the account; a login with no sender id is left alone.
\* Victims are the sockets it finds, the three others what it leaves.
Victims(a, n) ==
  {s \in Sockets : n # None /\ \E g \in Groups : m_units[a][g][n] = s}

Mutant_UnitsKept(a, n) == m_units

UnitsWithout(a, n) ==
  [b \in Accounts |-> [g \in Groups |-> [m \in UnitNames |->
     IF n # None /\ b = a /\ m = n THEN None ELSE m_units[b][g][m]]]]

\* A group that loses its last unit is deleted.
Mutant_GroupsKept(a, n) == m_groups

GroupsWithout(a, n) ==
  [b \in Accounts |->
     {g \in m_groups[b] :
        \/ n = None \/ b # a \/ m_units[a][g][n] = None
        \/ \E m \in UnitNames \ {n} : m_units[a][g][m] # None}]

\* An account without groups is deleted.
Mutant_AccountsKept(a, n) == c_accounts

AccountsWithout(a, n) ==
  IF n # None /\ GroupsWithout(a, n)[a] = {} THEN c_accounts \ {a}
                                             ELSE c_accounts

\* m__terminated is what keeps the coming 'close' event from cleaning up.
Mutant_NotMarked(victims) == m__terminated

TerminatedAfter(victims) ==
  [s \in Sockets |-> IF s \in victims THEN TRUE ELSE m__terminated[s]]

\* terminate() destroys the connection; its 'close' event comes later.  The
\* socket may be closing already, because its peer has left.
ReadyAfter(victims) ==
  [s \in Sockets |-> IF s \in victims THEN "closing" ELSE readyState[s]]

GroupAfter(victims) ==
  [s \in Sockets |-> IF s \in victims THEN None ELSE m__group[s]]

\* js_andruav_active_senders.js; without a sender id nothing is deleted.
Mutant_AddIfAbsent(n, s) ==
  [activeSenders EXCEPT ![n] = IF @ = None THEN s ELSE @]

AddActiveSender(n, s) == [activeSenders EXCEPT ![n] = s]

Mutant_SenderKept(n) == activeSenders

DeleteActiveSender(n) ==
  IF n = None THEN activeSenders ELSE [activeSenders EXCEPT ![n] = None]

-----------------------------------------------------------------------------
(* Login requests of the AUTH server and their temporary keys. *)

\* fn_handleLoginResponses: a fresh key, kept for the party to come.
LoginRequest(k, r) ==
  /\ ~LocalServer
  /\ k \notin issued
  /\ issued' = issued \cup {k}
  /\ waiting' = [waiting EXCEPT ![k] = r]
  /\ UNCHANGED <<socketVars, roomVars, activeSenders, udpProxies, infoCard,
                 loggedOut>>

Mutant_LoginKept(k) == waiting

DeleteLogin(k) == [waiting EXCEPT ![k] = None]

\* The 10 s timer of fn_addWaitingAccount.  It also fires for a key that was
\* used meanwhile and then changes nothing.
LoginTimeout(k) ==
  /\ waiting[k] # None
  /\ waiting' = DeleteLogin(k)
  /\ UNCHANGED <<issued, socketVars, roomVars, activeSenders, udpProxies,
                 infoCard, loggedOut>>

-----------------------------------------------------------------------------
(* Accepting a party. *)

\* _acceptConnection: register the sender, throw out whoever uses its name in
\* the account, join the group.  fn_addMember leaves out of the group a socket
\* that finds its name taken.  Nothing looks at the readyState of the socket:
\* one whose peer is gone already is accepted all the same, and stays closing.
AcceptConnection(s, l) ==
  LET victims == Victims(l.acc, l.name)
      units == UnitsWithout(l.acc, l.name)
      joins == units[l.acc][l.grp][l.name] = None
  IN  /\ m_loginRequest' = [m_loginRequest EXCEPT ![s] = l]
      /\ activeSenders' = AddActiveSender(l.name, s)
      /\ m__terminated' = TerminatedAfter(victims)
      /\ readyState' = [ReadyAfter(victims)
                          EXCEPT ![s] = IF @ = "closing" THEN @ ELSE "open"]
      /\ m_units' = IF joins
                    THEN [units EXCEPT ![l.acc][l.grp][l.name] = s]
                    ELSE units
      /\ m_groups' = [GroupsWithout(l.acc, l.name)
                        EXCEPT ![l.acc] = @ \cup {l.grp}]
      /\ c_accounts' = AccountsWithout(l.acc, l.name) \cup {l.acc}
      /\ m__group' = IF joins
                     THEN [GroupAfter(victims)
                             EXCEPT ![s] = [acc |-> l.acc, grp |-> l.grp]]
                     ELSE GroupAfter(victims)
      /\ name' = IF joins THEN [name EXCEPT ![s] = l.name] ELSE name

\* fn_updateAuthServer: the INFO card of the accounts and units of this moment.
Mutant_CardTooEarly ==
  infoCard' = [accounts |-> c_accounts, units |-> Details(m_units)]

UpdateAuthServer ==
  infoCard' = [accounts |-> c_accounts', units |-> Details(m_units')]

\* The socket is closed by the server without ever becoming a party.
Refuse(s) ==
  /\ readyState' = [readyState EXCEPT ![s] = "closing"]
  /\ UNCHANGED <<waiting, m_loginRequest, name, m__group, m__terminated,
                 roomVars, activeSenders, infoCard>>

\* acceptConnection with a key of the AUTH server: used up by the first socket
\* that shows it.
AcceptWithKey(s, k, n) ==
  /\ waiting[k] # None
  /\ <<waiting[k].acc, n>> \in Identities
  /\ waiting' = DeleteLogin(k)
  /\ AcceptConnection(s, [acc |-> waiting[k].acc, grp |-> waiting[k].grp,
                          name |-> n, at |-> waiting[k].at, req |-> k])
  /\ UpdateAuthServer

\* acceptLocalConnection: any key will do, account and group are configured,
\* the actor type is the client's own; the AUTH server is not told.
AcceptLocal(s, n, at) ==
  /\ <<LocalAccount, n>> \in Identities
  /\ AcceptConnection(s, [acc |-> LocalAccount, grp |-> LocalGroup,
                          name |-> n, at |-> at, req |-> None])
  /\ UNCHANGED <<waiting, infoCard>>

\* fn_completeConnection with the credentials of the query string or of the
\* de_auth frame.
Accept(s) ==
  \/ /\ ~LocalServer
     /\ \E k \in Keys, n \in UnitNames : AcceptWithKey(s, k, n)
  \/ /\ LocalServer
     /\ \E n \in UnitNames, at \in ActorTypes : AcceptLocal(s, n, at)

\* fn_onConnect_Handler without credentials in the URL: wait for the frame.
ConnectForFrame(s) ==
  /\ readyState[s] = "none"
  /\ readyState' = [readyState EXCEPT ![s] = "open"]
  /\ m_authPending' = [m_authPending EXCEPT ![s] = TRUE]
  /\ UNCHANGED <<keyVars, m_loginRequest, name, m__group, m__terminated,
                 roomVars, activeSenders, udpProxies, infoCard, loggedOut>>

\* fn_onConnect_Handler with the key in the URL, where that is still allowed.
\* The key may be malformed, expired or used; a local server takes any.
ConnectWithQuery(s) ==
  /\ readyState[s] = "none"
  /\ OldCompat
  /\ Accept(s) \/ (~LocalServer /\ Refuse(s))
  /\ UNCHANGED <<issued, m_authPending, udpProxies, loggedOut>>

\* Where it is not: closed before any handler is attached to the socket.
RejectQuery(s) ==
  /\ readyState[s] = "none"
  /\ ~OldCompat
  /\ readyState' = [readyState EXCEPT ![s] = "closed"]
  /\ UNCHANGED <<keyVars, m_authPending, m_loginRequest, name, m__group,
                 m__terminated, roomVars, activeSenders, udpProxies, infoCard,
                 loggedOut>>

\* fn_authFrameHandler on the first message.  One that is not a de_auth frame,
\* and a frame with no key, is refused like a bad key is.  ws may still deliver
\* the frame when the peer has ended the connection (it inflates messages
\* asynchronously under ws_compression).
AuthFrame(s) ==
  /\ Live(s)
  /\ m_authPending[s]
  /\ m_authPending' = [m_authPending EXCEPT ![s] = FALSE]
  /\ Accept(s) \/ Refuse(s)
  /\ UNCHANGED <<issued, udpProxies, loggedOut>>

Mutant_TimeoutLeavesOpen(s) ==
  /\ m_authPending[s]
  /\ m_authPending' = [m_authPending EXCEPT ![s] = FALSE]
  /\ UNCHANGED <<keyVars, readyState, m_loginRequest, name, m__group,
                 m__terminated, roomVars, activeSenders, udpProxies, infoCard,
                 loggedOut>>

\* The 8 s timer; the socket may have closed in the meantime.
AuthTimeout(s) ==
  /\ m_authPending[s]
  /\ m_authPending' = [m_authPending EXCEPT ![s] = FALSE]
  /\ readyState' = [readyState EXCEPT ![s] = IF @ = "open" THEN "closing"
                                                           ELSE @]
  /\ UNCHANGED <<keyVars, m_loginRequest, name, m__group, m__terminated,
                 roomVars, activeSenders, udpProxies, infoCard, loggedOut>>

-----------------------------------------------------------------------------
(* System messages.  fn_parseMessage drops what an unauthorised socket      *)
(* sends.  Frames received before the socket began to close may still be    *)
(* delivered until its 'close' event.                                       *)

CanSend(s) == Live(s) /\ m_loginRequest[s] # None

\* LogoutCommServer: fn_del_member_fromGroup takes the unit out of its group
\* and leaves the socket open, with its name, its active-sender entry, its
\* proxy and, even if it is empty now, its account.
LogoutUnits(s) ==
  [m_units EXCEPT ![m__group[s].acc][m__group[s].grp][name[s]] = None]

Logout(s) ==
  /\ CanSend(s)
  /\ loggedOut' = loggedOut \cup {s}
  /\ IF m__group[s] = None \/ name[s] = None
     THEN /\ m__group' = [m__group EXCEPT ![s] = None]
          /\ UNCHANGED roomVars
     ELSE LET a == m__group[s].acc
              g == m__group[s].grp
              old == m_units[a][g][name[s]]
          IN  /\ m_units' = LogoutUnits(s)
              /\ m__group' = [t \in Sockets |->
                                IF t = old THEN None ELSE m__group[t]]
              /\ m_groups' = [m_groups EXCEPT ![a] =
                   IF old # None /\ \A m \in UnitNames \ {name[s]} :
                                       m_units[a][g][m] = None
                   THEN @ \ {g} ELSE @]
              /\ UNCHANGED c_accounts
  /\ UNCHANGED <<keyVars, readyState, m_authPending, m_loginRequest, name,
                 m__terminated, activeSenders, udpProxies, infoCard>>

\* closeUDPSocket deletes the entry.
Mutant_ProxyMarkedClosed(n) == [udpProxies EXCEPT ![n] = "closed"]

WithoutProxy(n) == [udpProxies EXCEPT ![n] = "none"]

\* UdpProxy with en = true: getUDPSocket under the unit's name.  A proxy that
\* is ready is kept, unless other ports are asked for; any other is made anew.
UdpOpen(s) ==
  /\ CanSend(s)
  /\ m_loginRequest[s].at = "d"
  /\ \/ udpProxies' = [udpProxies EXCEPT ![name[s]] = "binding"]
     \/ udpProxies[name[s]] = "ready" /\ UNCHANGED udpProxies
  /\ UNCHANGED <<keyVars, socketVars, roomVars, activeSenders, infoCard,
                 loggedOut>>

\* The outcome of the binds, for whoever is connected by then: the proxy is
\* ready, or the callback of the UdpProxy command closes it again.
UdpBound(n) ==
  /\ udpProxies[n] = "binding"
  /\ \/ udpProxies' = [udpProxies EXCEPT ![n] = "ready"]
     \/ udpProxies' = WithoutProxy(n)
  /\ UNCHANGED <<keyVars, socketVars, roomVars, activeSenders, infoCard,
                 loggedOut>>

\* UdpProxy with en = false.
UdpClose(s) ==
  /\ CanSend(s)
  /\ m_loginRequest[s].at = "d"
  /\ udpProxies' = WithoutProxy(name[s])
  /\ UNCHANGED <<keyVars, socketVars, roomVars, activeSenders, infoCard,
                 loggedOut>>

\* The reaper closes an idle proxy unless its unit is connected, which it
\* reads off the active senders.
UnitConnected(n) ==
  activeSenders[n] # None /\ readyState[activeSenders[n]] = "open"

Reap(n) ==
  /\ udpProxies[n] = "ready"
  /\ ~UnitConnected(n)
  /\ udpProxies' = WithoutProxy(n)
  /\ UNCHANGED <<keyVars, socketVars, roomVars, activeSenders, infoCard,
                 loggedOut>>

-----------------------------------------------------------------------------
(* The end of a connection. *)

\* The peer sends a close frame, ends or breaks the connection, or violates the
\* protocol: ws sets readyState to CLOSING at once and tells the program at the
\* 'close' event only, up to 30 s later.  Until then the socket stays where it
\* is registered; fn_sendTIndividualId and the UDP proxies look at readyState.
PeerLeaves(s) ==
  /\ readyState[s] = "open"
  /\ readyState' = [readyState EXCEPT ![s] = "closing"]
  /\ UNCHANGED <<keyVars, m_authPending, m_loginRequest, name, m__group,
                 m__terminated, roomVars, activeSenders, udpProxies, infoCard,
                 loggedOut>>

\* fn_onWsClose of a socket that was never accepted, or was terminated because
\* its name was taken over: nothing is cleaned up.
CloseQuietly(s) ==
  /\ m__terminated[s] \/ m_loginRequest[s] = None
  /\ readyState' = [readyState EXCEPT ![s] = "closed"]
  /\ UNCHANGED <<m__group, m__terminated, roomVars, activeSenders, udpProxies,
                 infoCard>>

\* fn_onWsClose of any other: everything under its NAME is cleaned up.
CloseAndCleanUp(s) ==
  LET l == m_loginRequest[s]
      victims == Victims(l.acc, l.name)
  IN  /\ ~m__terminated[s]
      /\ l # None
      /\ m_units' = UnitsWithout(l.acc, l.name)
      /\ m_groups' = GroupsWithout(l.acc, l.name)
      /\ c_accounts' = AccountsWithout(l.acc, l.name)
      /\ m__terminated' = TerminatedAfter(victims)
      /\ m__group' = GroupAfter(victims)
      /\ readyState' = [ReadyAfter(victims) EXCEPT ![s] = "closed"]
      /\ udpProxies' = IF name[s] = None THEN udpProxies
                                         ELSE WithoutProxy(name[s])
      /\ activeSenders' = DeleteActiveSender(l.name)
      /\ UpdateAuthServer

Close(s) ==
  /\ readyState[s] = "closing"
  /\ CloseQuietly(s) \/ CloseAndCleanUp(s)
  /\ UNCHANGED <<keyVars, m_authPending, m_loginRequest, name, loggedOut>>

-----------------------------------------------------------------------------
SocketStep(s) ==
  \/ ConnectForFrame(s)
  \/ ConnectWithQuery(s)
  \/ RejectQuery(s)
  \/ AuthFrame(s)
  \/ AuthTimeout(s)
  \/ Logout(s)
  \/ UdpOpen(s)
  \/ UdpClose(s)
  \/ PeerLeaves(s)
  \/ Close(s)

Next ==
  \/ \E k \in Keys, r \in LoginRequests : LoginRequest(k, r)
  \/ \E k \in Keys : LoginTimeout(k)
  \/ \E s \in Sockets : SocketStep(s)
  \/ \E n \in UnitNames : UdpBound(n) \/ Reap(n)

Spec == Init /\ [][Next]_vars

\* Timers fire, and ws reports the end of a connection that is closing (it
\* destroys the socket itself when the peer does not finish the close).
\* Nothing is assumed of the parties or of the AUTH server.
Fairness ==
  /\ \A k \in Keys : WF_vars(LoginTimeout(k))
  /\ \A s \in Sockets : WF_vars(AuthTimeout(s))
  /\ \A s \in Sockets : WF_vars(Close(s))

FairSpec == Spec /\ Fairness

-----------------------------------------------------------------------------
(* Properties. *)

TypeOK ==
  /\ waiting \in [Keys -> LoginRequests \cup {None}]
  /\ issued \in SUBSET Keys
  /\ readyState \in [Sockets -> {"none", "open", "closing", "closed"}]
  /\ m_authPending \in [Sockets -> BOOLEAN]
  /\ m_loginRequest \in [Sockets -> Logins \cup {None}]
  /\ name \in [Sockets -> UnitNames]
  /\ m__group \in [Sockets -> GroupRefs \cup {None}]
  /\ m__terminated \in [Sockets -> BOOLEAN]
  /\ m_units \in [Accounts -> [Groups -> [UnitNames -> SocketOrNone]]]
  /\ m_groups \in [Accounts -> SUBSET Groups]
  /\ c_accounts \in SUBSET Accounts
  /\ activeSenders \in [UnitNames -> SocketOrNone]
  /\ udpProxies \in [UnitNames -> {"none", "binding", "ready"}]
  /\ infoCard \in [accounts : SUBSET Accounts, units : SUBSET Sockets]
  /\ loggedOut \in SUBSET Sockets

\* A sender id that parties of a single account use.
Exclusive(n) ==
  \A a, b \in Accounts :
    <<a, n>> \in Identities /\ <<b, n>> \in Identities => a = b

IsMember(s) == m__group[s] # None

\* A socket that a room holds under a name is a connection that logged in with
\* that account, group and name, was not evicted, points back to the room, and
\* whose 'close' event is still to come: no unit is left in a room for ever, and
\* fn_broadcast meets no half-initialised one.  It may meet one that is closing
\* since its peer left; ws drops what is sent to it.
UnitsAreLiveSockets ==
  \A a \in Accounts, g \in Groups, n \in Names : \A s \in Sockets :
    m_units[a][g][n] = s =>
      /\ Live(s)
      /\ ~m__terminated[s]
      /\ m_loginRequest[s] # None
      /\ m_loginRequest[s].acc = a
      /\ m_loginRequest[s].grp = g
      /\ m_loginRequest[s].name = n
      /\ name[s] = n
      /\ m__group[s] # None /\ m__group[s].acc = a /\ m__group[s].grp = g

\* A socket that has a group is the one the group holds under its name, so a
\* logout never removes somebody else.
GroupsHoldTheirSockets ==
  \A s \in Sockets :
    IsMember(s) => m_units[m__group[s].acc][m__group[s].grp][name[s]] = s

\* fn_deleteMemberByName deletes a group with its last unit and no other; an
\* account that has a group is registered.
NoEmptyGroup ==
  \A a \in Accounts :
    /\ m_groups[a] = {g \in Groups : \E n \in UnitNames :
                                        m_units[a][g][n] # None}
    /\ m_groups[a] # {} => a \in c_accounts

\* The kick-out of _acceptConnection: a sender id is in at most one group of
\* its account.
OneUnitPerAccount ==
  \A a \in Accounts, n \in Names : \A g, h \in Groups :
    m_units[a][g][n] # None /\ m_units[a][h][n] # None => g = h

\* The four registries of js_andruav_chat_account_rooms.js agree.
RoomsAgree ==
  /\ UnitsAreLiveSockets
  /\ GroupsHoldTheirSockets
  /\ NoEmptyGroup
  /\ OneUnitPerAccount

\* Every unit in a room can be found by its sender id (fn_sendTIndividualId and
\* the reaper rely on it), if the id is used in one account only.
MemberIsActive ==
  \A a \in Accounts, g \in Groups, n \in Names : \A s \in Sockets :
    Exclusive(n) /\ m_units[a][g][n] = s => activeSenders[n] = s

\* No active-sender entry outlives the 'close' event of the connection it
\* stands for, or its eviction: what the reaper and fn_sendTIndividualId find
\* under a sender id was last accepted under it, though its peer may have left.
NoDanglingSender ==
  \A n \in Names : activeSenders[n] # None =>
    /\ Live(activeSenders[n])
    /\ ~m__terminated[activeSenders[n]]
    /\ m_loginRequest[activeSenders[n]] # None
    /\ m_loginRequest[activeSenders[n]].name = n

\* A temporary key admits one socket, whatever order its timer, its use and a
\* repeated use come in; a key that still waits has admitted none.
KeyUsedOnce ==
  ~LocalServer =>
    \A s \in Sockets : m_loginRequest[s] # None =>
      /\ waiting[m_loginRequest[s].req] = None
      /\ \A t \in Sockets \ {s} : m_loginRequest[t] # None =>
           m_loginRequest[t].req # m_loginRequest[s].req

\* An account stays registered only as long as the 'close' event of one of its
\* parties, not an evicted one, is still to come and to clean up (a unit that
\* announced no sender id is never removed and keeps its account).
NoLeakedAccount ==
  \A a \in c_accounts :
    \/ \E s \in Sockets :
         /\ Live(s)
         /\ ~m__terminated[s]
         /\ m_loginRequest[s] # None
         /\ m_loginRequest[s].acc = a
    \/ \E g \in Groups : m_units[a][g][None] # None

\* What the AUTH server was last told: exactly the accounts that are here, and
\* no unit of a room is missing.  A logout alone sends no card, so the card may
\* still list who has logged out.
InfoCardCovers ==
  ~LocalServer => /\ infoCard.accounts = c_accounts
                  /\ Details(m_units) \subseteq infoCard.units

\* A socket that is not (yet) a party has left no trace in the rooms.
OutsidersApart ==
  \A s \in Sockets :
    /\ readyState[s] = "none" => ~m_authPending[s] /\ m_loginRequest[s] = None
    /\ m_authPending[s] => m_loginRequest[s] = None
    /\ m_loginRequest[s] = None =>
         name[s] = None /\ m__group[s] = None /\ ~m__terminated[s]

\* A connected party that announced its sender id is in its room until it logs
\* out or its name is taken over: nothing else removes a unit.
PartiesStay ==
  \A s \in Sockets : m_loginRequest[s] # None =>
    /\ <<m_loginRequest[s].acc, m_loginRequest[s].name>> \in Identities
    /\ name[s] \in {None, m_loginRequest[s].name}
    /\ IsMember(s) => name[s] = m_loginRequest[s].name
    /\ (/\ m_loginRequest[s].name # None
        /\ ~m__terminated[s]
        /\ s \notin loggedOut
        /\ readyState[s] # "closed") => IsMember(s)

CloseEvent(s) ==
  Live(s) /\ readyState'[s] = "closed"

\* The step leaves t's membership, active-sender entry and proxy as they are.
Spares(t) ==
  /\ m__group'[t] = m__group[t]
  /\ activeSenders[name[t]] = t => activeSenders'[name[t]] = t
  /\ udpProxies[name[t]] # "none" => udpProxies'[name[t]] # "none"

CloseSpares(s) ==
  CloseEvent(s) => \A t \in Sockets \ {s} : IsMember(t) => Spares(t)

\* The 'close' event of a socket never tears down the state of another one
\* that is in a room -- in particular not of the connection that replaced it --
\* unless the socket had logged out or its sender id is used in two accounts.
CloseSparesOthers ==
  [][\A s \in Sockets :
       \/ s \in loggedOut
       \/ m_loginRequest[s] # None /\ ~Exclusive(m_loginRequest[s].name)
       \/ CloseSpares(s)]_vars

\* The comment in fn_onWsClose without those exceptions: by-name cleanup must
\* not "tear down the replacement's state instead of this stale one's".
StaleCloseHarmless ==
  [][\A s \in Sockets : CloseSpares(s)]_vars

Joins(s) == m_loginRequest[s] = None /\ m_loginRequest'[s] # None

\* A party that announces its sender id and is accepted is in its group when
\* it is told so.
NamedPartyJoins ==
  [][\A s \in Sockets : Joins(s) /\ m_loginRequest'[s].name \in Names =>
       m__group'[s] # None]_vars

\* A connection that is not, or no longer, a party does not stay: it is
\* accepted or closed after all.
StrangersLeave ==
  \A s \in Sockets :
    (/\ Live(s)
     /\ m_loginRequest[s] = None \/ m__terminated[s])
    ~> (\/ readyState[s] = "closed"
        \/ m_loginRequest[s] # None /\ ~m__terminated[s])
=============================================================================
