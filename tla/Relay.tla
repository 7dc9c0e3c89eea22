------------------------------- MODULE Relay --------------------------------
(***************************************************************************)
(* Messages between parties in a tree of communication servers:            *)
(* js_chat_routing.js decides who gets a message, js_chat_relay.js adds    *)
(* _path, _aid and _gid and hands it to the transports, which are          *)
(* js_parent_comm_server.js (to the children) and js_child_comm_server.js  *)
(* (to the parent).                                                        *)
(*                                                                         *)
(* One action is one callback of one server.  What interleaves are the     *)
(* servers, the messages on their links, links that fail and come back,    *)
(* and the parties that come and go.                                       *)
(***************************************************************************)
EXTENDS Naturals, Sequences, FiniteSets

CONSTANTS
  Servers, None,
  Parent,      \* the server's s2s_ws_target, None where the relay is off
  Ids,
  ServerId,    \* server_id
  Below,       \* the servers of the subtree under each server, itself included
  Units,       \* connections of parties
  Home,        \* the server a unit is connected to
  Name,        \* its sender id
  Account, Group, ActorType,
  Kinds,       \* the kinds of messages that parties send
  MaxMessages  \* bound: how many messages are sent

\* 'g' is the group type; the others are individual with target _GCS_, _GD_,
\* _AGN_, none, or the sender id of one unit.
Broadcasts == {"group", "gcs", "all", "agents", "untargeted"}
Names == {Name[u] : u \in Units}
Rooms == {<<Account[u], Group[u]>> : u \in Units}

ASSUME ServersAssumption ==
  /\ Parent \in [Servers -> Servers \cup {None}]
  /\ None \notin Servers
  /\ ServerId \in [Servers -> Ids]
  /\ \A s, t \in Servers : ServerId[s] = ServerId[t] => s = t

\* The servers form a forest, and Below lists its subtrees.
ASSUME ForestAssumption ==
  /\ Below \in [Servers -> SUBSET Servers]
  /\ \A s \in Servers : s \in Below[s]
  /\ \A c, s \in Servers : Parent[c] = s => Below[c] \subseteq Below[s] \ {s}
  /\ \A c, d \in Servers :
       c # d /\ Parent[c] = Parent[d] /\ Parent[c] # None =>
         Below[c] \cap Below[d] = {}
  /\ \A s, t \in Servers : t # s => (t \in Below[s] <=> Parent[t] \in Below[s])

\* A server has one connection per sender id (ChatConnection says when).
ASSUME UnitsAssumption ==
  /\ Home \in [Units -> Servers]
  /\ DOMAIN Name = Units
  /\ None \notin Rooms
  /\ Kinds \subseteq Broadcasts \cup Names
  /\ Names \cap Broadcasts = {}
  /\ \A u, v \in Units : Home[u] = Home[v] /\ Name[u] = Name[v] => u = v
  /\ MaxMessages \in Nat

Room(u) == <<Account[u], Group[u]>>

\* A message: its sender's unit, its kind, and the room that forwardMessage puts
\* in _aid/_gid (none if the sender has logged out).  A copy on the way: which
\* message it is, and the server ids in its _path.
Posts == [from : Units, kind : Broadcasts \cup Names, room : Rooms \cup {None}]
Copies == [id : 1..MaxMessages, path : SUBSET Ids]

VARIABLES
  standing, \* of a unit: "away", "member" of its room, or "loggedOut"
  up,       \* does the server's link to its parent work, handshake done
  channel,  \* channel[s][t]: the copies on their way from s to t
  log,      \* the messages sent by parties
  heard     \* for each unit, the ids of the messages it was given

vars == <<standing, up, channel, log, heard>>

-----------------------------------------------------------------------------
(* Who gets a message on one server. *)

Active(s) == {u \in Units : Home[u] = s /\ standing[u] # "away"}
Members(s, room) ==
  {u \in Units : Home[u] = s /\ standing[u] = "member" /\ Room(u) = room}
AllMembers(s) == {u \in Units : Home[u] = s /\ standing[u] = "member"}

\* p_actorType of fn_broadcast, for local and for relayed messages.
GCSOnly == {"g"}
AgentsOnly == {"d"}
AnyType == {ActorType[u] : u \in Units}

LocalTypes(m) ==
  CASE m.kind = "gcs" -> GCSOnly
    [] m.kind = "agents" -> AgentsOnly
    [] m.kind = "all" -> AnyType
    [] OTHER -> IF ActorType[m.from] = "g" THEN AnyType ELSE GCSOnly

ExternalTypes(m) ==
  CASE m.kind = "gcs" -> GCSOnly
    [] m.kind = "agents" -> AgentsOnly
    [] OTHER -> AnyType

Mutant_fn_broadcast(members, m, types) ==
  {u \in members : ActorType[u] \in types}

\* fn_broadcast: never back to the sender.
fn_broadcast(members, m, types) ==
  {u \in members : Name[u] # Name[m.from] /\ ActorType[u] \in types}

\* deliverExternalBroadcast: the room of the message if it exists here, or
\* else every room of every account.
Scope(s, room) ==
  IF room # None /\ Members(s, room) # {} THEN Members(s, room)
                                          ELSE AllMembers(s)

\* fn_sendTIndividualId compares the m__group of sender and target, undefined
\* for a sender that is not here; then _gid with the group id of the target.
GroupOf(u) == IF standing[u] = "member" THEN Room(u) ELSE None

IndividualHere(s, m) ==
  LET senders == {v \in Active(s) : Name[v] = Name[m.from]}
  IN  {u \in Active(s) :
         /\ Name[u] = m.kind
         /\ \/ senders = {} /\ GroupOf(u) = None
            \/ \E v \in senders : GroupOf(v) = GroupOf(u)
            \/ /\ senders = {}
               /\ m.room # None /\ GroupOf(u) # None
               /\ GroupOf(u)[2] = m.room[2]}

ExternalRecipients(s, m) ==
  IF m.kind \in Broadcasts
  THEN fn_broadcast(Scope(s, m.room), m, ExternalTypes(m))
  ELSE IndividualHere(s, m)

Give(k, us) ==
  heard' = [u \in Units |-> IF u \in us THEN Append(heard[u], k) ELSE heard[u]]

-----------------------------------------------------------------------------
(* Forwarding. *)

Linked(s, t) == (Parent[s] = t /\ up[s]) \/ (Parent[t] = s /\ up[t])

Mutant_Enqueue(q, c) == <<c>> \o q

Enqueue(q, c) == Append(q, c)

\* Both transports: to the parent, and to the children but for the one the
\* message came from.  A message of the parent goes back to it.
Mutant_ForwardTargets(s, source) ==
  {t \in Servers : source = None /\ Linked(s, t)}

ForwardTargets(s, source) ==
  {t \in Servers : Linked(s, t) /\ (Parent[t] = s => t # source)}

Mutant_PathWith(path, s) == path

PathWith(path, s) == path \cup {ServerId[s]}

Forward(q, s, targets, c) ==
  [q EXCEPT ![s] = [t \in Servers |->
     IF t \in targets THEN Enqueue(q[s][t], c) ELSE q[s][t]]]

\* Loop prevention of fn_parseExternalMessage.
Mutant_AlreadyRelayed(s, c) == FALSE

AlreadyRelayed(s, c) == ServerId[s] \in c.path

Init ==
  /\ standing \in [Units -> {"away", "member"}]
  /\ up \in {w \in [Servers -> BOOLEAN] :
               \A s \in Servers : w[s] => Parent[s] # None}
  /\ channel = [s \in Servers |-> [t \in Servers |-> <<>>]]
  /\ log = <<>>
  /\ heard = [u \in Units |-> <<>>]

\* fn_parseMessage, for a group or individual message of a party.  Untargeted
\* messages of actors that are neither GCS nor agent go nowhere.
ParseMessage(u, kind) ==
  LET m == [from |-> u, kind |-> kind, room |-> GroupOf(u)]
      s == Home[u]
      here == IF standing[u] # "member" THEN {}
              ELSE IF kind \in Broadcasts
                   THEN fn_broadcast(Members(s, Room(u)), m, LocalTypes(m))
                   ELSE {v \in Members(s, Room(u)) : Name[v] = kind}
      forwards == kind \in Broadcasts \/ (standing[u] = "member" /\ here = {})
  IN  /\ standing[u] # "away"
      /\ Len(log) < MaxMessages
      /\ kind = "untargeted" => ActorType[u] \in {"g", "d"}
      /\ log' = Append(log, m)
      /\ Give(Len(log) + 1, here)
      /\ channel' = IF forwards
                    THEN Forward(channel, s, ForwardTargets(s, None),
                                 [id |-> Len(log) + 1,
                                  path |-> PathWith({}, s)])
                    ELSE channel
      /\ UNCHANGED <<standing, up>>

\* fn_parseExternalMessage on the next message of the link from t.
Dequeued(t, s) == [channel EXCEPT ![t][s] = Tail(@)]

ParseExternalMessage(s, t) ==
  LET c == Head(channel[t][s])
      m == log[c.id]
      relays == m.kind \in Broadcasts
  IN  /\ channel[t][s] # <<>>
      /\ IF AlreadyRelayed(s, c)
         THEN /\ channel' = Dequeued(t, s)
              /\ UNCHANGED heard
         ELSE /\ Give(c.id, ExternalRecipients(s, m))
              /\ channel' = IF relays
                            THEN Forward(Dequeued(t, s), s,
                                         ForwardTargets(s, t),
                                         [c EXCEPT !.path = PathWith(@, s)])
                            ELSE Dequeued(t, s)
      /\ UNCHANGED <<standing, up, log>>

Mutant_LinkUp(s) ==
  /\ ~up[s]
  /\ up' = [up EXCEPT ![s] = TRUE]
  /\ UNCHANGED <<standing, channel, log, heard>>

\* The child reconnects every 10 s; the link is used once it is authenticated.
\* S2SHandshake tells how the two directions come to be used, one after the other.
LinkUp(s) ==
  /\ Parent[s] # None
  /\ ~up[s]
  /\ up' = [up EXCEPT ![s] = TRUE]
  /\ UNCHANGED <<standing, channel, log, heard>>

\* What was on its way in either direction is lost.
LinkDown(s) ==
  /\ up[s]
  /\ up' = [up EXCEPT ![s] = FALSE]
  /\ channel' = [channel EXCEPT ![s][Parent[s]] = <<>>, ![Parent[s]][s] = <<>>]
  /\ UNCHANGED <<standing, log, heard>>

\* Parties come and go as ChatConnection says.
Move(u) ==
  /\ \/ standing[u] = "away" /\ standing' = [standing EXCEPT ![u] = "member"]
     \/ standing[u] = "member"
        /\ standing' = [standing EXCEPT ![u] = "loggedOut"]
     \/ standing[u] # "away" /\ standing' = [standing EXCEPT ![u] = "away"]
  /\ UNCHANGED <<up, channel, log, heard>>

Next ==
  \/ \E u \in Units, kind \in Kinds : ParseMessage(u, kind)
  \/ \E s, t \in Servers : ParseExternalMessage(s, t)
  \/ \E s \in Servers : LinkUp(s) \/ LinkDown(s)
  \/ \E u \in Units : Move(u)

Spec == Init /\ [][Next]_vars

\* A server reads what arrives on its links.  Nothing is assumed of links and
\* parties.
Fairness == \A s, t \in Servers : WF_vars(ParseExternalMessage(s, t))

FairSpec == Spec /\ Fairness

-----------------------------------------------------------------------------
(* Properties. *)

TypeOK ==
  /\ standing \in [Units -> {"away", "member", "loggedOut"}]
  /\ up \in [Servers -> BOOLEAN]
  /\ \A s \in Servers : up[s] => Parent[s] # None
  /\ channel \in [Servers -> [Servers -> Seq(Copies)]]
  /\ log \in Seq(Posts)
  /\ heard \in [Units -> Seq(1..MaxMessages)]

HasHeard(u, k) == \E i \in 1..Len(heard[u]) : heard[u][i] = k

\* Whom the sender of m addresses, whatever the room.
Audience ==
  [m \in Posts |->
     IF m.kind \in Broadcasts
     THEN {u \in Units : Name[u] # Name[m.from]
                          /\ ActorType[u] \in ExternalTypes(m)}
     ELSE {u \in Units : Name[u] = m.kind}]

B == INSTANCE Broadcast WITH
       Units <- Units, Posts <- Posts, Audience <- Audience,
       log <- log, heard <- heard

\* The servers keep the promise of Broadcast: every message is heard by its
\* audience only, and by no unit twice -- although every server passes it on
\* to all its neighbours and the links carry echoes.
KeepsPromise == B!Spec

(* The frontier of a message: the copies that the receiving server will not *)
(* drop.                                                                    *)
Edge(s, t) == Parent[s] = t \/ Parent[t] = s

\* The servers on t's side of the link between s and t.
Beyond(s, t) == IF Parent[s] = t THEN Servers \ Below[s] ELSE Below[t]

Fresh(s, t, i) == ServerId[t] \notin channel[s][t][i].path

\* Copies are on links, have passed the sending server, and are of messages
\* that were sent, as are the messages heard.
CopiesOnLinks ==
  /\ \A s, t \in Servers : \A i \in 1..Len(channel[s][t]) :
       /\ Edge(s, t)
       /\ ServerId[s] \in channel[s][t][i].path
       /\ channel[s][t][i].id <= Len(log)
  /\ \A u \in Units : \A i \in 1..Len(heard[u]) : heard[u][i] <= Len(log)

\* Nobody beyond a fresh copy has heard the message.
NewsAhead ==
  \A s, t \in Servers : \A i \in 1..Len(channel[s][t]) : \A u \in Units :
    Fresh(s, t, i) /\ Home[u] \in Beyond(s, t)
      => ~HasHeard(u, channel[s][t][i].id)

\* Two fresh copies of a message head for different parts of the tree.
FreshApart ==
  \A s, t, s2, t2 \in Servers :
    \A i \in 1..Len(channel[s][t]), j \in 1..Len(channel[s2][t2]) :
      /\ Fresh(s, t, i) /\ Fresh(s2, t2, j)
      /\ channel[s][t][i].id = channel[s2][t2][j].id
      /\ <<s, t, i>> # <<s2, t2, j>>
      => Beyond(s, t) \cap Beyond(s2, t2) = {}

\* The copies that will be relayed cut the tree into what a message has
\* reached and, for each of them, a part of its own that it has not.
Frontier == CopiesOnLinks /\ NewsAhead /\ FreshApart

\* No unit is given the same message twice.
HeardOnce ==
  \A u \in Units : \A i, j \in 1..Len(heard[u]) :
    heard[u][i] = heard[u][j] => i = j

\* Messages of one sender arrive in the order they were sent.
HeardInOrder ==
  \A u \in Units : \A i, j \in 1..Len(heard[u]) :
    i < j /\ log[heard[u][i]].from = log[heard[u][j]].from
      => heard[u][i] < heard[u][j]

\* Why: of the messages of one sender, a copy that will be relayed
\* is behind everything that was heard where it heads for, ...
HeardEarlier ==
  \A x, y \in Servers : \A i \in 1..Len(channel[x][y]) :
    \A u \in Units : \A n \in 1..Len(heard[u]) :
      /\ Fresh(x, y, i) /\ Home[u] \in Beyond(x, y)
      /\ log[heard[u][n]].from = log[channel[x][y][i].id].from
      => heard[u][n] < channel[x][y][i].id

\* ... behind those ahead of it on its link, ...
LinkInOrder ==
  \A x, y \in Servers : \A i, j \in 1..Len(channel[x][y]) :
    /\ i < j /\ Fresh(x, y, i) /\ Fresh(x, y, j)
    /\ log[channel[x][y][i].id].from = log[channel[x][y][j].id].from
    => channel[x][y][i].id < channel[x][y][j].id

\* ... and on the links it heads for, ...
AheadEarlier ==
  \A x, y, x2, y2 \in Servers :
    \A i \in 1..Len(channel[x][y]), j \in 1..Len(channel[x2][y2]) :
      /\ <<x, y>> # <<x2, y2>> /\ y2 \in Beyond(x, y)
      /\ Fresh(x, y, i) /\ Fresh(x2, y2, j)
      /\ log[channel[x][y][i].id].from = log[channel[x2][y2][j].id].from
      => channel[x2][y2][j].id < channel[x][y][i].id

\* ... and heads away from the sender.
AwayFromHome ==
  \A x, y \in Servers : \A i \in 1..Len(channel[x][y]) :
    Fresh(x, y, i) => Home[log[channel[x][y][i].id].from] \notin Beyond(x, y)

\* No copy overtakes an earlier one of its sender, on whatever links they are.
NoOvertaking ==
  /\ HeardEarlier
  /\ LinkInOrder
  /\ AheadEarlier
  /\ AwayFromHome

\* Isolation: what names its sender's room is heard in that room only, be it a
\* broadcast that another server has relayed or a one-to-one message.
Isolated ==
  \A u \in Units : \A i \in 1..Len(heard[u]) :
    LET m == log[heard[u][i]]
    IN  m.room # None => m.room = Room(u)

AllLinked == \A s \in Servers : Parent[s] # None => up[s]

Expected(u, k) ==
  /\ k \in 1..Len(log)
  /\ log[k].kind \in Broadcasts
  /\ log[k].room = Room(u)
  /\ Name[u] # Name[log[k].from]
  /\ ActorType[u] \in LocalTypes(log[k])

\* Coverage: while no link of the tree fails and a unit stays in its room, it
\* hears every broadcast to the room from wherever in the tree.
EverybodyHears ==
  \A u \in Units, k \in 1..MaxMessages :
    [](AllLinked /\ standing[u] = "member")
      => (Expected(u, k) ~> HasHeard(u, k))
=============================================================================
