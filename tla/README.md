# A TLA+ model of the DroneEngage communication server

The communication server connects drones ("agents") and ground control
stations ("GCS") through web sockets. Parties log in with a temporary key that
the AUTH server hands out, are put in the *room* of their account and group,
and send each other messages. Servers can be linked in a tree ("super server"
and "local server"), over which broadcasts travel. The server also opens UDP
proxies for drones and asks a storage server for tasks, missions and news.

This directory holds a model of that program, the runs that model-check it with
TLC, and theorems about it checked by TLAPS. `PROJECT.json` maps every
definition to the lines it models and lists runs, mutants, findings, hazards
and theorems. Paths below are relative to `src/src/comm_server/`.

## 1. Inventory

Node runs one callback at a time and each callback to its end. There are no
threads and hardly an `await` on the paths of interest: what interleaves are
*callbacks* -- connections, frames, timers, `close` events, answers of other
servers -- and, between servers, messages on their links.

| Component (source) | State | Operations | Interacts with |
|---|---|---|---|
| Party connections (`chat_server/js_chat_connection.js`) | per socket: `m_authPending`, `m_loginRequest`, `name`, `m__group`, `m__terminated`, an 8 s timer | connect, auth frame, timeout, accept, `close` | all registries below; INFO card |
| Rooms (`chat_server/js_andruav_chat_account_rooms.js`) | `c_accounts` -> `m_groups` -> `m_units` -> socket | add, remove by socket (logout), remove by name (take-over, `close`), send to one/GCS/agents/all | sockets (`m__group` points back) |
| Active senders (`chat_server/js_andruav_active_senders.js`) | sender id -> socket, over all accounts | add, delete, look up | one-to-one relay, reaper |
| Login keys (`js_andruav_comm_server.js`) | `m_waitingAccounts`, a 10 s timer per key | issue, use, expire; INFO card | AUTH link, party connections |
| Routing (`chat_server/js_chat_routing.js`) | none | message of a party, message of another server | rooms, relay, system commands |
| Relay (`chat_server/js_chat_relay.js`, `server_to_server/js_parent_comm_server.js`, `js_child_comm_server.js`) | links to children and to the parent; `_path`, `_aid`, `_gid` in messages | forward, forward external, connect, lose, reconnect after 10 s | routing on the neighbour servers |
| Server-to-server handshake (`js_s2s_auth.js`, the two transports) | nonce, `m_s2s_authed`, 8 s timer; the cached keys | challenge, response, verification, timeout, gate | relay, AUTH link, storage client |
| Storage client (`server_to_server/js_db_proxy_client.js`) | connection state, pending requests by id, heartbeat, reconnect timer | connect, authenticate, request, answer, time out, lose, back off | tasks, news, server queries |
| Tasks, news, queries (`chat_server/js_chat_tasks.js`, `js_chat_news.js`, `js_chat_query_server.js`) | none of their own | load, save, delete, enable; push to GCS | storage client, rooms, relay |
| UDP proxies (`js_udp_proxy.js`) | `m_activeUdpProxy` by unit name; per socket ready/port/last use | open, reuse, refresh, close, bind outcome, health check, resume recovery, reaper, block | system commands, `close` event, active senders, AUTH link |
| AUTH link (`js_comm_server_manager_client.js`) | socket, queue, handshake | send, queue, flush, reconnect | login keys, INFO card |
| Plug-ins, bootstrap, constants, `js_andruavTasks_v2.js` | -- | -- | no protocol state; of the last one only the pool of database connections is opened (section 11) |

Where it is hard, component by component, and what makes it correct:

* **Party connections and rooms.** Four registries under different keys (account,
  group, name; sender id alone; unit name; key) must agree with the sockets.
  A take-over terminates the old socket, whose `close` event comes *after* the
  new one is registered under the same name, and cleans up *by name*. A logout
  leaves the socket open. A socket whose peer has left is in all registries
  until its `close` event, up to 30 s later. A group and an account disappear
  with their last unit, possibly in the middle of a login. Correct: the registries agree, a
  connected party is in its room, the late `close` of one socket does not tear
  down another one, a key admits one socket, strangers do not stay.
* **Routing and relay.** Every server passes a broadcast on to all its
  neighbours, and what came from the parent goes back to the parent as an echo.
  The only protection is `_path`. Correct: nobody hears a message twice, only
  the audience hears it, messages of one sender stay in order, everybody in the
  room hears a broadcast while the links work, rooms are isolated.
* **Handshake.** A gate in front of each link; a child that forwards before it
  has answered the challenge fails it. Correct: nothing unauthenticated is
  routed; an honest child gets through.
* **Storage client.** A request is settled by its answer, its timeout, or the
  loss of the connection -- exactly once; status and timers of an old socket
  must not touch the new one.
* **UDP proxies.** Binds fail, other processes take ports, a unit sends several
  requests in one chunk, leaves without its proxy being closed, the machine
  resumes from suspend. Correct: no socket is leaked, the ports a unit was told
  stay, every request is answered, a block survives a recreation, and no proxy
  stays for ever without its unit.
* **AUTH link.** What is queued while the link is down follows the fresh INFO
  card when it is back. Correct: the last card sent is the newest.

`PROJECT.json` lists these hazards at their lines ("hazards"), with the
properties that cover them or a note why none does.

## 2. Plan

| # | Module | Models | Status |
|---|---|---|---|
| 1 | `ChatConnection`, `MCChatConnection`, `ChatConnectionProofs`, `ChatSessionsProofs` | connections, rooms, active senders, keys, proxy registry, INFO card | written, checked; 10 theorems, all safety proved |
| 2 | `Broadcast` | abstract: what message delivery promises | written |
| 3 | `Relay`, `MCRelay`, `RelayProofs`, `RelayOrderProofs` | routing and relay over a forest of servers; implements `Broadcast` | written, checked; 6 theorems, all safety proved |
| 4 | `S2SLink` | abstract: what a link between two servers promises | written |
|   | `S2SHandshake`, `MCS2SHandshake`, `S2SHandshakeProofs` | challenge, response, timer, gate, reconnection; implements `S2SLink` | written, checked; 3 theorems, all safety proved |
| 5 | `DBProxy`, `MCDBProxy`, `DBProxyProofs` | storage client with handshake, pending requests, timeouts, heartbeat; replies to the senders of task, mission and news commands; the server query | written, checked; 5 theorems |
| 6 | `UdpProxy`, `MCUdpProxy`, `UdpProxyProofs` | open, bind, reuse, close, resume recovery, reaper, blocking | written, checked; 6 theorems |
| 7 | `AuthLink`, `MCAuthLink`, `AuthLinkProofs` | handshake, queue, flush, reconnect, the order of INFO cards | written, checked; 3 theorems |

Composition: `Relay` uses of `ChatConnection` what it guarantees -- one
connection per sender id on a server, a room exists if it has a member -- as an
assumption and as the action `Move`. Its `LinkUp` and `LinkDown` stand for what
`S2SHandshake` does in detail, and `S2SLink` is what `Relay` may expect of a
link. `UdpProxy` is the inside of the registry `udpProxies` of `ChatConnection`;
`AuthLink` carries the `infoCard` of `ChatConnection` and the `authView` of
`DBProxy`.

Left to prove: nothing that is within the prover's reach and that a passing run
checks; what remains with TLC is liveness (section 9). Left to model: the fan-out
of news (section 11).

## 3. `ChatConnection`: the life of a party's socket

**State.** The variables carry the names of the code: `m_waitingAccounts` is
`waiting` (and `issued` remembers which uuids are used up); of each socket
`readyState`, `m_authPending`, `m_loginRequest`, `name`, `m__group`,
`m__terminated`; the rooms `m_units`, `m_groups`, `c_accounts`; the active
senders `activeSenders`; the registry of UDP proxies `udpProxies`; and
`infoCard`, what the AUTH server was last told. `loggedOut` is a history
variable that no action reads. A sender id that a party leaves out is `None`:
JavaScript uses `undefined` as a key like any other.

**Actions**, one per callback: `LoginRequest` and `LoginTimeout` (keys);
`ConnectForFrame`, `ConnectWithQuery`, `RejectQuery`, `AuthFrame`,
`AuthTimeout` (getting in, with `AcceptConnection` for what `_acceptConnection`
does: register the sender, throw out whoever has the name in the account, join);
`Logout`, `UdpOpen`, `UdpClose` (system messages), `UdpBound` (the outcome of
a bind) and `Reap`; `PeerLeaves` (the peer closes, ends or breaks the connection);
`Close` (the `close` event, quiet for strangers and for sockets marked
`m__terminated`, by-name cleanup for all others).

**Closing takes time.** Whoever begins to close, `ws` sets `readyState` to CLOSING
first and emits `close` later: until then the socket stays a member of its room,
an active sender and the keeper of its account. `Live` sockets are those that are
OPEN or CLOSING. In this window a name may be taken over, timers fire, frames
that came before are handled -- also the auth frame, which `ws` inflates
asynchronously when `ws_compression` is on, so that a party may be accepted
whose socket is closing: `_acceptConnection` does not look. This is why
`fn_sendTIndividualId` and the UDP proxies test `readyState === 1`; to a closing
member of a room `fn_broadcast` sends in vain.

**What is abstracted.** A group object is identified with its account and group
id. Idle times are left out: the reaper may look at a proxy any time. The
logout notification to the AUTH server changes no state here. What made a
socket close is forgotten: frames that came before may be handled until its
`close` event, whichever side began. `fn_handleOrphanSocket` is not an action: it runs when `send`
throws, and `ws` (^8.16, `package.json`) does not throw from `send` on a socket
that is not open. Health checks and recovery of UDP proxies are in `UdpProxy`.

**Runs**

| Run | Instance | Shows |
|---|---|---|
| `sessions` | 3 sockets, 3 keys, 2 accounts, 2 groups, names u1 (account a1 only) and u2 (both), a party without id; ~454,000 states | all invariants and action properties below |
| `local_sessions` | 3 sockets, local mode without AUTH server and without query strings, with fairness; ~245,000 states | chains of take-overs of one name, each with a late `close`: `StrangersLeave` (`RoomsAgree` is proved for local mode too) |
| `stale_close` | 2 sockets | a disagreement between a comment and the code, see section 10 |

Two sockets are needed for a take-over and a third for what happens to it
meanwhile; two accounts for a shared sender id; two groups for a unit that
changes group; three keys so that every socket can be admitted. Sockets, keys
and groups are symmetric in `sessions`, and not in `local_sessions`, which checks
liveness.
Deadlock is not checked: when every socket has lived its life, the model stops.

**Properties.** `RoomsAgree` (rooms hold fully initialised sockets that were not
evicted, point back to them and whose `close` event is still to come; no empty
group; one unit per name and account), `MemberIsActive` and `NoDanglingSender`
(sender ids lead to the right socket, neither evicted nor closed), `KeyUsedOnce`,
`NoLeakedAccount` (an account has a party whose `close` event will clean up),
`InfoCardCovers`, `PartiesStay` (a
connected party that gave its id is in its room until it logs out or is
replaced), `CloseSparesOthers` (a `close` event changes nothing of any other
unit in a room), `NamedPartyJoins`, and `StrangersLeave`.

**Fairness.** Timers fire (`LoginTimeout`, `AuthTimeout`), and a socket that is
closing gets its `close` event: `ws` destroys it itself 30 s after the closing
handshake began when the peer does not finish it. Nothing is assumed of parties or of the
AUTH server.

**Proofs** (`ChatConnectionProofs`, for any sets of sockets, accounts, groups,
names and keys, from the named assumptions of the module):

* `TypeCorrect`: `Spec => []TypeOK`.
* `RoomsAlwaysAgree`: `Spec => []RoomsAgree`. `RoomsAgree` is not inductive:
  accepting a socket presumes that it has left no trace in the rooms yet. The
  inductive invariant is `RoomsInv == TypeOK /\ RoomsAgree /\ OutsidersApart`.
  The lemmas on `UnitsWithout`, `Victims` and `GroupsWithout` say what by-name
  removal leaves; `AcceptConnectionRooms`, `CleanUpRooms` and `LogoutRooms`
  handle the three operations that change rooms, the other steps only touch
  ready states (`ReadyOnlyRooms`: a peer that leaves takes nobody out of a room)
  or nothing at all.
* `PartiesAlwaysStay`: `Spec => []PartiesStay`, from `RoomsInv /\ PartiesStay`.
* `CloseSparesTheReplacement`: `Spec => CloseSparesOthers`. A `close` event that
  cleans up finds, by `PartiesStay`, its own socket as the only one of its name
  in the account; with one account per sender id nothing else is touched.

What relates the rooms to the other registries is proved in
`ChatSessionsProofs`: `KeysAreUsedOnce`, `SendersNeverDangle`,
`MembersAreActive`, `AccountsDoNotLeak`, `CardAlwaysCovers` and `NamedPartiesJoin`,
each for the property it is named after. None of these is inductive alone, and
they need each other, so there is one invariant, `SessionsInv`: the properties,
`PartiesInv` from above, and two facts:

* `NamelessStay` -- the unit of a party without sender id is never removed: the
  removal by name does not reach it. This is the other half of
  `NoLeakedAccount`, which allows such a unit to keep its account.
* `KeysIssued` -- keys that wait or were used have been issued. A key is new
  when it is issued, so it cannot be one that a socket has used.

`EntersEffect` and `LeavesEffect` state once what a login and a departure do to
all registries at once; the steps for the single properties are derived from
these and do not open the definitions of the handlers again.

## 4. `Relay` and `Broadcast`: messages through the tree

**Abstract.** `Broadcast` has a `log` of messages and for each unit what it
`heard`. Somebody posts a message and some of its audience hear it; later,
others of the audience hear it who have not heard it yet. It promises nothing
about losses.

**State of `Relay`.** The tree is constant: `Parent` is each server's
`s2s_ws_target`, `Below` its subtree. `standing` says of each unit if it is
away, a member of its room, or logged out with its socket still open; `up` if
the link to the parent works; `channel[s][t]` is the TCP stream from `s` to
`t`. A copy of a message carries its `_path` (a set of server ids: the code
only asks for membership). `log` and `heard` are as in `Broadcast`.

**Actions.** `ParseMessage` (`fn_parseMessage`: local delivery, then
`forwardMessage`; one-to-one messages are forwarded only if the target is not
in the room here), `ParseExternalMessage` (`fn_parseExternalMessage`: drop what
this server has passed, deliver in `Scope` or to one unit, forward broadcasts),
`LinkUp`, `LinkDown` (everything on its way is lost), `Move`.

The different rules for local and relayed messages are kept apart, as in the
code: `LocalTypes` and `ExternalTypes` for actor types, `Members` and `Scope`
for rooms, `IndividualHere` for `fn_sendTIndividualId` with its comparison of
possibly absent groups.

**What is abstracted.** Payloads and binary framing. Parties do not forge
`_path` and `sd`. A server id is configured once. A party keeps its server (`Home`): one that
reconnects to another server is a new listener, who may hear there what was heard
before, since no server remembers what it delivered. A party is a listener while
it is in its room; in the time between its leaving and its `close` event
(section 3) it is still addressed, and `EverybodyHears` promises nothing to those
who do not stay. A link counts as up when the
handshake is done (`S2SHandshake`; `LinkUp` merges the two instants at which its
two directions come into use), and both ends lose it together: a
stream that is half open on one side only loses what is sent into it, which
`LinkDown` covers; data read from a connection that the other side has already
replaced, 10 s later, is left out. Excluding the source child from forwarding
saves an echo and is modelled, but correctness does not rest on it.

**Runs**

| Run | Instance | Shows |
|---|---|---|
| `relay` | root with children left and right, leaf under left; units on root, leaf, right; all kinds; 1 message; fair readers; ~78,000 states | `KeepsPromise` (implements `Broadcast`), `Frontier`, `HeardOnce`, `EverybodyHears` |
| `relay_order` | chain of 3 servers, 2 units, 3 messages; ~412,000 states | `HeardInOrder`, `NoOvertaking`, types |
| `relay_isolation` | 2 servers, broadcasts and one-to-one messages | see section 10 |

The tree has a path of length three with a branch, so that copies go up, down
and sideways and echoes meet messages that are still spreading. Messages do not
interact except by their order on a link, so one is enough for delivery; three
on a chain let a link fail between two of them. `MaxMessages` is the only bound.
The runs do not check for deadlock: parties may stop sending.

**Fairness.** A server reads what has arrived (`ParseExternalMessage`), which is
Node's event loop. `EverybodyHears` assumes of the links that they all stay up
and of the listener that it stays in its room; it says nothing otherwise.

**Proofs** (`RelayProofs`, for any forest, any parties, any number of messages):

* `RelayTypeCorrect`, `FrontierHolds`, `NobodyHearsTwice`, and
  `RelayKeepsPromise`: `Spec => B!Spec`.
* That nobody hears twice is not inductive. What makes it true is a fact about
  the *fresh* copies -- those the receiver will not drop. Each heads for the
  part of the tree beyond its link (`Beyond`), where nobody has heard the
  message (`NewsAhead`), and these parts are disjoint for different copies
  (`FreshApart`). The inductive invariant is
  `RelayInv == TypeOK /\ Frontier /\ HeardOnce`.
* `LinkEnds`, `LinkNext` and `LinksPart` are the geometry: when `t` takes a
  copy from `s` and sends it on to `w`, then what is beyond `w` is part of what
  was beyond `t`, without `t` itself, and the parts for different neighbours
  are disjoint. The echo to `s` is not fresh, since `s` is on the path.
  `FrontierQuiet` handles steps that only remove copies, `FrontierStep` those
  where one server passes a message on; `PostStep`, `DropStep` and `SpreadStep`
  instantiate them. `SpreadStep` also yields what the refinement needs.

* The order of messages is proved in `RelayOrderProofs`: `NothingOvertakes` and
  `EverybodyHearsInOrder`. That units hear in order does not follow from the order
  of each link, since a later message could take another way. It follows from
  what fresh copies of one sender's messages have in common, `NoOvertaking`: a
  copy is newer than what is heard beyond its link (`HeardEarlier`), than
  the fresh copies ahead of it on its link (`LinkInOrder`) and than those on the
  links it heads for (`AheadEarlier`), and it heads away from its sender's
  server (`AwayFromHome`) -- so a copy that the sender's server lets go later
  cannot be in front of it. The inductive invariant is
  `OrderInv == RelayInv /\ NoOvertaking /\ HeardInOrder`. The lemma `Crossing` is
  the geometry behind it: a part of the tree that hangs on one link is entered by
  that link only.
* The assumption `ForestAssumption` says of `Below` that it is the subtree: the
  server itself, the disjoint subtrees of its children, and nothing else. Each
  server has one `s2s_ws_target`, so what is configured is a forest unless it is
  a cycle, in which no server is the root; cycles are excluded.

`EverybodyHears` is model-checked only, because liveness is out of this prover's
reach.

## 5. `DBProxy`: the storage server

**State.** The module variables of `js_db_proxy_client.js`: `ws` is `m_ws` with
its ready state, `m_authenticated`, `m_connectionState` (the short codes of
`js_constants.js`), the timers as "is it running", `m_lastSentStorageStatus`,
and the table `m_pendingRequests` with `timeouts`. `kind` and `reply` say of
each request which command it was and what its sender heard: `done` (a result or
"Done"), `error`, `offline` ("not connected"), `silent` (the handler returned).
`authView` is what the AUTH server has been told on its present connection, or
has waiting in the queue for it. Outside the program: `handshake` (how far the
handshake of this connection is), `asked` and `answers` (what is under way), and
`performed` and `refused` (what the storage server did).

**Actions.** The four socket events `OnOpen`, `OnChallenge`/`OnAuthSuccess`/
`OnAnswer` (the branches of `fn_onMessage`), `OnError`, `OnClose`; the timers
`AuthTimer` (2 s), `RequestTimeout` (10 s), `Heartbeat` (30 s), `Reconnect`;
`Command` (a task, mission or news command with `fn_sendRequest`);
`AuthReconnects` (the AUTH link loses its queue and comes back with an INFO card
that has no storage status). Promise handlers run before the next callback and
are part of the action that settles the promise. `TaskReply`, `MissionReply` and
`NewsReply` are what the `then` handlers make of an answer; they differ: the
deletion of a mission or of news does not look at `success`, and `SaveNews`
reads `ms.newsId`, which throws if `ms` is missing, so that the `catch` reports an
error. The server query has no state and is the operator `QueryReply`.

The storage server is external: it challenges, at once or late, or trusts
everybody; it does or refuses what it is asked, or does not answer. What it sends
may arrive in any order, which is more than a web socket allows.

**What is abstracted.** The contents of commands, answers and tasks. The length
of delays: `ScheduleReconnect` is the back-off without its attempt counter.
Commands that lack their unit, account or news id are dropped by the handlers and
change nothing. `fn_connect` to another endpoint has no caller, and
`fn_initialize` runs once. The `catch` around `m_ws.send` in `fn_sendRequest` is
unreachable, since `ws` throws only before the socket is open. After an
`error` the socket is closing already (`ws` closes it before it emits the
event). An AUTH server is configured (`ignore_auth_server` is off).

**Runs**

| Run | Instance | Shows |
|---|---|---|
| `db_proxy` | 2 requests, each any of `LoadTasks`, `SaveMission`, `SaveNews`, `DeleteNews`; any number of connections; ~135,000 states | all properties below |
| `storage_status` | the same | the heartbeat does not tell a new AUTH connection, section 10 |

Two requests are enough for one to be answered while another is pending, late
or refused; the four kinds are the four ways to treat an answer that lacks its
body or its success. Nothing is bounded: the state space is finite since a new
connection starts from where the first did. Deadlock is checked.

**Properties.** `StatusIsTrue` (the query does not contradict itself; the status
told to AUTH, trust, and heartbeat are those of this connection),
`TrustIsEarned` (after a challenge only `auth_success` makes the client trust
the link), `RequestsCovered` (what was forwarded and not replied to is pending,
with its timer, on its own connection), `RepliesAreTrue` (what senders hear is
what happened, with the exception of the two unchecked deletions),
`RequestsSettle` and `LinkRetries`.

**Fairness.** Timers fire, and a closing socket gets its `close` event. Nothing
is assumed of the network, the storage server or AUTH.

**Proofs** (`DBProxyProofs`, for any set of requests and any kinds):
`DBProxyTypeCorrect`, `StatusAlwaysTrue`, `TrustAlwaysEarned`,
`RequestsAlwaysCovered`, `RepliesAlwaysTrue`. The first invariant is
`LinkInv == TypeOK /\ StatusIsTrue /\ TimersBelong`: that status and trust
belong to this connection needs that a reconnection is scheduled only when the
old socket has gone and that the 2 s timer does not run after a challenge. The
second, `CallsInv == RequestsCovered /\ TracesAreTrue /\ RepliesAreTrue`, is
inductive together with the first: an answer on its way says what the storage
server did, and a request id that was never used is unknown to it. There is a
lemma for each step that changes requests (`CallsCommand`, `CallsAnswer`,
`CallsTimeout`, `CallsClose`, `CallsStorage`), and `CallsUntouched` and
`LinkUntouched` for those that do not.

## 6. `S2SHandshake` and `S2SLink`: getting a link, and what it is worth

**Abstract.** `S2SLink` describes one direction of a link: it is opened empty;
while it is linked, what is sent is queued and delivered in order and once; when
it fails, the end of the queue is lost, and nothing is queued until it is opened
again.

**State.** Of a child: `parentWs` (null, connecting or open), its present
connection `conn`, and whether the 10 s timer of the next attempt is running
(`reconnect`). Of the parent: the socket `child_ws` of each connection with
`m_s2s_authed` and its 8 s timer, and whether the public keys are cached
(`m_publicKeys`). Of the network: `wire` ("up"; "closed" when one end has torn it
down; "cut" when it is gone without either end being told) and the two streams.
`posts`, `taken`, `heard` and `answered` are history; `answered` is used by no
guard.

**Actions**, one per callback: `Accept` (the `connection` event with the
challenge), `ParentMessage` (with `Gate` in front), `AuthTimeout`, `ParentClose`,
`ParentForward`; `Connect`, `OnOpen`, `OnReceive` (a challenge or a relayed
message), `ChildForward`, `ChildClose`; and `Break` (a cut at any point of the
two streams) and `ParentRestart`. Messages that arrived before `terminate()` are
still read after it, as `ws` does with what it has buffered. `LoadedKeys` and
`Verifies` model the key cache with its flaw: the map is stored before it is
filled, so that a file that cannot be read throws once and leaves the keys behind
it unknown.

**What is abstracted.** A signature is good if the child's private key belongs to
the public key filed under its id; nonces do not repeat. Ten seconds are enough
for the parent to have read what arrived on the child's last connection. A
connection that both ends have closed is used again, so that the state space is
finite.

**Run** `handshake` (~180,000 states): an honest child and one that signs with an
unknown key, an unreadable key file behind theirs, 2 connections, 2 messages
(`MaxPosts`), at most one connection cut and still open at an end (`MaxCut`), any
number of attempts and restarts. Two messages show loss of the second without
the first and a change of order; two connections let the children compete and an
old connection overlap with a new one. Deadlock is checked.

* `GateHolds`: messages pass, in either direction, only for a child that can show
  a key of the configuration.
* `KeepsLinkPromise`: both directions of every child implement `S2SLink`. The
  upward direction is linked from the child's answer (what it sends next will be
  taken), the downward one from the parent's acceptance.
* `StrangersLeave`: a socket passes or is closed, also when it is cut before it
  says anything.
* `HonestGetsThrough`: a child with a good key gets its link and keeps it, unless
  it is in `Trouble` again and again or waits for ever on a connection that was
  cut (`Unaware`).

**Fairness.** Arrived frames are read, timers fire, `close` comes when the other
end has torn the connection down, attempts are made. Nothing is assumed of a
connection that was cut: neither end sends pings.

**Proofs** (`S2SHandshakeProofs`, for any children, connections and key files):
`TypeCorrect`, `GateIsKept` and `LinkKeepsPromise`. `GateHolds` alone does not say
what is on its way. The inductive invariant ties each connection to one child
(`OneOwner`, `Attached`, `Accepted`), says that what an end has closed it has
forgotten (`ParentForgets`, `ChildForgets`), so that nothing is inherited by the
next user of a connection, and (`Proven`) that only a trustworthy child has an
authenticated socket or relayed messages on their way to it.

`LinkKeepsPromise` is the refinement, `Spec => L!Spec`. The state of `S2SLink` is
read off the streams: what is queued for a child is what follows the challenge
(`DataOf`), what is queued for the parent is what follows the answer
(`AfterAnswer`) until the parent has accepted it, and all of it from then on. A step
therefore moves the boundary between what counts and what does not without
anything being sent, and the proof has to know where it is: `LinkInv` adds to
the invariant that the challenge is the first frame down and comes once, that
there is at most one answer on its way up, that there is one if the child has
answered on a connection that is up and not accepted yet, and that until then
nothing waits for the child (`Handshake`). The lemmas on streams
(`DataAppend` to `AnswerCut`) say what writing, reading and cutting a stream does
to the part that counts; there is one lemma per action (`...Keeps`), which shows
for every child that the invariant is kept and that each direction opens, sends,
delivers, fails or stays; `UntouchedKept` disposes of the children that the action
is not about.

## 7. `UdpProxy`: ports

**State.** `m_activeUdpProxy`: by unit, the entry with the two ports it remembers
(`socket_port`), its block, and of its proxy the ports, the outcome of each bind,
`_blocked` (`drops`) and what its callback was given to do -- answer a new
request, answer after a refresh, or report a failed health check. `holder`: who
has each port of the host. `suspended`: has the host slept since the last tick
of the reaper. `told` and `asking`: what the unit heard last, and if it waits for
an answer.

**Actions.** `RequestOpen` (`getUDPSocket`: `OpenProxy` after closing one with
other ports, `KeepProxy`, `RefreshProxy`), `RequestClose`; `Listening`,
`AddressInUse`, `BindError` (the outcomes of a bind, with the `Callback` of the
second one that is reported); `ReaperTick`; `SetBlocked`; `LogIn`, `Leave`,
`OnClose`; `Packet`, `GoIdle`, `Suspend`, `OtherProcess`.

**What is abstracted.** Binding to a numeric address is done on Node's
`nextTick` queue, before any other event: between a request and the outcome of its
binds only further messages of the same chunk of data are handled (`Turn`,
`Quiet`, `chunk`). A resume recovery is followed in the same tick by the health
check, which recreates every proxy once more, as none is bound yet; the model
recreates once. Kernel buffers and addresses are left out. Messages of a
connection that was replaced, still unread when it was terminated, are in
`ChatConnection`. A party without sender id uses the key `undefined`
(`unnamed`); one such party at a time is connected here. `fn_handleOrphanSocket`
is unreachable (section 3), so it is no source of orphans; the `close` event of an
unnamed party is. A unit is identified with its name: two accounts that share
a sender id share one entry of `m_activeUdpProxy`, so that each of them closes or
replaces the proxy of the other, which the module does not show (see section 10).

**Runs.** `udp_proxy`: one unit, named or not, 3 ports of which 2 are shared with
other processes, requests for any ports and for fixed ones; ~100,000 states,
nothing is bounded. Units only interact through ports, which the other
processes also take; two units are beyond 5 million states, and the proofs hold
for any number. `proxy_told_closed`: the same instance, section 10.

* `PortsAccountedFor`: a port of this process is that of exactly one ready socket
  of a registered proxy.
* `ToldTrue`: the ports a connected unit was told are those of its proxy, also
  after the reaper has recreated it.
* `BlockHolds`: a proxy drops packets exactly while its entry is blocked.
* `Answered`: a unit whose turn is over has its answer, unless a bind failed with
  an error other than EADDRINUSE (which is never reported) or the reaper has
  recreated the proxy since.
* `HealthRestores`, `OrphansGo`: a proxy that is not ready is repaired, and one
  without its unit is closed, unless binds fail, packets arrive or the host sleeps
  for ever. Both hold while the reaper runs.

**Fairness.** Binds end; the reaper's timer fires; five minutes pass
(strong fairness, since other callbacks come in between).

**Proofs** (`UdpProxyProofs`, for any units, ports and requests): `TypeCorrect`,
`NoLeakedPort`, `ToldPortsStay`, `BlockStays`, `RequestAnswered`. The inductive
invariant adds `PortsKept` (a port that the entry remembers is the one its
socket asks for, which is why a recreated proxy keeps the ports its unit was
told), `ToldPorts` (nobody is told port 0 for an open proxy) and `Pending` (a
request that is open has a proxy that is still binding, has failed silently, or
was recreated). `ClosePorts` and `Replaced` say what closing proxies does to the
ports; there is one lemma per action or group of actions.

## 8. `AuthLink`: the cards the AUTH server goes by

**State.** `rooms` counts the changes of the rooms, and a card is the version it
was made of; `due` is the last change that was announced. `m_ws`,
`m_messageQueue` and the 2 s `retry` timer are the client's; `wire`, `toAuth`
and `challenge` what is under way; `accepted`, `trusted` and `authCard` AUTH's.

**Actions.** `Announce` (`fn_updateServerWatchdog`: made now, sent or queued),
`ChangeSilently` (a logout, which sends no card), `Connect`, `OnOpen` (a fresh
card, then the queue), `OnChallenge` (the answer, a fresh card, the queue),
`SignFails`, `Refused`, `OnClose` (which empties the queue). AUTH is external: it
may want the handshake and then reads nothing before the answer.

**What is abstracted.** Answers to login requests, storage status and proxy lists
use the same queue; only cards are told apart. The limit of 1000 messages in
`fn_sendMessage` is without effect, because `m_ws` is set before anything is sent.

**Run** `auth_link`: `MaxChanges` = 4 changes, any number of connections; ~2,000
states. Four changes can fall before, into and after a lost connection.

* `ReadAllUpToDate`: when AUTH has read everything, it goes by a card that
  covers all that was announced -- although cards that waited follow the fresh
  one and are older, and although the ones sent before the handshake are lost.
* `CardArrives`: AUTH ends up with such a card unless the link breaks for ever or
  was cut without notice (no pings here either).

**Fairness.** Attempts are made and end, frames and `close` events are handled,
AUTH accepts and reads.

**Proofs** (`AuthLinkProofs`, for any number of changes): `TypeCorrect` and
`AuthUpToDate`. The inductive invariant says that the queue and what is under way
on an open connection both end, unless they are empty, with a card that is not
older than `due`.

## 9. What is checked how

Every property of a passing run has a mutant: a variant of a definition, next
to it in the module under a name with `Mutant_`, that makes the mistake the
property is there for (an echo not recognised, the sender not excluded, a socket
not marked as terminated, a group kept, ...), and under which TLC reports the
property violated. Safety and refinement hold by proof for all values of the
constants where a theorem is listed: that is every invariant, action property and
refinement of a passing run. Model-checked only are the liveness properties --
`StrangersLeave` (twice), `EverybodyHears`, `HonestGetsThrough`, `RequestsSettle`,
`LinkRetries`, `HealthRestores`, `OrphansGo` and `CardArrives` -- because the
prover does not reason about `ENABLED` and fairness. The four properties of
section 10 are false, and TLC shows it. The modules of the proofs use no recursive
operators.

## 10. Where code and comments disagree

| Run | What the code does |
|---|---|
| `stale_close` | A unit logs out, logs in again on a second socket under its id, and then the first socket closes: since a logout does not mark the socket, its `close` cleans up by name and tears the new connection down (`js_chat_connection.js:236`; the comment above it says that this must not happen). |
| `relay_isolation` | A relayed one-to-one message is checked against the group id but not the account (`js_andruav_chat_account_rooms.js:156`), and group ids repeat; and a relayed broadcast goes to every account of a server on which its own room has no member (`js_chat_routing.js:97`). |
| `storage_status` | The heartbeat skips a status equal to the last one sent, so after a reconnection of the AUTH link the AUTH server is never told that the storage server is connected, as long as that link stays up (`js_db_proxy_client.js:276`); `README.md:174` promises a periodic report every 30 s. |
| `proxy_told_closed` | When the health check fails to recreate a proxy, its unit is told that it is closed, but the entry stays and a later tick opens it again (`js_udp_proxy.js:391`; the comment at 338-341 speaks of a proxy closed by the reaper). |

No run is devoted to these:

* The second party of a group that gives no sender id is accepted and told so, but
  is in no group (`js_andruav_chat_account_rooms.js:304`, "this should never
  happen"). `NamedPartyJoins` speaks of named parties for this reason.
* Two accounts that use the same sender id share an active-sender entry; when one
  unit leaves, the reaper takes the other for disconnected
  (`js_udp_proxy.js:407`). They share the entry of their UDP proxy as well
  (`js_udp_proxy.js:501`).
* Relayed broadcasts are forwarded again (`js_chat_routing.js:143`), which
  `README.md:203` and `wiki/MessagePropagation.md:96` deny. `EverybodyHears`
  depends on it.
* `s2s_auth_enabled` is read nowhere, although `README.md:99` says that a parent
  server decides by it if the handshake is required (`js_s2s_auth.js:15` speaks
  of the AUTH server only).
* `getUDPSocket` starts the reaper only in the callback of a new proxy, not when
  it refreshes one: the first proxy, whose bind failed with another error than
  EADDRINUSE and which is then refreshed, is not watched.
* An unexpected bind error leaves a request without its answer even if the reaper
  opens the proxy later (the exception of `Answered`).
* A request for other ports, or a new connection, makes a new entry and with it
  lifts an administrator's block; the comment at `js_udp_proxy.js:466-468` says
  that it is lost on restart.
* After a reconnection AUTH goes back to older cards for a moment, those that were
  queued, before it reads the newest (`js_comm_server_manager_client.js:23`),
  while `js_andruav_comm_server.js:275-277` calls the exact list of keys crucial.
* The delay before a reconnection to the storage server is capped at 60 s before
  the jitter of 25 % is added (`js_db_proxy_client.js:171-177`), so it reaches
  75 s where the constant says "Max 60 seconds" (line 28).
* A message of an agent without target goes to GCS only on its own server and to
  everybody on other servers (`js_chat_routing.js:348` and `:190`), while the
  comment of both branches (`:150`) says it "cannot broadcast to another agent".
  `LocalTypes` and `ExternalTypes` state the two rules as the code has them.

## 11. Not modelled

* The fan-out of news (`fn_onNewsPush`): one callback that sends to the GCS of one
  account or of all and changes no state; what it could violate is which GCS are
  meant, and it says so in one condition.
* `js_andruavTasks_v2.js`: `js_chat_tasks.js:21` requires it when
  `ignoreLoadingTasks` is false and calls its `fn_initTasks`, which opens a
  pool of MySQL connections. Every handler returns before it reaches the store
  (`js_chat_tasks.js:140`, `224`, `280`, `336`).
* Plug-ins (third-party code), bootstrap and configuration, encryption helpers,
  message constants, logging, `ping` and `version` messages.
* `fn_removeSenderID` and what it calls: marked as not implemented, and called by
  nobody (`js_andruav_comm_server.js:44`).

## 12. Running

    tlc -workers 4 -config ChatConnection.cfg MCChatConnection.tla
    tlc -workers 4 -config Relay.cfg MCRelay.tla
    tlc -workers 4 -config DBProxy.cfg MCDBProxy.tla
    tlc -workers 4 -config S2SHandshake.cfg MCS2SHandshake.tla
    tlc -workers 4 -config UdpProxy.cfg MCUdpProxy.tla
    tlc -workers 4 -config AuthLink.cfg MCAuthLink.tla
    tlapm ChatConnectionProofs.tla
    tlapm ChatSessionsProofs.tla
    tlapm RelayProofs.tla
    tlapm RelayOrderProofs.tla
    tlapm DBProxyProofs.tla
    tlapm S2SHandshakeProofs.tla
    tlapm UdpProxyProofs.tla
    tlapm AuthLinkProofs.tla
