------------------------------- MODULE DBProxy -------------------------------
(***************************************************************************)
(* The client of the storage server (js_db_proxy_client.js) with the       *)
(* commands that use it: tasks and missions (js_chat_tasks.js), news       *)
(* (js_chat_news.js) and the server query (js_chat_query_server.js).       *)
(* One action per callback of Node; promise handlers run at the end of the *)
(* callback that settles the promise and are part of its action.           *)
(* The storage server is external: the actions Storage* are what the       *)
(* client is written against.                                              *)
(***************************************************************************)
EXTENDS Naturals, FiniteSets

CONSTANTS
  Requests,   \* request ids, fn_sendRequest makes a new one (uuid) each time
  Kinds,      \* the commands clients send
  None

TaskKinds    == {"LoadTasks", "SaveTasks", "DeleteTasks", "DisableTasks"}
MissionKinds == {"LoadMission", "SaveMission", "DeleteMission"}
NewsKinds    == {"LoadNews", "SaveNews", "DeleteNews"}

ASSUME KindsAssumption == Kinds \subseteq TaskKinds \cup MissionKinds \cup NewsKinds
ASSUME NoneAssumption ==
  None \notin Kinds \cup {"done", "error", "offline", "silent"}
                    \cup {"dc", "cg", "cd", "er"}

VARIABLES
  ws,                 \* m_ws: "null", or its readyState
  m_authenticated,
  m_connectionState,  \* "dc", "cg", "cd" or "uh", the codes of js_constants.js
  authTimer,          \* is m_s2sAuthTimer, the 2 s timer, running?
  heartbeatTimer,     \* is the 30 s interval running?
  reconnectTimer,     \* is a reconnection scheduled?
  m_lastSentStorageStatus,
  authView,           \* the status that the AUTH server has on its connection
  handshake,          \* how far the handshake of this connection has come
  asked,              \* requests on their way to the storage server
  answers,            \* answers on their way back
  m_pendingRequests,
  timeouts,           \* requests whose 10 s timer is running
  kind, reply,        \* of each request: its command, what its sender heard
  performed, refused  \* requests that the storage server has dealt with

link    == <<ws, m_authenticated, m_connectionState, authTimer,
             heartbeatTimer, reconnectTimer>>
status  == <<m_lastSentStorageStatus, authView>>
calls   == <<m_pendingRequests, timeouts, kind, reply>>
storage == <<handshake, asked, answers, performed, refused>>
vars    == <<link, status, calls, storage>>

\* An answer says success with or without the part of `ms' that the command
\* wants, or it says that the storage server has not done it.
Results == {"ok", "bare", "refused"}
Answers == [id : Requests, result : Results]

-----------------------------------------------------------------------------
(* The commands. *)

\* The end of the `then' and `catch' handlers of the task commands.
TaskReply(k, result) ==
  CASE result = "ok" -> "done"
    [] result = "bare" /\ k # "LoadTasks" -> "done"
    [] OTHER -> "silent"

Mutant_MissionReply(k, result) ==
  IF k = "LoadMission" /\ result # "ok" THEN "silent" ELSE "done"

\* ... of the mission commands: a deletion does not look at `success'.
MissionReply(k, result) ==
  CASE k = "DeleteMission" -> "done"
    [] result = "ok" -> "done"
    [] result = "bare" /\ k = "SaveMission" -> "done"
    [] OTHER -> "silent"

\* ... of the news commands: a deletion does not look at `success', and
\* SaveNews reads ms.newsId of a body that may be missing.
NewsReply(k, result) ==
  CASE k = "DeleteNews" -> "done"
    [] result = "ok" -> "done"
    [] result = "bare" /\ k = "SaveNews" -> "error"
    [] OTHER -> "silent"

ReplyTo(k, result) ==
  CASE k \in TaskKinds -> TaskReply(k, result)
    [] k \in MissionKinds -> MissionReply(k, result)
    [] OTHER -> NewsReply(k, result)

fn_isConnected == ws = "open" /\ m_authenticated

\* fn_handleQueryServer: what a unit is told about the storage server.
QueryReply == [v |-> fn_isConnected, st |-> m_connectionState]

\* fn_sendStorageStatus, forced: the AUTH link sends the status, or queues it
\* and sends it when the connection is there.
SendStorageStatus(s) ==
  /\ m_lastSentStorageStatus' = s
  /\ authView' = s

\* A promise is rejected: the `catch' of the command tells its sender.
Reject(ids) ==
  reply' = [r \in Requests |-> IF r \in ids THEN "error" ELSE reply[r]]

Mutant_fn_clearPending ==
  /\ timeouts' = timeouts \ m_pendingRequests
  /\ m_pendingRequests' = {}
  /\ UNCHANGED reply

\* The end of the connection settles what is pending.
fn_clearPending ==
  /\ Reject(m_pendingRequests)
  /\ timeouts' = timeouts \ m_pendingRequests
  /\ m_pendingRequests' = {}

Mutant_StopAuthTimer == UNCHANGED authTimer

StopAuthTimer == authTimer' = FALSE

Mutant_Disconnected ==
  ws' = "null" /\ m_connectionState' = "dc" /\ UNCHANGED m_authenticated

\* The head of fn_onClose.
Disconnected ==
  ws' = "null" /\ m_connectionState' = "dc" /\ m_authenticated' = FALSE

Mutant_ScheduleReconnect == reconnectTimer' = m_authenticated

\* The back-off is a delay like any other: how long it is, is left out.
ScheduleReconnect == reconnectTimer' = TRUE

-----------------------------------------------------------------------------
(* The link. *)

Init ==
  /\ ws = "connecting"
  /\ m_authenticated = FALSE
  /\ m_connectionState = "cg"
  /\ authTimer = FALSE /\ heartbeatTimer = FALSE /\ reconnectTimer = FALSE
  /\ m_lastSentStorageStatus = None /\ authView = None
  /\ handshake = "idle"
  /\ asked = {} /\ answers = {}
  /\ m_pendingRequests = {} /\ timeouts = {}
  /\ kind = [r \in Requests |-> None]
  /\ reply = [r \in Requests |-> None]
  /\ performed = {} /\ refused = {}

\* fn_onOpen. It leaves m_authenticated as it finds it.
OnOpen ==
  /\ ws = "connecting"
  /\ ws' = "open"
  /\ m_connectionState' = "cg"
  /\ SendStorageStatus("cg")
  /\ authTimer' = TRUE
  /\ UNCHANGED <<m_authenticated, heartbeatTimer, reconnectTimer, calls, storage>>

\* m_authenticated becomes true, the status is told, the heartbeat started.
Authenticated ==
  /\ m_authenticated' = TRUE
  /\ m_connectionState' = "cd"
  /\ SendStorageStatus("cd")
  /\ heartbeatTimer' = TRUE

\* No challenge within 2 s: assume that the storage server wants none.
AuthTimer ==
  /\ authTimer
  /\ authTimer' = FALSE
  /\ IF ~m_authenticated /\ ws = "open"
     THEN Authenticated
     ELSE UNCHANGED <<m_authenticated, m_connectionState, heartbeatTimer, status>>
  /\ UNCHANGED <<ws, reconnectTimer, calls, storage>>

\* fn_onMessage, a challenge: it is answered, or it cannot be signed and the
\* socket is closed. What is sent on a closing socket is lost.
OnChallenge ==
  /\ ws \in {"open", "closing"}
  /\ handshake = "challenge"
  /\ StopAuthTimer
  /\ \/ ws = "open" /\ handshake' = "response" /\ UNCHANGED ws
     \/ handshake' = "dead" /\ ws' = "closing"
  /\ UNCHANGED <<m_authenticated, m_connectionState, heartbeatTimer,
                 reconnectTimer, status, calls, asked, answers, performed, refused>>

\* fn_onMessage, `auth_success'.
OnAuthSuccess ==
  /\ ws \in {"open", "closing"}
  /\ handshake = "success"
  /\ handshake' = "over"
  /\ StopAuthTimer
  /\ Authenticated
  /\ UNCHANGED <<ws, reconnectTimer, calls, asked, answers, performed, refused>>

Mutant_OnError ==
  /\ ws # "null"
  /\ ws' = "closing"
  /\ m_connectionState' = "uh"
  /\ SendStorageStatus(m_connectionState')
  /\ UNCHANGED <<m_authenticated, authTimer, heartbeatTimer, reconnectTimer,
                 calls, storage>>

\* fn_onError. `ws' emits it on a socket that it is closing, or closes now.
OnError ==
  /\ ws # "null"
  /\ ws' = "closing"
  /\ m_connectionState' = "uh"
  /\ SendStorageStatus("er")
  /\ UNCHANGED <<m_authenticated, authTimer, heartbeatTimer, reconnectTimer,
                 calls, storage>>

\* fn_onClose. What was under way is lost.
OnClose ==
  /\ ws \in {"open", "closing"}
  /\ Disconnected
  /\ heartbeatTimer' = FALSE
  /\ SendStorageStatus("dc")
  /\ fn_clearPending
  /\ StopAuthTimer
  /\ ScheduleReconnect
  /\ handshake' = "idle" /\ asked' = {} /\ answers' = {}
  /\ UNCHANGED <<kind, performed, refused>>

\* fn_connectInternal, by the timer of fn_onClose.
Reconnect ==
  /\ reconnectTimer
  /\ reconnectTimer' = FALSE
  /\ ws' = "connecting"
  /\ m_connectionState' = "cg"
  /\ UNCHANGED <<m_authenticated, authTimer, heartbeatTimer, status, calls, storage>>

\* The interval of fn_startHeartbeat: nothing is sent if the status is the one
\* sent last.
Heartbeat ==
  LET s == IF m_authenticated THEN "cd" ELSE "dc"
  IN /\ heartbeatTimer
     /\ s # m_lastSentStorageStatus
     /\ SendStorageStatus(s)
     /\ UNCHANGED <<link, calls, storage>>

\* The AUTH link reconnects: its queue was emptied when it closed, and the
\* fresh INFO card does not carry the storage status.
AuthReconnects ==
  /\ authView' = None
  /\ UNCHANGED <<link, m_lastSentStorageStatus, calls, storage>>

-----------------------------------------------------------------------------
(* Requests. *)

\* A command arrives and is forwarded (fn_sendRequest), or its sender is told
\* that the storage server is not connected.
Command(r, k) ==
  /\ kind[r] = None
  /\ kind' = [kind EXCEPT ![r] = k]
  /\ IF fn_isConnected
     THEN /\ m_pendingRequests' = m_pendingRequests \cup {r}
          /\ timeouts' = timeouts \cup {r}
          /\ asked' = asked \cup {r}
          /\ UNCHANGED reply
     ELSE /\ reply' = [reply EXCEPT ![r] = "offline"]
          /\ UNCHANGED <<m_pendingRequests, timeouts, asked>>
  /\ UNCHANGED <<link, status, handshake, answers, performed, refused>>

\* fn_onMessage, an answer: it is given to the request it names, if that is
\* still pending. The closing socket still delivers what has arrived.
OnAnswer(a) ==
  /\ ws \in {"open", "closing"}
  /\ a \in answers
  /\ answers' = answers \ {a}
  /\ IF a.id \in m_pendingRequests
     THEN /\ m_pendingRequests' = m_pendingRequests \ {a.id}
          /\ timeouts' = timeouts \ {a.id}
          /\ reply' = [reply EXCEPT ![a.id] = ReplyTo(kind[a.id], a.result)]
     ELSE UNCHANGED <<m_pendingRequests, timeouts, reply>>
  /\ UNCHANGED <<link, status, kind, handshake, asked, performed, refused>>

Mutant_RequestTimeout(r) ==
  /\ r \in timeouts
  /\ timeouts' = timeouts \ {r}
  /\ Reject({r})
  /\ UNCHANGED <<link, status, m_pendingRequests, kind, storage>>

\* The 10 s timer of fn_sendRequest.
RequestTimeout(r) ==
  /\ r \in timeouts
  /\ timeouts' = timeouts \ {r}
  /\ m_pendingRequests' = m_pendingRequests \ {r}
  /\ Reject({r})
  /\ UNCHANGED <<link, status, kind, storage>>

-----------------------------------------------------------------------------
(* The storage server. *)

Trusts == handshake \in {"success", "over", "open"}

\* It challenges the client, possibly late, or trusts everybody.
StorageGreets ==
  /\ ws = "open"
  /\ handshake = "idle"
  /\ handshake' \in {"challenge", "open"}
  /\ UNCHANGED <<link, status, calls, asked, answers, performed, refused>>

StorageAccepts ==
  /\ handshake = "response"
  /\ handshake' = "success"
  /\ UNCHANGED <<link, status, calls, asked, answers, performed, refused>>

\* It does what it is asked, or refuses to, and answers ...
StoragePerforms(r) ==
  /\ r \in asked
  /\ Trusts
  /\ asked' = asked \ {r}
  /\ performed' = performed \cup {r}
  /\ \E result \in {"ok", "bare"} :
       answers' = answers \cup {[id |-> r, result |-> result]}
  /\ UNCHANGED <<link, status, calls, handshake, refused>>

StorageRefuses(r) ==
  /\ r \in asked
  /\ Trusts
  /\ asked' = asked \ {r}
  /\ refused' = refused \cup {r}
  /\ answers' = answers \cup {[id |-> r, result |-> "refused"]}
  /\ UNCHANGED <<link, status, calls, handshake, performed>>

\* ... or does not answer, as when it does not trust the client.
StorageIgnores(r) ==
  /\ r \in asked
  /\ asked' = asked \ {r}
  /\ UNCHANGED <<link, status, calls, handshake, answers, performed, refused>>

-----------------------------------------------------------------------------
Next ==
  \/ OnOpen \/ AuthTimer \/ OnChallenge \/ OnAuthSuccess
  \/ OnError \/ OnClose \/ Reconnect
  \/ Heartbeat \/ AuthReconnects
  \/ StorageGreets \/ StorageAccepts
  \/ \E a \in answers : OnAnswer(a)
  \/ \E r \in Requests :
       \/ \E k \in Kinds : Command(r, k)
       \/ RequestTimeout(r)
       \/ StoragePerforms(r) \/ StorageRefuses(r) \/ StorageIgnores(r)

Spec == Init /\ [][Next]_vars

\* Timers fire, and a closing socket is destroyed by `ws' after 30 s at the
\* latest. Nothing is assumed of the network or of the storage server.
Fairness ==
  /\ WF_vars(AuthTimer)
  /\ WF_vars(Heartbeat)
  /\ WF_vars(Reconnect)
  /\ WF_vars(ws = "closing" /\ OnClose)
  /\ \A r \in Requests : WF_vars(RequestTimeout(r))

FairSpec == Spec /\ Fairness

-----------------------------------------------------------------------------
(* Properties. *)

TypeOK ==
  /\ ws \in {"null", "connecting", "open", "closing"}
  /\ m_authenticated \in BOOLEAN
  /\ m_connectionState \in {"dc", "cg", "cd", "uh"}
  /\ authTimer \in BOOLEAN /\ heartbeatTimer \in BOOLEAN
  /\ reconnectTimer \in BOOLEAN
  /\ m_lastSentStorageStatus \in {None, "dc", "cg", "cd", "er"}
  /\ authView \in {None, "dc", "cg", "cd", "er"}
  /\ handshake \in {"idle", "open", "challenge", "response", "dead",
                    "success", "over"}
  /\ asked \in SUBSET Requests
  /\ answers \in SUBSET Answers
  /\ m_pendingRequests \in SUBSET Requests
  /\ timeouts \in SUBSET Requests
  /\ kind \in [Requests -> Kinds \cup {None}]
  /\ reply \in [Requests -> {None, "done", "error", "offline", "silent"}]
  /\ performed \in SUBSET Requests
  /\ refused \in SUBSET Requests

\* fn_isConnected and the connection state, which fn_handleQueryServer sends
\* together, do not contradict each other, and the AUTH link was last given
\* the status of this connection and not of the one before. m_authenticated is
\* only reset by fn_onClose and fn_onOpen relies on it.
StatusIsTrue ==
  /\ QueryReply.v => QueryReply.st = "cd"
  /\ QueryReply.st = "cd" => m_authenticated
  /\ m_authenticated => ws \in {"open", "closing"}
  /\ heartbeatTimer => m_authenticated
  /\ m_lastSentStorageStatus = "cd" => m_authenticated
  /\ m_lastSentStorageStatus = "er" => ws = "closing"
  /\ m_lastSentStorageStatus = "cg" =>
       ws \in {"open", "closing"} /\ ~m_authenticated
  /\ m_lastSentStorageStatus = "dc" => ws \in {"null", "connecting"}

\* Once the client has seen a challenge, only `auth_success' on the same
\* connection makes it trust the link: the 2 s timer that assumes that there
\* is no authentication has been stopped (fn_onMessage, first branch).
TrustIsEarned ==
  [][m_authenticated' /\ ~m_authenticated
       => handshake \notin {"response", "dead"}]_vars

\* A command that was forwarded and not yet replied to is pending with its
\* timer running, on the connection it was sent on: no request outlives its
\* connection (fn_clearPending), and none is dropped without its sender being
\* told.
RequestsCovered ==
  /\ m_pendingRequests = {r \in Requests : kind[r] # None /\ reply[r] = None}
  /\ timeouts = m_pendingRequests
  /\ m_pendingRequests # {} => m_authenticated

\* What the sender of a command hears is true: `Done' means that the storage
\* server did it -- or, for the two deletions that do not look at `success',
\* that it answered --, `not connected' means that it never saw the request,
\* and silence means that it refused, or had nothing to load.
Unchecked == {"DeleteMission", "DeleteNews"}
Loads == {"LoadTasks", "LoadMission", "LoadNews"}
RepliesAreTrue ==
  \A r \in Requests :
    /\ reply[r] = "done" => \/ r \in performed
                            \/ r \in refused /\ kind[r] \in Unchecked
    /\ reply[r] = "offline" => r \notin asked \cup performed \cup refused
    /\ reply[r] = "silent" => \/ r \in refused
                              \/ r \in performed /\ kind[r] \in Loads

\* Every command that is forwarded is settled: by its answer, its timer or the
\* end of the connection (fn_sendRequest), whatever the storage server does.
RequestsSettle ==
  \A r \in Requests : r \in m_pendingRequests ~> r \notin m_pendingRequests

\* A connection that is going down or has gone is tried again (fn_onClose).
LinkRetries == ws \in {"closing", "null"} ~> ws = "connecting"

\* `Periodic heartbeat (30s) with connection status reporting to AUTH'
\* (README.md): an AUTH server that does not know the status of a storage link
\* that stays up is told some time.
StatusReachesAuth ==
  fn_isConnected /\ authView = None ~> ~fn_isConnected \/ authView # None
=============================================================================
