---------------------------- MODULE DBProxyProofs ----------------------------
(* The storage client keeps its status, its pending requests and its replies *)
(* straight, for any set of requests and whatever the storage server, the    *)
(* network and the AUTH link do.                                             *)
EXTENDS DBProxy, TLAPS

-----------------------------------------------------------------------------
(* Types. *)

\* Nothing is connected or asked for at the start.
LEMMA TypeInit == Init => TypeOK
BY DEF Init, TypeOK, Answers

\* Whatever the kind and the result, a reply is one of three.
LEMMA ReplyRange ==
  ASSUME NEW k, NEW result
  PROVE  ReplyTo(k, result) \in {"done", "error", "silent"}
BY DEF ReplyTo, TaskReply, MissionReply, NewsReply

\* Every step keeps the types.
LEMMA TypeNext == TypeOK /\ [Next]_vars => TypeOK'
<1> SUFFICES ASSUME TypeOK, [Next]_vars PROVE TypeOK'
  OBVIOUS
<1> USE DEF TypeOK, link, status, calls, storage
<1>1. CASE OnOpen
  BY <1>1 DEF OnOpen, SendStorageStatus
<1>2. CASE AuthTimer
  <2>1. CASE ~m_authenticated /\ ws = "open"
    BY <1>2, <2>1 DEF AuthTimer, Authenticated, SendStorageStatus
  <2>2. CASE ~(~m_authenticated /\ ws = "open")
    <3>1. authTimer' \in BOOLEAN
      BY <1>2 DEF AuthTimer
    <3>2. UNCHANGED <<ws, m_authenticated, m_connectionState, heartbeatTimer,
                      reconnectTimer>>
      BY <1>2, <2>2 DEF AuthTimer
    <3>3. UNCHANGED <<status, calls, storage>>
      BY <1>2, <2>2 DEF AuthTimer
    <3> QED BY <3>1, <3>2, <3>3
  <2> QED BY <2>1, <2>2
<1>3. CASE OnChallenge
  BY <1>3 DEF OnChallenge, StopAuthTimer
<1>4. CASE OnAuthSuccess
  BY <1>4 DEF OnAuthSuccess, StopAuthTimer, Authenticated, SendStorageStatus
<1>5. CASE OnError
  BY <1>5 DEF OnError, SendStorageStatus
<1>6. CASE OnClose
  BY <1>6 DEF OnClose, Disconnected, SendStorageStatus, fn_clearPending, Reject,
              StopAuthTimer, ScheduleReconnect
<1>7. CASE Reconnect
  BY <1>7 DEF Reconnect
<1>8. CASE Heartbeat
  BY <1>8 DEF Heartbeat, SendStorageStatus
<1>9. CASE AuthReconnects
  BY <1>9 DEF AuthReconnects
<1>10. CASE StorageGreets
  BY <1>10 DEF StorageGreets
<1>11. CASE StorageAccepts
  BY <1>11 DEF StorageAccepts
<1>12. ASSUME NEW a \in answers, OnAnswer(a) PROVE TypeOK'
  <2>1. ReplyTo(kind[a.id], a.result) \in {"done", "error", "silent"}
    BY ReplyRange
  <2> QED BY <1>12, <2>1 DEF OnAnswer, Answers
<1>13. ASSUME NEW r \in Requests, NEW k \in Kinds, Command(r, k) PROVE TypeOK'
  BY <1>13 DEF Command
<1>14. ASSUME NEW r \in Requests, RequestTimeout(r) PROVE TypeOK'
  BY <1>14 DEF RequestTimeout, Reject
<1>15. ASSUME NEW r \in Requests, StoragePerforms(r) PROVE TypeOK'
  BY <1>15 DEF StoragePerforms, Answers, Results
<1>16. ASSUME NEW r \in Requests, StorageRefuses(r) PROVE TypeOK'
  BY <1>16 DEF StorageRefuses, Answers, Results
<1>17. ASSUME NEW r \in Requests, StorageIgnores(r) PROVE TypeOK'
  BY <1>17 DEF StorageIgnores
<1>18. CASE UNCHANGED vars
  BY <1>18 DEF vars
<1> QED BY <1>1, <1>2, <1>3, <1>4, <1>5, <1>6, <1>7, <1>8, <1>9, <1>10, <1>11,
           <1>12, <1>13, <1>14, <1>15, <1>16, <1>17, <1>18 DEF Next

\* Type correctness: every variable of the client holds a value that the code
\* gives it, for any set of requests and kinds.
THEOREM DBProxyTypeCorrect == Spec => []TypeOK
<1> QED BY TypeInit, TypeNext, PTL DEF Spec

-----------------------------------------------------------------------------
(* The link. *)

\* StatusIsTrue is not inductive: the timers must belong to the connection,
\* too. A reconnection is scheduled only when the old socket has gone, and a
\* socket that is not open yet has no handshake and nothing told but `dc'.
TimersBelong ==
  /\ reconnectTimer => ws = "null"
  /\ ws \in {"null", "connecting"} => handshake = "idle" /\ ~authTimer
  /\ authTimer => handshake \in {"idle", "challenge", "open"}

LinkInv == TypeOK /\ StatusIsTrue /\ TimersBelong

\* At the start there is no connection to say anything about.
LEMMA LinkInit == Init => LinkInv
BY TypeInit, NoneAssumption
   DEF Init, LinkInv, StatusIsTrue, TimersBelong, QueryReply, fn_isConnected

\* The steps of requests, answers and the storage server leave the link alone.
LEMMA LinkUntouched ==
  ASSUME LinkInv, UNCHANGED <<link, m_lastSentStorageStatus, handshake>>
  PROVE  StatusIsTrue' /\ TimersBelong'
BY DEF LinkInv, link, StatusIsTrue, TimersBelong, QueryReply, fn_isConnected

\* Every step keeps what is known of the connection.
LEMMA LinkNext == LinkInv /\ [Next]_vars => LinkInv'
<1> SUFFICES ASSUME LinkInv, [Next]_vars PROVE StatusIsTrue' /\ TimersBelong'
  BY TypeNext DEF LinkInv
<1> USE DEF link, status, storage
<1>1. CASE OnOpen
  BY <1>1 DEF OnOpen, SendStorageStatus, LinkInv, TypeOK, StatusIsTrue,
              TimersBelong, QueryReply, fn_isConnected
<1>2. CASE AuthTimer
  BY <1>2 DEF AuthTimer, Authenticated, SendStorageStatus, LinkInv, TypeOK,
              StatusIsTrue, TimersBelong, QueryReply, fn_isConnected
<1>3. CASE OnChallenge
  BY <1>3 DEF OnChallenge, StopAuthTimer, LinkInv, TypeOK, StatusIsTrue,
              TimersBelong, QueryReply, fn_isConnected
<1>4. CASE OnAuthSuccess
  BY <1>4 DEF OnAuthSuccess, StopAuthTimer, Authenticated, SendStorageStatus,
              LinkInv, TypeOK, StatusIsTrue, TimersBelong, QueryReply, fn_isConnected
<1>5. CASE OnError
  BY <1>5 DEF OnError, SendStorageStatus, LinkInv, TypeOK, StatusIsTrue,
              TimersBelong, QueryReply, fn_isConnected
<1>6. CASE OnClose
  BY <1>6 DEF OnClose, Disconnected, SendStorageStatus, StopAuthTimer,
              ScheduleReconnect, LinkInv, StatusIsTrue, TimersBelong,
              QueryReply, fn_isConnected
<1>7. CASE Reconnect
  BY <1>7 DEF Reconnect, LinkInv, StatusIsTrue, TimersBelong, QueryReply,
              fn_isConnected
<1>8. CASE Heartbeat
  BY <1>8 DEF Heartbeat, SendStorageStatus, LinkInv, StatusIsTrue, TimersBelong,
              QueryReply, fn_isConnected
<1>9. CASE AuthReconnects
  BY <1>9, LinkUntouched DEF AuthReconnects
<1>10. CASE StorageGreets
  BY <1>10 DEF StorageGreets, LinkInv, TypeOK, StatusIsTrue, TimersBelong,
               QueryReply, fn_isConnected
<1>11. CASE StorageAccepts
  BY <1>11 DEF StorageAccepts, LinkInv, TypeOK, StatusIsTrue, TimersBelong,
               QueryReply, fn_isConnected
<1>12. ASSUME NEW a \in answers, OnAnswer(a)
       PROVE  StatusIsTrue' /\ TimersBelong'
  BY <1>12, LinkUntouched DEF OnAnswer
<1>13. ASSUME NEW r \in Requests, NEW k \in Kinds, Command(r, k)
       PROVE  StatusIsTrue' /\ TimersBelong'
  BY <1>13, LinkUntouched DEF Command
<1>14. ASSUME NEW r \in Requests, RequestTimeout(r)
       PROVE  StatusIsTrue' /\ TimersBelong'
  BY <1>14, LinkUntouched DEF RequestTimeout
<1>15. ASSUME NEW r \in Requests,
              StoragePerforms(r) \/ StorageRefuses(r) \/ StorageIgnores(r)
       PROVE  StatusIsTrue' /\ TimersBelong'
  BY <1>15, LinkUntouched DEF StoragePerforms, StorageRefuses, StorageIgnores
<1>16. CASE UNCHANGED vars
  BY <1>16, LinkUntouched DEF vars
<1> QED BY <1>1, <1>2, <1>3, <1>4, <1>5, <1>6, <1>7, <1>8, <1>9, <1>10, <1>11,
           <1>12, <1>13, <1>14, <1>15, <1>16 DEF Next

\* What is known of the connection always holds.
LEMMA LinkInvariant == Spec => []LinkInv
<1> QED BY LinkInit, LinkNext, PTL DEF Spec

\* What the server says about the storage server, to units and to AUTH, is
\* about the connection it has and not about an earlier one (fn_onClose).
THEOREM StatusAlwaysTrue == Spec => []StatusIsTrue
<1>1. LinkInv => StatusIsTrue
  BY DEF LinkInv
<1> QED BY <1>1, LinkInvariant, PTL

\* After a challenge only `auth_success' makes the client trust the link: the
\* timer that assumes that there is no authentication does not run any more.
THEOREM TrustAlwaysEarned == Spec => TrustIsEarned
<1>1. LinkInv /\ [Next]_vars
        => [m_authenticated' /\ ~m_authenticated
              => handshake \notin {"response", "dead"}]_vars
  <2> SUFFICES ASSUME LinkInv, Next, m_authenticated', ~m_authenticated
               PROVE  handshake \notin {"response", "dead"}
    OBVIOUS
  <2> USE DEF link, LinkInv, TypeOK
  <2>1. CASE AuthTimer
    BY <2>1 DEF AuthTimer, TimersBelong
  <2>2. CASE OnAuthSuccess
    BY <2>2 DEF OnAuthSuccess
  <2>3. m_authenticated' = m_authenticated \/ ~m_authenticated'
          \/ AuthTimer \/ OnAuthSuccess
    BY DEF Next, OnOpen, OnChallenge, OnError, OnClose, Disconnected, Reconnect,
           Heartbeat, AuthReconnects, StorageGreets, StorageAccepts, OnAnswer,
           Command, RequestTimeout, StoragePerforms, StorageRefuses, StorageIgnores
  <2> QED BY <2>1, <2>2, <2>3
<1> QED BY <1>1, LinkInvariant, PTL DEF Spec, TrustIsEarned

-----------------------------------------------------------------------------
(* Requests. *)

\* A request that nobody made has no trace, and an answer on its way says what
\* the storage server did.
TracesAreTrue ==
  /\ \A r \in Requests :
       kind[r] = None => reply[r] = None /\ r \notin asked \cup performed \cup refused
  /\ \A a \in answers :
       /\ a.result = "refused" => a.id \in refused
       /\ a.result # "refused" => a.id \in performed

CallsInv == RequestsCovered /\ TracesAreTrue /\ RepliesAreTrue

\* At the start nothing is pending.
LEMMA CallsInit == Init => CallsInv
BY NoneAssumption
   DEF Init, CallsInv, RequestsCovered, TracesAreTrue, RepliesAreTrue

\* Most steps of the link leave requests alone and do not end the trust.
LEMMA CallsUntouched ==
  ASSUME CallsInv, UNCHANGED <<calls, asked, answers, performed, refused>>,
         m_authenticated => m_authenticated'
  PROVE  CallsInv'
BY DEF CallsInv, RequestsCovered, TracesAreTrue, RepliesAreTrue, calls

\* The end of a connection settles what is pending and forgets what is on the
\* way; what the storage server has done, it has done.
LEMMA CallsClose ==
  ASSUME LinkInv, CallsInv, OnClose
  PROVE  CallsInv'
<1> USE NoneAssumption
<1>0. TypeOK
  BY DEF LinkInv
<1>1. /\ m_pendingRequests' = {} /\ timeouts' = {}
      /\ reply' = [r \in Requests |-> IF r \in m_pendingRequests THEN "error"
                                                                 ELSE reply[r]]
      /\ asked' = {} /\ answers' = {}
      /\ UNCHANGED <<kind, performed, refused>>
  BY DEF OnClose, fn_clearPending, Reject, CallsInv, RequestsCovered
<1>2. RequestsCovered'
  BY <1>0, <1>1 DEF CallsInv, RequestsCovered, TypeOK
<1>3. TracesAreTrue'
  BY <1>0, <1>1 DEF CallsInv, RequestsCovered, TracesAreTrue, TypeOK
<1>4. RepliesAreTrue'
  BY <1>0, <1>1 DEF CallsInv, RepliesAreTrue, TypeOK
<1> QED BY <1>2, <1>3, <1>4 DEF CallsInv

\* What the sender of a command hears of an answer.
LEMMA ReplyMeans ==
  ASSUME NEW k \in Kinds, NEW result \in Results
  PROVE  /\ ReplyTo(k, result) = "done" => result # "refused" \/ k \in Unchecked
         /\ ReplyTo(k, result) = "silent" => result = "refused" \/ k \in Loads
         /\ ReplyTo(k, result) \notin {None, "offline"}
BY KindsAssumption, NoneAssumption
   DEF ReplyTo, TaskReply, MissionReply, NewsReply, TaskKinds, MissionKinds,
       NewsKinds, Results, Unchecked, Loads

\* An answer settles its request and leaves the other requests alone.
LEMMA CallsAnswer ==
  ASSUME LinkInv, CallsInv, NEW a \in answers, OnAnswer(a)
  PROVE  CallsInv'
<1> USE NoneAssumption
<1>0. TypeOK
  BY DEF LinkInv
<1>1. a.id \in Requests /\ a.result \in Results
  BY <1>0 DEF TypeOK, Answers
<1>2. UNCHANGED <<kind, asked, performed, refused, m_authenticated>>
      /\ answers' \subseteq answers
  BY DEF OnAnswer, link
<1>3. CASE a.id \in m_pendingRequests
  <2>1. kind[a.id] \in Kinds /\ reply[a.id] = None
    BY <1>0, <1>1, <1>3 DEF CallsInv, RequestsCovered, TypeOK
  <2> DEFINE heard == ReplyTo(kind[a.id], a.result)
  <2>2. /\ heard = "done" => a.result # "refused" \/ kind[a.id] \in Unchecked
        /\ heard = "silent" => a.result = "refused" \/ kind[a.id] \in Loads
        /\ heard \notin {None, "offline"}
    BY <1>1, <2>1, ReplyMeans
  <2>3. /\ reply' = [reply EXCEPT ![a.id] = heard]
        /\ m_pendingRequests' = m_pendingRequests \ {a.id}
        /\ timeouts' = timeouts \ {a.id}
    BY <1>3 DEF OnAnswer
  <2>4. /\ a.result = "refused" => a.id \in refused
        /\ a.result # "refused" => a.id \in performed
    BY DEF CallsInv, TracesAreTrue
  <2> HIDE DEF heard
  <2>5. RequestsCovered'
    BY <1>0, <1>1, <1>2, <2>1, <2>2, <2>3 DEF CallsInv, RequestsCovered, TypeOK
  <2>6. TracesAreTrue'
    BY <1>0, <1>1, <1>2, <2>1, <2>3 DEF CallsInv, TracesAreTrue, TypeOK
  <2>7. RepliesAreTrue'
    <3> SUFFICES ASSUME NEW r \in Requests
                 PROVE  /\ reply'[r] = "done" =>
                             \/ r \in performed
                             \/ r \in refused /\ kind[r] \in Unchecked
                        /\ reply'[r] = "offline" =>
                             r \notin asked \cup performed \cup refused
                        /\ reply'[r] = "silent" =>
                             \/ r \in refused
                             \/ r \in performed /\ kind[r] \in Loads
      BY <1>2 DEF RepliesAreTrue
    <3>1. CASE r = a.id
      <4>1. reply'[r] = heard
        BY <1>0, <1>1, <2>3, <3>1 DEF TypeOK
      <4> QED BY <2>2, <2>4, <3>1, <4>1
    <3>2. CASE r # a.id
      <4>1. reply'[r] = reply[r]
        BY <1>0, <1>1, <2>3, <3>2 DEF TypeOK
      <4> QED BY <4>1 DEF CallsInv, RepliesAreTrue
    <3> QED BY <3>1, <3>2
  <2> QED BY <2>5, <2>6, <2>7 DEF CallsInv
<1>4. CASE a.id \notin m_pendingRequests
  <2>1. UNCHANGED <<reply, m_pendingRequests, timeouts>>
    BY <1>4 DEF OnAnswer
  <2> QED BY <1>2, <2>1 DEF CallsInv, RequestsCovered, TracesAreTrue, RepliesAreTrue
<1> QED BY <1>3, <1>4

\* A command is forwarded when the storage server is connected, and refused on
\* the spot when it is not.
LEMMA CallsCommand ==
  ASSUME LinkInv, CallsInv, NEW r \in Requests, NEW k \in Kinds, Command(r, k)
  PROVE  CallsInv'
<1> USE NoneAssumption
<1>0. TypeOK
  BY DEF LinkInv
<1>1. /\ kind[r] = None /\ reply[r] = None /\ k # None
      /\ r \notin asked \cup performed \cup refused
  BY DEF Command, CallsInv, TracesAreTrue
<1>2. /\ kind' = [kind EXCEPT ![r] = k]
      /\ UNCHANGED <<answers, performed, refused, m_authenticated>>
  BY DEF Command, link
<1>3. CASE fn_isConnected
  <2>1. /\ m_pendingRequests' = m_pendingRequests \cup {r}
        /\ timeouts' = timeouts \cup {r}
        /\ asked' = asked \cup {r}
        /\ reply' = reply
        /\ m_authenticated
    BY <1>3 DEF Command, fn_isConnected
  <2>2. RequestsCovered'
    BY <1>0, <1>1, <1>2, <2>1 DEF CallsInv, RequestsCovered, TypeOK
  <2>3. TracesAreTrue' /\ RepliesAreTrue'
    BY <1>0, <1>1, <1>2, <2>1 DEF CallsInv, TracesAreTrue, RepliesAreTrue, TypeOK
  <2> QED BY <2>2, <2>3 DEF CallsInv
<1>4. CASE ~fn_isConnected
  <2>1. /\ reply' = [reply EXCEPT ![r] = "offline"]
        /\ UNCHANGED <<m_pendingRequests, timeouts, asked>>
    BY <1>4 DEF Command
  <2>2. RequestsCovered'
    BY <1>0, <1>1, <1>2, <2>1 DEF CallsInv, RequestsCovered, TypeOK
  <2>3. TracesAreTrue' /\ RepliesAreTrue'
    BY <1>0, <1>1, <1>2, <2>1 DEF CallsInv, TracesAreTrue, RepliesAreTrue, TypeOK
  <2> QED BY <2>2, <2>3 DEF CallsInv
<1> QED BY <1>3, <1>4

\* A timeout settles its request and leaves the other requests alone.
LEMMA CallsTimeout ==
  ASSUME LinkInv, CallsInv, NEW r \in Requests, RequestTimeout(r)
  PROVE  CallsInv'
<1> USE NoneAssumption
<1>0. TypeOK
  BY DEF LinkInv
<1>1. r \in m_pendingRequests
  BY DEF RequestTimeout, CallsInv, RequestsCovered
<1>2. /\ m_pendingRequests' = m_pendingRequests \ {r}
      /\ timeouts' = timeouts \ {r}
      /\ reply' = [x \in Requests |-> IF x \in {r} THEN "error" ELSE reply[x]]
      /\ UNCHANGED <<kind, asked, answers, performed, refused, m_authenticated>>
  BY DEF RequestTimeout, Reject, link, storage
<1>3. RequestsCovered'
  BY <1>0, <1>1, <1>2 DEF CallsInv, RequestsCovered, TypeOK
<1>4. TracesAreTrue' /\ RepliesAreTrue'
  BY <1>0, <1>1, <1>2
     DEF CallsInv, RequestsCovered, TracesAreTrue, RepliesAreTrue, TypeOK
<1> QED BY <1>3, <1>4 DEF CallsInv

\* The storage server deals only with requests that were made, and no request
\* whose sender was told `not connected' reaches it.
LEMMA CallsStorage ==
  ASSUME LinkInv, CallsInv, NEW r \in Requests,
         StoragePerforms(r) \/ StorageRefuses(r) \/ StorageIgnores(r)
  PROVE  CallsInv'
<1>0. TypeOK
  BY DEF LinkInv
<1>1. r \in asked /\ kind[r] # None /\ reply[r] # "offline"
  BY DEF StoragePerforms, StorageRefuses, StorageIgnores, CallsInv,
         TracesAreTrue, RepliesAreTrue
<1>2. UNCHANGED <<m_pendingRequests, timeouts, kind, reply, m_authenticated>>
      /\ asked' = asked \ {r}
  BY DEF StoragePerforms, StorageRefuses, StorageIgnores, link, calls
<1>3. RequestsCovered'
  BY <1>2 DEF CallsInv, RequestsCovered
<1>4. CASE StoragePerforms(r)
  <2>1. /\ performed' = performed \cup {r} /\ refused' = refused
        /\ \A a \in answers' : a \in answers \/ (a.id = r /\ a.result # "refused")
    <3>1. PICK result \in {"ok", "bare"} :
            answers' = answers \cup {[id |-> r, result |-> result]}
      BY <1>4 DEF StoragePerforms
    <3>2. performed' = performed \cup {r} /\ refused' = refused
      BY <1>4 DEF StoragePerforms
    <3> QED BY <3>1, <3>2
  <2>2. TracesAreTrue' /\ RepliesAreTrue'
    BY <1>1, <1>2, <2>1 DEF CallsInv, TracesAreTrue, RepliesAreTrue
  <2> QED BY <1>3, <2>2 DEF CallsInv
<1>5. CASE StorageRefuses(r)
  <2>1. /\ performed' = performed /\ refused' = refused \cup {r}
        /\ \A a \in answers' : a \in answers \/ (a.id = r /\ a.result = "refused")
    BY <1>5 DEF StorageRefuses
  <2>2. TracesAreTrue' /\ RepliesAreTrue'
    BY <1>1, <1>2, <2>1 DEF CallsInv, TracesAreTrue, RepliesAreTrue
  <2> QED BY <1>3, <2>2 DEF CallsInv
<1>6. CASE StorageIgnores(r)
  BY <1>2, <1>3, <1>6 DEF StorageIgnores, CallsInv, TracesAreTrue, RepliesAreTrue
<1> QED BY <1>4, <1>5, <1>6

\* Every step keeps what is known of the requests.
LEMMA CallsNext == LinkInv /\ CallsInv /\ [Next]_vars => CallsInv'
<1> SUFFICES ASSUME LinkInv, CallsInv, [Next]_vars PROVE CallsInv'
  OBVIOUS
<1>1. CASE \/ OnOpen \/ OnChallenge \/ OnError \/ Reconnect \/ Heartbeat
           \/ AuthReconnects \/ StorageGreets \/ StorageAccepts
  BY <1>1, CallsUntouched
     DEF link, calls, storage, OnOpen, OnChallenge, OnError, Reconnect, Heartbeat,
         AuthReconnects, StorageGreets, StorageAccepts
<1>2. CASE AuthTimer \/ OnAuthSuccess
  <2>1. UNCHANGED <<calls, asked, answers, performed, refused>>
    BY <1>2 DEF AuthTimer, OnAuthSuccess, calls, storage
  <2>2. m_authenticated => m_authenticated'
    BY <1>2 DEF AuthTimer, OnAuthSuccess, Authenticated
  <2> QED BY <2>1, <2>2, CallsUntouched
<1>3. CASE OnClose
  BY <1>3, CallsClose
<1>4. ASSUME NEW a \in answers, OnAnswer(a) PROVE CallsInv'
  BY <1>4, CallsAnswer
<1>5. ASSUME NEW r \in Requests, NEW k \in Kinds, Command(r, k) PROVE CallsInv'
  BY <1>5, CallsCommand
<1>6. ASSUME NEW r \in Requests, RequestTimeout(r) PROVE CallsInv'
  BY <1>6, CallsTimeout
<1>7. ASSUME NEW r \in Requests,
             StoragePerforms(r) \/ StorageRefuses(r) \/ StorageIgnores(r)
      PROVE  CallsInv'
  BY <1>7, CallsStorage
<1>8. CASE UNCHANGED vars
  BY <1>8, CallsUntouched DEF vars, link, storage
<1> QED BY <1>1, <1>2, <1>3, <1>4, <1>5, <1>6, <1>7, <1>8 DEF Next

\* What is known of the requests always holds.
LEMMA CallsInvariant == Spec => []CallsInv
<1> QED BY CallsInit, CallsNext, LinkInvariant, PTL DEF Spec

\* No request outlives its connection, and none waits without its timer: what
\* was forwarded and has not been replied to is pending (fn_sendRequest,
\* fn_clearPending).
THEOREM RequestsAlwaysCovered == Spec => []RequestsCovered
<1>1. CallsInv => RequestsCovered
  BY DEF CallsInv
<1> QED BY <1>1, CallsInvariant, PTL

\* Senders of commands are told the truth: `Done' only of what the storage
\* server did -- or answered, for the two deletions that do not check --,
\* `not connected' only of what it never saw (js_chat_tasks.js, js_chat_news.js).
THEOREM RepliesAlwaysTrue == Spec => []RepliesAreTrue
<1>1. CallsInv => RepliesAreTrue
  BY DEF CallsInv
<1> QED BY <1>1, CallsInvariant, PTL
=============================================================================
