------------------------------ MODULE AuthLink ------------------------------
(***************************************************************************)
(* The link to the AUTH server (js_comm_server_manager_client.js) and the  *)
(* INFO cards it carries (js_andruav_comm_server.js), by which AUTH knows  *)
(* the accounts of this server and routes the parties that log in.         *)
(*                                                                         *)
(* A card is the version of the rooms it was made of.  AUTH itself is      *)
(* external: it may ask for the handshake of js_s2s_auth.js and then reads *)
(* nothing before the answer; it keeps the last card of a connection.      *)
(***************************************************************************)
EXTENDS Naturals, Sequences

CONSTANTS
  MaxChanges, \* bound on the changes of the rooms
  Response,   \* the answer to a challenge
  None

ASSUME AuthAssumption ==
  /\ MaxChanges \in Nat
  /\ Response \notin Nat /\ None \notin Nat

VARIABLES
  rooms,          \* how often the rooms have changed
  due,            \* the last change that a card was made for
  m_ws,           \* readyState of the socket
  m_messageQueue,
  retry,          \* is the 2 s timer of the next attempt running
  wire,           \* "up", "cut" without notice, or "closed" by AUTH
  toAuth,         \* the cards and answers under way
  challenge,      \* is a challenge under way
  accepted,       \* has AUTH accepted the connection
  trusted,        \* does AUTH read what is sent on it
  authCard        \* the card AUTH goes by

roomVars == <<rooms, due>>
clientVars == <<m_ws, m_messageQueue, retry>>
wireVars == <<wire, toAuth, challenge>>
authVars == <<accepted, trusted, authCard>>
vars == <<roomVars, clientVars, wireVars, authVars>>

Cards == 0..MaxChanges

Init ==
  /\ rooms = 0 /\ due = 0
  /\ m_ws = "connecting"
  /\ m_messageQueue = <<>>
  /\ retry = FALSE
  /\ wire = "up"
  /\ toAuth = <<>>
  /\ challenge = FALSE
  /\ accepted = FALSE /\ trusted = FALSE
  /\ authCard = None

-----------------------------------------------------------------------------
(* The rooms *)

\* What is sent on an open socket reaches the wire, if that still stands.
Sent(messages) == IF wire = "up" THEN toAuth \o messages ELSE toAuth

\* fn_sendMessage: without an open socket the message waits for one.
SendMessage(m) ==
  \/ /\ m_ws = "open"
     /\ toAuth' = Sent(<<m>>)
     /\ UNCHANGED m_messageQueue
  \/ /\ m_ws # "open"
     /\ m_messageQueue' = Append(m_messageQueue, m)
     /\ UNCHANGED toAuth

\* A party joins or leaves: fn_updateServerWatchdog.
Announce ==
  /\ rooms < MaxChanges
  /\ rooms' = rooms + 1
  /\ due' = rooms + 1
  /\ SendMessage(rooms + 1)
  /\ UNCHANGED <<m_ws, retry, wire, challenge, authVars>>

\* A party logs out of its group, which no card is sent for.
ChangeSilently ==
  /\ rooms < MaxChanges
  /\ rooms' = rooms + 1
  /\ UNCHANGED <<due, clientVars, wireVars, authVars>>

-----------------------------------------------------------------------------
(* The client *)

\* fn_startWebSocketListener
Connect ==
  /\ retry
  /\ retry' = FALSE
  /\ m_ws' = "connecting"
  /\ wire' = "up"
  /\ toAuth' = <<>>
  /\ challenge' = FALSE
  /\ accepted' = FALSE
  /\ trusted' = FALSE
  /\ UNCHANGED <<roomVars, m_messageQueue, authCard>>

\* fn_onOpen_Handler: a fresh card, and after it what has waited.
Mutant_OnOpen ==
  /\ m_ws = "connecting"
  /\ accepted
  /\ m_ws' = "open"
  /\ toAuth' = Sent(m_messageQueue)
  /\ m_messageQueue' = <<>>
  /\ UNCHANGED <<roomVars, retry, wire, challenge, authVars>>

OnOpen ==
  /\ m_ws = "connecting"
  /\ accepted
  /\ m_ws' = "open"
  /\ toAuth' = Sent(<<rooms>> \o m_messageQueue)
  /\ m_messageQueue' = <<>>
  /\ UNCHANGED <<roomVars, retry, wire, challenge, authVars>>

\* fn_onMessage_Handler of the challenge: the answer and a fresh card, for AUTH
\* has not read the one of fn_onOpen_Handler.
Mutant_OnChallenge ==
  /\ m_ws = "open"
  /\ challenge
  /\ challenge' = FALSE
  /\ toAuth' = Sent(<<Response>> \o m_messageQueue)
  /\ m_messageQueue' = <<>>
  /\ UNCHANGED <<roomVars, m_ws, retry, wire, authVars>>

OnChallenge ==
  /\ m_ws = "open"
  /\ challenge
  /\ challenge' = FALSE
  /\ toAuth' = Sent(<<Response, rooms>> \o m_messageQueue)
  /\ m_messageQueue' = <<>>
  /\ UNCHANGED <<roomVars, m_ws, retry, wire, authVars>>

\* The private key cannot be read: fn_sign throws.
Mutant_SignFails ==
  /\ m_ws = "open"
  /\ challenge
  /\ challenge' = FALSE
  /\ toAuth' = Sent(<<None, rooms>>)
  /\ UNCHANGED <<roomVars, clientVars, wire, authVars>>

SignFails ==
  /\ m_ws = "open"
  /\ challenge
  /\ challenge' = FALSE
  /\ m_ws' = "closing"
  /\ UNCHANGED <<roomVars, m_messageQueue, retry, wire, toAuth, authVars>>

\* fn_onClose_Handler
Closed ==
  /\ m_ws' = "closed"
  /\ m_messageQueue' = <<>>
  /\ retry' = TRUE

\* An attempt fails: 'error', and then 'close'.
Refused ==
  /\ m_ws = "connecting"
  /\ Closed
  /\ wire' = "closed"
  /\ toAuth' = <<>>
  /\ challenge' = FALSE
  /\ UNCHANGED <<roomVars, authVars>>

\* A connection ends: AUTH has closed it, or the client has, or the client's
\* network gives up one that was cut.
OnClose ==
  /\ m_ws = "closing" \/ (m_ws = "open" /\ wire # "up")
  /\ Closed
  /\ wire' = "closed"
  /\ toAuth' = <<>>
  /\ challenge' = FALSE
  /\ UNCHANGED <<roomVars, authVars>>

-----------------------------------------------------------------------------
(* AUTH and the network (external) *)

\* AUTH accepts a connection, and asks for the handshake or does not.
AuthAccept ==
  /\ m_ws = "connecting"
  /\ ~accepted
  /\ accepted' = TRUE
  /\ challenge' \in BOOLEAN
  /\ trusted' = ~challenge'
  /\ authCard' = None
  /\ UNCHANGED <<roomVars, clientVars, wire, toAuth>>

AuthReceive ==
  /\ toAuth # <<>>
  /\ toAuth' = Tail(toAuth)
  /\ trusted' = (trusted \/ Head(toAuth) = Response)
  /\ authCard' = IF trusted /\ Head(toAuth) # Response THEN Head(toAuth)
                                                       ELSE authCard
  /\ UNCHANGED <<roomVars, clientVars, wire, challenge, accepted>>

\* AUTH closes the connection, or restarts.
AuthCloses ==
  /\ accepted
  /\ wire = "up"
  /\ wire' = "closed"
  /\ toAuth' = <<>>
  /\ challenge' = FALSE
  /\ trusted' = FALSE
  /\ authCard' = None
  /\ UNCHANGED <<roomVars, clientVars, accepted>>

\* The network is cut, and neither end is told.
Break ==
  /\ accepted
  /\ wire = "up"
  /\ wire' = "cut"
  /\ toAuth' = <<>>
  /\ challenge' = FALSE
  /\ UNCHANGED <<roomVars, clientVars, authVars>>

Next ==
  \/ Announce \/ ChangeSilently
  \/ Connect \/ OnOpen \/ OnChallenge \/ SignFails \/ Refused \/ OnClose
  \/ AuthAccept \/ AuthReceive \/ AuthCloses \/ Break

\* The timer, the end of an attempt and the frames that have arrived; ws reports
\* the end of a connection that either end has closed, but nothing tells the
\* client of one that was cut.  AUTH accepts and reads.
Fairness ==
  /\ WF_vars(Connect)
  /\ WF_vars(OnOpen \/ Refused)
  /\ WF_vars(OnChallenge \/ SignFails)
  /\ WF_vars(OnClose /\ (m_ws = "closing" \/ wire = "closed"))
  /\ WF_vars(AuthAccept)
  /\ WF_vars(AuthReceive)

Spec == Init /\ [][Next]_vars

FairSpec == Spec /\ Fairness

-----------------------------------------------------------------------------
(* Properties *)

TypeOK ==
  /\ rooms \in Cards /\ due \in Cards
  /\ m_ws \in {"connecting", "open", "closing", "closed"}
  /\ m_messageQueue \in Seq(Cards)
  /\ retry \in BOOLEAN
  /\ wire \in {"up", "cut", "closed"}
  /\ toAuth \in Seq(Cards \cup {Response})
  /\ challenge \in BOOLEAN
  /\ accepted \in BOOLEAN /\ trusted \in BOOLEAN
  /\ authCard \in Cards \cup {None}

\* AUTH knows all that cards were made for.
UpToDate == authCard # None /\ authCard >= due

\* Cards that waited for the link follow the fresh one, and are older; even so
\* AUTH goes by an up to date card when it has read all that was sent, whether
\* it asked for the handshake or not and whatever the link went through.
ReadAllUpToDate ==
  m_ws = "open" /\ wire = "up" /\ trusted /\ toAuth = <<>> => UpToDate

\* The rooms are known to AUTH once they stop changing, however often the link
\* broke before -- unless it keeps breaking, or was cut without notice.
CardArrives ==
  \/ <>[]UpToDate
  \/ []<><<Refused \/ SignFails \/ AuthCloses \/ Break>>_vars
  \/ <>[](wire = "cut")
=============================================================================
