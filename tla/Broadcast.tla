----------------------------- MODULE Broadcast ------------------------------
(* What the tree of communication servers promises about messages between   *)
(* parties: whoever hears a message belongs to the audience that the sender *)
(* addressed, and hears it once.  Nothing is promised about losses.         *)
EXTENDS Naturals, Sequences

CONSTANTS Units, Posts, Audience

VARIABLES
  log,   \* the messages sent so far; the id of a message is its place here
  heard  \* for each unit, the ids of the messages it was given, in order

HasHeard(u, k) == \E i \in 1..Len(heard[u]) : heard[u][i] = k

Give(k, us) ==
  heard' = [u \in Units |-> IF u \in us THEN Append(heard[u], k) ELSE heard[u]]

Init ==
  /\ log = <<>>
  /\ heard = [u \in Units |-> <<>>]

\* Somebody sends a message; those in reach hear it at once.
Post(m, us) ==
  /\ us \subseteq Audience[m]
  /\ log' = Append(log, m)
  /\ Give(Len(log) + 1, us)

\* Others of the audience hear it later, none of them a second time.
Spread(k, us) ==
  /\ us \subseteq Audience[log[k]]
  /\ \A u \in us : ~HasHeard(u, k)
  /\ Give(k, us)
  /\ UNCHANGED log

Next ==
  \E us \in SUBSET Units :
    \/ \E m \in Posts : Post(m, us)
    \/ \E k \in 1..Len(log) : Spread(k, us)

Spec == Init /\ [][Next]_<<log, heard>>
=============================================================================
