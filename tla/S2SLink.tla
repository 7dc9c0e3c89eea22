------------------------------ MODULE S2SLink -------------------------------
(* What a link between two servers promises to the relay, in each of its     *)
(* directions: while it is linked, what is sent is delivered in order and    *)
(* once; nothing is delivered that was sent while it was not linked; when it *)
(* fails, the last of what was not yet delivered may be lost.                *)
EXTENDS Naturals, Sequences

CONSTANTS Links, Messages

VARIABLES
  linked,    \* will what is sent now be delivered, unless the link fails
  queue,     \* what was sent and not delivered yet
  delivered  \* what was delivered, in order

Open(l) ==
  /\ ~linked[l] /\ linked'[l]
  /\ queue[l] = <<>> /\ queue'[l] = <<>>
  /\ delivered'[l] = delivered[l]

Send(l) ==
  /\ linked[l] /\ linked'[l]
  /\ \E m \in Messages : queue'[l] = Append(queue[l], m)
  /\ delivered'[l] = delivered[l]

\* Also after a failure: what has arrived is still read.
Deliver(l) ==
  /\ linked'[l] = linked[l]
  /\ queue[l] # <<>>
  /\ queue'[l] = Tail(queue[l])
  /\ delivered'[l] = Append(delivered[l], Head(queue[l]))

Fail(l) ==
  /\ ~linked'[l]
  /\ \E n \in 0..Len(queue[l]) : queue'[l] = SubSeq(queue[l], 1, n)
  /\ delivered'[l] = delivered[l]

Stay(l) ==
  /\ linked'[l] = linked[l]
  /\ queue'[l] = queue[l]
  /\ delivered'[l] = delivered[l]

Init ==
  /\ linked = [l \in Links |-> FALSE]
  /\ queue = [l \in Links |-> <<>>]
  /\ delivered = [l \in Links |-> <<>>]

\* A failure concerns both directions, and a message may be sent over several
\* links at once.
Next ==
  \A l \in Links :
    Open(l) \/ Send(l) \/ Deliver(l) \/ Fail(l) \/ Stay(l)

Spec == Init /\ [][Next]_<<linked, queue, delivered>>
=============================================================================
