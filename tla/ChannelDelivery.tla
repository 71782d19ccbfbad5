-------------------------- MODULE ChannelDelivery --------------------------
(***************************************************************************)
(* What the transport promises the boundary exchange (spec 4.4): a        *)
(* channel's message, once sent, is in flight until it reaches the        *)
(* receive buffer of that same channel, which must have been posted; and  *)
(* every message that is in flight towards a posted buffer gets there.    *)
(***************************************************************************)
CONSTANTS Channels

VARIABLES
  inflight,   \* the channels whose message is sent and not yet received
  waiting,    \* the channels whose receive is posted and not yet filled
  delivered   \* the channels whose buffer holds the channel's message

avars == <<inflight, waiting, delivered>>

Init == inflight = {} /\ waiting = {} /\ delivered = {}

Send(c) ==
  /\ c \notin inflight \cup delivered
  /\ inflight' = inflight \cup {c}
  /\ UNCHANGED <<waiting, delivered>>

Post(c) ==
  /\ c \notin waiting \cup delivered
  /\ waiting' = waiting \cup {c}
  /\ UNCHANGED <<inflight, delivered>>

(* The transport hands a channel's message to that channel's buffer.      *)
Deliver(c) ==
  /\ c \in inflight \cap waiting
  /\ inflight' = inflight \ {c}
  /\ waiting' = waiting \ {c}
  /\ delivered' = delivered \cup {c}

Next == \E c \in Channels : Send(c) \/ Post(c) \/ Deliver(c)

Spec == Init /\ [][Next]_avars /\ \A c \in Channels : WF_avars(Deliver(c))
=============================================================================
