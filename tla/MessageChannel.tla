--------------------------- MODULE MessageChannel ---------------------------
(***************************************************************************)
(* What the agent link promises.  A message sent to a connected terminal   *)
(* is bound for it until it is accepted, and the accepted messages reach   *)
(* the terminal in the order of their acceptance, none of them twice, none *)
(* of them on another terminal.  Messages are lost in two ways only: sent  *)
(* to a terminal that is not connected, or on their way when its own       *)
(* connection ends; of those accepted, the last ones first.                *)
(***************************************************************************)
EXTENDS SequencesExt

CONSTANTS Terminals, Messages

VARIABLES
  connected,   \* per terminal: it has a connection
  sent,        \* messages sent so far
  bound,       \* per terminal: sent to its connection, not accepted yet
  pending,     \* per terminal: accepted and under way
  delivered    \* per terminal: the messages its program was given

channelVars == <<connected, sent, bound, pending, delivered>>

Init ==
  /\ connected = [t \in Terminals |-> FALSE]
  /\ sent = {}
  /\ bound = [t \in Terminals |-> {}]
  /\ pending = [t \in Terminals |-> <<>>]
  /\ delivered = [t \in Terminals |-> <<>>]

Connect(t) ==
  /\ ~connected[t]
  /\ connected' = [connected EXCEPT ![t] = TRUE]
  /\ UNCHANGED <<sent, bound, pending, delivered>>

Send(t, m) ==
  /\ m \notin sent
  /\ sent' = sent \cup {m}
  /\ bound' = IF connected[t] THEN [bound EXCEPT ![t] = @ \cup {m}] ELSE bound
  /\ UNCHANGED <<connected, pending, delivered>>

Accept(t, m) ==
  /\ connected[t]
  /\ m \in bound[t]
  /\ bound' = [bound EXCEPT ![t] = @ \ {m}]
  /\ pending' = [pending EXCEPT ![t] = Append(@, m)]
  /\ UNCHANGED <<connected, sent, delivered>>

Deliver(t) ==
  /\ pending[t] # <<>>
  /\ delivered' = [delivered EXCEPT ![t] = Append(@, Head(pending[t]))]
  /\ pending' = [pending EXCEPT ![t] = Tail(@)]
  /\ UNCHANGED <<connected, sent, bound>>

\* The connections of some terminals end, of several at once when the engine's
\* process does: theirs is what may be lost, and nothing else.
Break(ended) ==
  /\ ended # {}
  /\ \A t \in ended : connected[t]
  /\ connected' = [t \in Terminals |-> connected[t] /\ t \notin ended]
  /\ bound' = [t \in Terminals |-> IF t \in ended THEN {} ELSE bound[t]]
  /\ pending' \in [Terminals -> Seq(Messages)]
  /\ \A t \in Terminals :
       IF t \in ended THEN IsPrefix(pending'[t], pending[t]) ELSE pending'[t] = pending[t]
  /\ UNCHANGED <<sent, delivered>>

Next ==
  \/ \E t \in Terminals, m \in Messages : Send(t, m) \/ Accept(t, m)
  \/ \E t \in Terminals : Connect(t) \/ Deliver(t)
  \/ \E ended \in SUBSET Terminals : Break(ended)

Spec == Init /\ [][Next]_channelVars
=============================================================================
