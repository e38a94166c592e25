------------------------------ MODULE AgentLink ------------------------------
(***************************************************************************)
(* The link between the engine and the terminals of the agents: the HTTP   *)
(* server's sessions (core/http_server.py, core/http_routes_openvip.py)    *)
(* composed with the agent registry, the focus policy and the terminals.   *)
(*                                                                         *)
(* A connection is the registration: its request handler puts a queue in   *)
(* agent_queues and registers the agent, its generator takes both away.    *)
(* The handlers run on the server's event loop.  The engine's threads look *)
(* a queue up and hand the message to the loop later, and a request that   *)
(* posts a message looks the queue up before it has read its body; by then *)
(* the queue may belong to a connection that has ended.                    *)
(***************************************************************************)
EXTENDS AgentRegistry, FocusPolicy, AgentTerminal

CONSTANTS
  NameOf,     \* the agent name each terminal was started with
  Nobody,     \* no connection, no message
  Budgets     \* bounds: how many of each a behaviour has

ASSUME NameAssumption ==
  /\ NameOf \in [Terminals -> Agents]
  /\ Watched = Agents
  /\ Nobody \notin Terminals \cup Messages

\* The engine's threads hand over through call_soon_threadsafe, POST requests directly.
Sender == {"engine", "post"}
Bounded == {"starts", "messages", "keys", "drops", "commands", "restarts", "reports", "notices"}

ASSUME BudgetsAssumption == Budgets \subseteq [Bounded -> Nat]

VARIABLES
  owner,     \* agent_queues: the terminal whose connection has the agent's queue
  stream,    \* that queue, and what the connection has sent and not been read yet
  soon,      \* callbacks of the loop that put a message in that queue
  inHand,    \* the message a sender has looked the queue up for, and for which one
  used,      \* messages sent so far
  reports,   \* focus reports under way, each posted by a thread of its own
  left       \* what is left of the bounds

serverVars == <<owner, stream, soon, inHand, used>>
vars == <<registryVars, focusVars, terminalVars, serverVars, reports, left>>

Holding(a, m, live) == [to |-> a, msg |-> m, live |-> live]
NotHolding == [to |-> Nobody, msg |-> Nobody, live |-> FALSE]

TypeOK ==
  /\ RegistryTypeOK
  /\ FocusTypeOK
  /\ TerminalTypeOK
  /\ owner \in [Agents -> Terminals \cup {Nobody}]
  /\ stream \in [Agents -> Seq(Messages)]
  /\ soon \in [Agents -> Seq(Messages)]
  /\ inHand \in [Sender -> {NotHolding} \cup [to : Agents, msg : Messages, live : BOOLEAN]]
  /\ used \subseteq Messages
  /\ reports \in [Agents -> [{"in", "out"} -> Nat]]
  /\ left \in [Bounded -> Nat]

Init ==
  /\ RegistryInit
  /\ FocusInit
  /\ TerminalInit
  /\ owner = [a \in Agents |-> Nobody]
  /\ stream = [a \in Agents |-> <<>>]
  /\ soon = [a \in Agents |-> <<>>]
  /\ inHand = [s \in Sender |-> NotHolding]
  /\ used = {}
  /\ reports = [a \in Agents |-> [r \in {"in", "out"} |-> 0]]
  /\ left \in Budgets

Spend(what) == left[what] > 0 /\ left' = [left EXCEPT ![what] = @ - 1]

\* A report is posted by a thread of its own: it may be lost, and it may arrive
\* after a later one.
Report(a, r) ==
  \/ Spend("reports") /\ reports' = [reports EXCEPT ![a][r] = @ + 1]
  \/ UNCHANGED <<left, reports>>

-----------------------------------------------------------------------------
(***************************************************************************)
(* Terminals.                                                              *)
(***************************************************************************)
\* Two terminals with one name may both pass before either connects.
Starts(t) ==
  /\ owner[NameOf[t]] = Nobody
  /\ Spend("starts")
  /\ Preflight(t)
  /\ UNCHANGED <<registryVars, focusVars, serverVars, reports>>

Launches(t) ==
  /\ Launch(t)
  /\ Report(NameOf[t], "in")
  /\ UNCHANGED <<registryVars, focusVars, serverVars>>

Types(t) ==
  /\ Spend("keys")
  /\ TypeKey(t)
  /\ UNCHANGED <<registryVars, focusVars, serverVars, reports>>

Writes(t) ==
  /\ WriteItem(t) \/ WriteEnter(t)
  /\ UNCHANGED <<registryVars, focusVars, serverVars, reports, left>>

Exits(t) ==
  /\ ProgramExits(t)
  /\ Report(NameOf[t], "out")
  /\ UNCHANGED <<registryVars, focusVars, serverVars>>

Reads(t) ==
  LET a == NameOf[t]
  IN  /\ owner[a] = t
      /\ stream[a] # <<>>
      /\ Receives(t, Head(stream[a]))
      /\ stream' = [stream EXCEPT ![a] = Tail(@)]
      /\ UNCHANGED <<registryVars, focusVars, owner, soon, inHand, used, reports, left>>

FocusChanges(t) ==
  /\ mux[t] = "running"
  /\ ~stop[t]
  /\ \E r \in {"in", "out"} : Report(NameOf[t], r)
  /\ UNCHANGED <<registryVars, focusVars, terminalVars, serverVars>>

ReportArrives(a) ==
  \E r \in {"in", "out"} :
    /\ reports[a][r] > 0
    /\ reports' = [reports EXCEPT ![a][r] = @ - 1]
    /\ IF r = "in" THEN FocusIn(a) ELSE FocusOut(a)
    /\ UNCHANGED <<registryVars, terminalVars, serverVars, left>>

-----------------------------------------------------------------------------
(***************************************************************************)
(* Sessions: sse_agent_messages and the end of its generator.              *)
(***************************************************************************)
Connect(t) ==
  LET a == NameOf[t]
  IN  /\ Wants(t)
      /\ IF owner[a] # Nobody
           THEN /\ IsRefused(t)
                /\ UNCHANGED <<registryVars, serverVars>>
           ELSE /\ Connects(t)
                /\ owner' = [owner EXCEPT ![a] = t]
                /\ Register(a)
                /\ UNCHANGED <<stream, soon, inHand, used>>
      /\ UNCHANGED <<focusVars, reports, left>>

Breaks(t) ==
  /\ LinkEnds(t)
  /\ IF stop[t] THEN UNCHANGED left ELSE Spend("drops")
  /\ UNCHANGED <<registryVars, focusVars, serverVars, reports>>

\* Whoever still holds the queue puts its message where nobody reads it.
OrphanLives(held, a) == held
Orphan(held, a) == IF held.to = a THEN [held EXCEPT !.live = FALSE] ELSE held

Disconnect(t) ==
  LET a == NameOf[t]
  IN  /\ owner[a] = t
      /\ link[t] # "up"
      /\ owner' = [owner EXCEPT ![a] = Nobody]
      /\ stream' = [stream EXCEPT ![a] = <<>>]
      /\ soon' = [soon EXCEPT ![a] = <<>>]
      /\ inHand' = [s \in Sender |-> Orphan(inHand[s], a)]
      /\ RemoveAgent(a)
      /\ Unregister(a)
      /\ UNCHANGED <<terminalVars, used, reports, left>>

-----------------------------------------------------------------------------
(***************************************************************************)
(* Messages: put_message, called by an agent's send(), and post_agent_     *)
(* message.                                                                *)
(***************************************************************************)
LooksUp(s, a, m) ==
  /\ inHand[s] = NotHolding
  /\ m \notin used
  /\ owner[a] # Nobody
  /\ Spend("messages")
  /\ inHand' = [inHand EXCEPT ![s] = Holding(a, m, TRUE)]
  /\ used' = used \cup {m}
  /\ UNCHANGED <<registryVars, focusVars, terminalVars, owner, stream, soon, reports>>

\* The engine sends what was captured for an agent, which may not be current any more.
HandsOver(s) ==
  LET held == inHand[s]
  IN  /\ held # NotHolding
      /\ inHand' = [inHand EXCEPT ![s] = NotHolding]
      /\ IF held.live /\ s = "engine"
           THEN soon' = [soon EXCEPT ![held.to] = Append(@, held.msg)]
           ELSE UNCHANGED soon
      /\ IF held.live /\ s = "post"
           THEN stream' = [stream EXCEPT ![held.to] = Append(@, held.msg)]
           ELSE UNCHANGED stream
      /\ UNCHANGED <<registryVars, focusVars, terminalVars, owner, used, reports, left>>

LoopPuts(a) ==
  /\ soon[a] # <<>>
  /\ soon' = [soon EXCEPT ![a] = Tail(@)]
  /\ stream' = [stream EXCEPT ![a] = Append(@, Head(soon[a]))]
  /\ UNCHANGED <<registryVars, focusVars, terminalVars, owner, inHand, used, reports, left>>

-----------------------------------------------------------------------------
(***************************************************************************)
(* The rest of the engine.                                                 *)
(***************************************************************************)
Switches ==
  /\ \/ SwitchPicks /\ Spend("commands")
     \/ ModePicks /\ Spend("commands")
     \/ (SwitchSets \/ ModeSets) /\ UNCHANGED left
     \/ OtherNotify /\ Spend("notices")
     \/ GraceElapses /\ UNCHANGED left
  /\ UNCHANGED <<focusVars, terminalVars, serverVars, reports>>

Policy ==
  /\ \E a \in Agents : TimerElapses(a) \/ ApplyUnfocus(a)
  /\ UNCHANGED <<registryVars, terminalVars, serverVars, reports, left>>

\* The TTS worker has the token for its reserved name and connects like an agent.
TtsWorker ==
  /\ Spend("notices")
  /\ IF Tts \in Registered THEN Unregister(Tts) ELSE Register(Tts)
  /\ UNCHANGED <<focusVars, terminalVars, serverVars, reports>>

\* The process ends, by a restart or a crash, and the supervisor starts the next.
Restart ==
  /\ Spend("restarts")
  /\ RegistryRestarts
  /\ \E kept \in Agents \cup {NoAgent} : FocusRestored(kept)
  /\ LinksLost
  /\ owner' = [a \in Agents |-> Nobody]
  /\ stream' = [a \in Agents |-> <<>>]
  /\ soon' = [a \in Agents |-> <<>>]
  /\ inHand' = [s \in Sender |-> NotHolding]
  /\ UNCHANGED <<used, reports>>

Next ==
  \/ \E t \in Terminals :
       \/ Starts(t) \/ Launches(t) \/ Types(t) \/ Writes(t) \/ Exits(t) \/ Reads(t)
       \/ FocusChanges(t) \/ Connect(t) \/ Breaks(t) \/ Disconnect(t)
  \/ \E a \in Agents : ReportArrives(a) \/ LoopPuts(a)
  \/ \E s \in Sender : HandsOver(s) \/ \E a \in Agents, m \in Messages : LooksUp(s, a, m)
  \/ Switches
  \/ Policy
  \/ TtsWorker
  \/ Restart

Spec == Init /\ [][Next]_vars

\* Threads that have something to do go on; users, networks and programs need not.
\* Nor need a Disconnect come: a generator that the server never starts, because the
\* connection was gone before its first byte, never takes the registration away.
Fairness ==
  \A t \in Terminals :
    /\ WF_vars(Writes(t)) /\ WF_vars(Reads(t)) /\ WF_vars(Breaks(t) /\ stop[t])

FairSpec == Spec /\ Fairness

-----------------------------------------------------------------------------
(***************************************************************************)
(* Properties.                                                             *)
(***************************************************************************)
\* The server's queues and the engine's registry, which the request handler and
\* the generator update one after the other, name the same agents.
SessionsAgree == \A a \in Agents : owner[a] # Nobody <=> a \in Registered

\* The voice goes to a registered agent, and goes nowhere only when there is no
\* agent, whatever registers, leaves, restarts and switches meanwhile; only a
\* registration under a running switch or mode change upsets it, and the next
\* switch or mode change puts it right.
TargetIsSound ==
  ~stale => /\ current \in Registered \cup {NoAgent}
            /\ current = NoAgent => Visible = <<>>

\* The messages of a terminal's queues, those that its broken link has lost left out.
UnderWay(t) ==
  LET a == NameOf[t]
      queued == Only(writes[t], {Msg(m) : m \in Messages})
  IN  [i \in 1..Len(queued) |-> queued[i][2]] \o
        IF owner[a] = t /\ link[t] = "up" THEN stream[a] ELSE <<>>

Given(t) ==
  LET first == Only(screen[t], {FirstUnit(m) : m \in Messages})
  IN  [i \in 1..Len(first) |-> first[i][2]]

\* What was sent to an agent's connection and is not in its queue yet: in the hands
\* of the loop, or of a sender.
Waiting(a) ==
  ToSet(soon[a]) \cup {inHand[s].msg : s \in {r \in Sender : inHand[r].live /\ inHand[r].to = a}}

Bound(t) ==
  IF owner[NameOf[t]] = t /\ link[t] = "up" THEN Waiting(NameOf[t]) ELSE {}

Channel == INSTANCE MessageChannel WITH
  connected <- [t \in Terminals |-> link[t] = "up"],
  sent <- used,
  bound <- [t \in Terminals |-> Bound(t)],
  pending <- [t \in Terminals |-> UnderWay(t)],
  delivered <- [t \in Terminals |-> Given(t)]

\* The link implements the channel: in order, at most once, on one terminal; what
\* was sent to a live connection is lost only if that connection ends, and no
\* message of another terminal is lost with it.
ChannelSpec == Channel!Spec

\* Nothing stays in a terminal's queues: what a live connection holds is read, and
\* what was read is written, unless the session ends first.
StreamIsRead == \A t \in Terminals : UnderWay(t) # <<>> ~> (UnderWay(t) = <<>> \/ stop[t])
=============================================================================
