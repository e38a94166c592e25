---------------------------- MODULE AgentRegistry ----------------------------
(***************************************************************************)
(* The engine's agent registry (core/agent_manager.py): who is registered, *)
(* who gets the voice, and who gets it back after a restart.  It has no    *)
(* lock.  HTTP sessions register and unregister on the server's event      *)
(* loop, switches run on the controller thread and mode changes on a       *)
(* thread of their own, so the two last are modelled in two steps: what    *)
(* they read of the registry, and what they write.                         *)
(***************************************************************************)
EXTENDS SequencesExt, Selection

CONSTANTS
  Agents,      \* names of the sessions that may connect
  NoAgent,     \* None
  Configured   \* initial_agent_id: Keyboard or NoAgent, from output.mode

Keyboard == "__keyboard__"
Tts == "__tts__"
Reserved == {Keyboard, Tts}
Ids == Agents \cup Reserved
Targets == Ids \cup {NoAgent}
Idle == "idle"

ASSUME NamesAssumption ==
  /\ Agents \cap Reserved = {}
  /\ NoAgent \notin Ids
  /\ Idle \notin Targets
  /\ Configured \in {Keyboard, NoAgent}

VARIABLES
  order,      \* _agent_order; _agents has the same ids
  current,    \* _current_agent_id
  preferred,  \* _last_sse_agent_id
  grace,      \* _preferred_agent_deadline: none, waiting, or elapsed
  picked,     \* what a switch of the controller thread has found, Idle if none runs
  mode,       \* what a mode change has decided, Idle if none runs
  raced,      \* history: the operations in progress under which the registry changed
  stale,      \* history: the operation that wrote current last was one of those
  saved       \* active_agent of session-state.json

registry == <<order, current, preferred, grace>>
switching == <<picked, mode, raced, stale>>
registryVars == <<registry, switching, saved>>

Registered == ToSet(order)
VisibleIn(o) == Only(o, Ids \ Reserved)
Visible == VisibleIn(order)
AgentMode(c) == c # Keyboard

RegistryTypeOK ==
  /\ order \in Seq(Ids)
  /\ current \in Targets
  /\ preferred \in Agents \cup {Tts, NoAgent}
  /\ grace \in {"none", "waiting", "elapsed"}
  /\ picked \in Targets \cup {Idle}
  /\ mode \in Targets \cup {Idle}
  /\ raced \subseteq {"switch", "mode"}
  /\ stale \in BOOLEAN
  /\ saved \in Targets

RestoredAlwaysWaits(s) ==
  /\ current' = NoAgent
  /\ preferred' = s
  /\ grace' = "waiting"
\* restore_session, on what the session file says.
Restored(s) ==
  /\ current' = IF s = Keyboard THEN Keyboard ELSE IF s = NoAgent THEN Configured ELSE NoAgent
  /\ preferred' = IF s \in {Keyboard, NoAgent} THEN NoAgent ELSE s
  /\ grace' = IF s \in {Keyboard, NoAgent} THEN "none" ELSE "waiting"

RegistryInit ==
  /\ order = <<Keyboard>>
  /\ current = Configured
  /\ preferred = NoAgent
  /\ grace = "none"
  /\ picked = Idle
  /\ mode = Idle
  /\ raced = {}
  /\ stale = FALSE
  /\ saved = current

-----------------------------------------------------------------------------
\* check_grace_period on a registry that has just become o and c.
GraceEnds(o, c) ==
  /\ grace = "elapsed"
  /\ AgentMode(c)
  /\ c \in Reserved \cup {NoAgent}
  /\ VisibleIn(o) # <<>>

\* _notify: the grace period is checked first, then the session is saved.
Notify(o, c) ==
  /\ current' = IF GraceEnds(o, c)
                  THEN Head(VisibleIn(o))
                  ELSE c
  /\ grace' = IF grace = "elapsed" THEN "none" ELSE grace
  /\ saved' = current'

\* Nothing is saved and no grace period is checked when nothing is notified.
Quiet(c) == current' = c /\ UNCHANGED <<grace, saved>>

\* The registry changes under a switch or a mode change that has read it.
Races ==
  raced' = {o \in {"switch", "mode"} : IF o = "switch" THEN picked # Idle ELSE mode # Idle}

Activated(id) ==
  IF \/ preferred = id
     \/ current = NoAgent
     \/ AgentMode(current) /\ current \in Reserved
    THEN id
    ELSE current

Register(id) ==
  IF id \in Registered
    THEN UNCHANGED registryVars
    ELSE /\ order' = Append(order, id)
         /\ Notify(order', IF id \in Reserved THEN current ELSE Activated(id))
         /\ Races
         /\ UNCHANGED <<preferred, picked, mode, stale>>

\* The visible agents, taken before the id was removed.
SuccessorBefore(id, left) ==
  IF Visible = <<>> THEN NoAgent ELSE Head(Visible)
Successor(id, left) ==
  IF VisibleIn(left) = <<>> THEN NoAgent ELSE Head(VisibleIn(left))

\* The current agent's successor is announced by _set_current, which notifies too.
UnregisterCurrentOnly(id) ==
  IF id \notin Registered \/ current # id
    THEN UNCHANGED registryVars
    ELSE /\ order' = Only(order, Ids \ {id})
         /\ Notify(order', Successor(id, order'))
         /\ Races
         /\ UNCHANGED <<preferred, picked, mode, stale>>
Unregister(id) ==
  LET left == Only(order, Ids \ {id})
  IN  IF id \notin Registered
        THEN UNCHANGED registryVars
        ELSE /\ order' = left
             /\ Notify(left, IF current = id THEN Successor(id, left) ELSE current)
             /\ Races
             /\ UNCHANGED <<preferred, picked, mode, stale>>

-----------------------------------------------------------------------------
(***************************************************************************)
(* The controller thread: switch_by_direction, _by_name and _by_index.     *)
(***************************************************************************)
\* The 1-based place of the current agent, the first when it is not registered.
CurrentIndex == IF current \in Registered THEN SelectInSeq(order, LAMBDA a : a = current) ELSE 1

ByDirection(d) == order[((CurrentIndex - 1 + d) % Len(order)) + 1]

\* A name may match any registered id, an index any place in the order.
SwitchPicks ==
  /\ picked = Idle
  /\ order # <<>>
  /\ picked' \in {ByDirection(1), ByDirection(-1)} \cup Registered
  /\ UNCHANGED <<registry, mode, raced, stale, saved>>

\* _set_current does nothing when the agent is the current one already.
SwitchSets ==
  /\ picked # Idle
  /\ IF picked = current THEN Quiet(current) ELSE Notify(order, picked)
  /\ picked' = Idle
  /\ stale' = ("switch" \in raced)
  /\ raced' = raced \ {"switch"}
  /\ UNCHANGED <<order, preferred, mode>>

(***************************************************************************)
(* set_output_mode, on a thread of the HTTP server.                        *)
(***************************************************************************)
AgentsTarget ==
  IF preferred \in Registered THEN preferred
  ELSE IF Visible # <<>> THEN Head(Visible) ELSE NoAgent

ModePicks ==
  /\ mode = Idle
  /\ mode' = IF AgentMode(current) THEN Keyboard ELSE AgentsTarget
  /\ preferred' = IF AgentMode(current) /\ current # NoAgent THEN current ELSE preferred
  /\ UNCHANGED <<order, current, grace, picked, raced, stale, saved>>

ModeSets ==
  /\ mode # Idle
  /\ Notify(order, mode)
  /\ mode' = Idle
  /\ stale' = ("mode" \in raced)
  /\ raced' = raced \ {"mode"}
  /\ UNCHANGED <<order, preferred, picked>>

\* A notification of another part of the engine.
OtherNotify ==
  /\ Notify(order, current)
  /\ UNCHANGED <<order, preferred, switching>>

GraceElapses ==
  /\ grace = "waiting"
  /\ grace' = "elapsed"
  /\ UNCHANGED <<order, current, preferred, switching, saved>>

\* A new engine process: the keyboard agent registers, then the session is
\* restored from the file, which the next notification writes again.
RegistryRestarts ==
  /\ order' = <<Keyboard>>
  /\ Restored(saved)
  /\ picked' = Idle
  /\ mode' = Idle
  /\ raced' = {}
  /\ stale' = FALSE
  /\ UNCHANGED saved
=============================================================================
