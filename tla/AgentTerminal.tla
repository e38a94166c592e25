---------------------------- MODULE AgentTerminal ----------------------------
(***************************************************************************)
(* "dictare agent <name>" (agent/mux.py, agent/pty_session.py): a program  *)
(* in a pseudo-terminal, with three threads.  One reads the keyboard, one  *)
(* the messages of the engine; both put what they read in a queue, and the *)
(* third, the only one that does, writes it to the program.                *)
(***************************************************************************)
EXTENDS Naturals, SequencesExt

CONSTANTS
  Terminals,   \* the dictare agent processes
  Messages,    \* transcriptions
  Operation    \* what each asks for: its text and Enter or a new line after it,
               \* the text only, or Enter only (no text)

ASSUME OperationAssumption == Operation \in [Messages -> {"submit", "newline", "none", "enter"}]

VARIABLES
  mux,      \* run_agent: off, checked (pre-flight passed), running, ended
  stop,     \* stop_event
  link,     \* the SSE subscription: none, up, or refused (DuplicateAgentError)
  writes,   \* write_queue
  writer,   \* what the writer thread has left of an item, Free between two, Done when it ended
  screen    \* what the program was given

terminalVars == <<mux, stop, link, writes, writer, screen>>

Free == <<"free">>
Done == <<"done">>
Key == <<"raw">>
Error == <<"error">>
Msg(m) == <<"msg", m>>
Text(m) == <<"text", m>>
\* Enter, or Alt+Enter for a visual newline: a write of its own, after a delay.
Enter(m) == <<Operation[m], m>>

Item == {Key, Error} \cup {Msg(m) : m \in Messages}
Unit == {Key} \cup {Text(m) : m \in Messages} \cup {Enter(m) : m \in Messages}

\* The first thing the writer makes of a message, and what is left of it then.
FirstUnit(m) == IF Operation[m] = "enter" THEN Enter(m) ELSE Text(m)
RestEndsWriter(m) == IF Operation[m] \in {"submit", "newline"} THEN Enter(m) ELSE Done
Rest(m) == IF Operation[m] \in {"submit", "newline"} THEN Enter(m) ELSE Free

TerminalTypeOK ==
  /\ mux \in [Terminals -> {"off", "checked", "running", "ended"}]
  /\ stop \in [Terminals -> BOOLEAN]
  /\ link \in [Terminals -> {"none", "up", "refused"}]
  /\ writes \in [Terminals -> Seq(Item)]
  /\ writer \in [Terminals -> {Free, Done} \cup {Enter(m) : m \in Messages}]
  /\ screen \in [Terminals -> Seq(Unit)]

TerminalInit ==
  /\ mux = [t \in Terminals |-> "off"]
  /\ stop = [t \in Terminals |-> FALSE]
  /\ link = [t \in Terminals |-> "none"]
  /\ writes = [t \in Terminals |-> <<>>]
  /\ writer = [t \in Terminals |-> Free]
  /\ screen = [t \in Terminals |-> <<>>]

Queue(t, item) == writes' = [writes EXCEPT ![t] = Append(@, item)]
Prints(t, unit) == screen' = [screen EXCEPT ![t] = Append(@, unit)]

\* The engine answers and the name is not among its connected agents.
Preflight(t) ==
  /\ mux[t] = "off"
  /\ mux' = [mux EXCEPT ![t] = "checked"]
  /\ UNCHANGED <<stop, link, writes, writer, screen>>

Launch(t) ==
  /\ mux[t] = "checked"
  /\ mux' = [mux EXCEPT ![t] = "running"]
  /\ UNCHANGED <<stop, link, writes, writer, screen>>

\* The thread of the keyboard ends with stop_event.
TypeKeyDirect(t) ==
  /\ mux[t] = "running"
  /\ ~stop[t]
  /\ Prints(t, Key)
  /\ UNCHANGED <<mux, stop, link, writes, writer>>
TypeKey(t) ==
  /\ mux[t] = "running"
  /\ ~stop[t]
  /\ Queue(t, Key)
  /\ UNCHANGED <<mux, stop, link, writer, screen>>

Connects(t) ==
  /\ link' = [link EXCEPT ![t] = "up"]
  /\ UNCHANGED <<mux, stop, writes, writer, screen>>

\* DuplicateAgentError ends the thread of the messages.
IsRefused(t) ==
  /\ link' = [link EXCEPT ![t] = "refused"]
  /\ Queue(t, Error)
  /\ UNCHANGED <<mux, stop, writer, screen>>

Wants(t) == mux[t] = "running" /\ ~stop[t] /\ link[t] = "none"

\* A connection that broke, or that the subscriber closes because of stop_event.
LinkEnds(t) ==
  /\ link[t] = "up"
  /\ link' = [link EXCEPT ![t] = "none"]
  /\ UNCHANGED <<mux, stop, writes, writer, screen>>

Receives(t, m) ==
  /\ link[t] = "up"
  /\ ~stop[t]
  /\ Queue(t, Msg(m))
  /\ UNCHANGED <<mux, stop, link, writer, screen>>

\* One item of the queue; of a message with a text only that, the rest comes later.
WriteItem(t) ==
  /\ writer[t] = Free
  /\ ~stop[t]
  /\ writes[t] # <<>>
  /\ writes' = [writes EXCEPT ![t] = Tail(@)]
  /\ LET item == Head(writes[t])
     IN  CASE item = Error ->
                /\ stop' = [stop EXCEPT ![t] = TRUE]
                /\ writer' = [writer EXCEPT ![t] = Done]
                /\ UNCHANGED screen
           [] item = Key ->
                /\ Prints(t, Key)
                /\ UNCHANGED <<stop, writer>>
           [] OTHER ->
                /\ Prints(t, FirstUnit(item[2]))
                /\ writer' = [writer EXCEPT ![t] = Rest(item[2])]
                /\ UNCHANGED stop
  /\ UNCHANGED <<mux, link>>

\* The delay is a wait for stop_event, which shortens it: the key is written all
\* the same.
WriteEnter(t) ==
  /\ writer[t] \notin {Free, Done}
  /\ mux[t] = "running"
  /\ Prints(t, writer[t])
  /\ writer' = [writer EXCEPT ![t] = Free]
  /\ UNCHANGED <<mux, stop, link, writes>>

\* run_output_loop ends with the program, and the process soon after it.
ProgramExits(t) ==
  /\ mux[t] = "running"
  /\ mux' = [mux EXCEPT ![t] = "ended"]
  /\ stop' = [stop EXCEPT ![t] = TRUE]
  /\ writer' = [writer EXCEPT ![t] = Done]
  /\ UNCHANGED <<link, writes, screen>>

\* The engine's process is gone, and every connection with it.
LinksLost ==
  /\ link' = [t \in Terminals |-> IF link[t] = "up" THEN "none" ELSE link[t]]
  /\ UNCHANGED <<mux, stop, writes, writer, screen>>

-----------------------------------------------------------------------------
\* The single writer: the Enter that submits a message, or its newline, comes
\* directly after the text of the same message, no key and no other text
\* between them, whatever the keyboard and the engine send meanwhile.
EnterFollowsText ==
  \A t \in Terminals :
    \A i \in 1..Len(screen[t]) :
      screen[t][i][1] \in {"submit", "newline"} =>
        i > 1 /\ screen[t][i - 1] = Text(screen[t][i][2])

\* "Fatal error from SSE thread -- stop the session": a session whose threads
\* were stopped by a refused connection ends.
ErrorEndsSession == \A t \in Terminals : (link[t] = "refused" /\ stop[t]) ~> mux[t] = "ended"
=============================================================================
