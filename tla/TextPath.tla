------------------------------ MODULE TextPath ------------------------------
(***************************************************************************)
(* From a transcription to the agent (core/engine.py: inject_text,         *)
(* _submit_action, resend_last; pipeline/executors; agent/keyboard.py).    *)
(*                                                                         *)
(* Two threads inject: the controller's, each transcription in turn, and   *)
(* the one of the "repeat" shortcut.  A double tap of the hotkey thread    *)
(* and mute commands of the API come at any time.                          *)
(***************************************************************************)
EXTENDS Triggers, TLC

CONSTANTS
  Keyboard,     \* the keyboard agent, one of Agents
  Scenarios     \* what a behaviour starts with: its texts, and how many of each event it has

Thread == {"controller", "repeat"}

VARIABLES
  registered,   \* agents, and the filter's agent_ids
  current,      \* the current agent
  speaking,     \* the state is RECORDING, or the VAD hears speech
  queue,        \* utterances, each with the agent captured for it and whether it is transcribed
  last,         \* _last_text
  muted,        \* _voice_muted
  pending,      \* _submit_pending
  inj,          \* what each thread is doing in inject_text
  lock,         \* who has _injection_lock
  typing,       \* the keyboard agent's queue
  done,         \* threads whose keyboard message has been answered
  sent,         \* history: what the agents were given
  armed,        \* history: double taps that were deferred
  raced,        \* history: two threads read a deferred submit before either cleared it
  left          \* what is left of the scenario

pathVars == <<registered, current, speaking, queue, last, muted, pending, inj, lock, typing, done,
          sent, armed, raced, left>>

Nothing == <<>>
Resting == [phase |-> "idle", text |-> Nothing, to |-> NoAgent, took |-> FALSE, out |-> Nothing,
            ids |-> {}]
Phase == {"idle", "read", "filtered", "ready", "sending", "waiting"}

Texts == Seq(Seq(STRING))

ASSUME ScenariosAssumption ==
  Scenarios \subseteq [texts : Seq(Texts), current : Agents \cup {NoAgent}, muted : BOOLEAN,
                      auto : BOOLEAN, taps : Nat, mutes : Nat, leaves : Nat, repeats : Nat]

PathInit ==
  /\ left \in Scenarios
  /\ registered = Agents
  /\ current = left.current
  /\ speaking = FALSE
  /\ queue = Nothing
  /\ last = Nothing
  /\ muted = left.muted
  /\ pending = FALSE
  /\ inj = [th \in Thread |-> Resting]
  /\ lock = "free"
  /\ typing = Nothing
  /\ done = {}
  /\ sent = Nothing
  /\ armed = 0
  /\ raced = FALSE

Spend(what) == left[what] > 0 /\ left' = [left EXCEPT ![what] = @ - 1]
Moves(th, rec) == inj' = [inj EXCEPT ![th] = rec]
\* What an agent is given, with what was said and the agents that could be named then.
Given(to, m, i) == [to |-> to, text |-> m.text, ops |-> m.ops, said |-> i.text, ids |-> i.ids]

-----------------------------------------------------------------------------
(***************************************************************************)
(* What the user and the network do.                                       *)
(***************************************************************************)
SpeechStarts ==
  /\ ~speaking
  /\ left.texts # Nothing
  /\ speaking' = TRUE
  /\ UNCHANGED <<registered, current, queue, last, muted, pending, inj, lock, typing, done, sent,
                 armed, raced, left>>

\* An utterance that is discarded, or in which nothing is heard, injects no text.
SpeechEnds ==
  /\ speaking
  /\ speaking' = FALSE
  /\ left' = [left EXCEPT !.texts = Tail(@)]
  /\ LET text == Head(left.texts)
     IN  IF text = Nothing
           THEN UNCHANGED queue
           ELSE queue' = Append(queue, [text |-> text, to |-> current, heard |-> FALSE])
  /\ UNCHANGED <<registered, current, last, muted, pending, inj, lock, typing, done, sent, armed, raced>>

\* The STT worker has the text; the controller's event comes next.
Transcribes ==
  \E k \in DOMAIN queue :
    /\ ~queue[k].heard
    /\ \A j \in 1..(k - 1) : queue[j].heard
    /\ queue' = [queue EXCEPT ![k].heard = TRUE]
    /\ last' = queue[k].text
    /\ UNCHANGED <<registered, current, speaking, muted, pending, inj, lock, typing, done, sent, armed,
                   raced, left>>

\* _submit_action: deferred while there is speech to wait for, else sent at once.
DoubleTap ==
  /\ Spend("taps")
  /\ IF speaking \/ queue # Nothing
       THEN /\ pending' = TRUE
            /\ armed' = armed + 1
            /\ UNCHANGED sent
       ELSE /\ IF current \in registered
                 THEN sent' = Append(sent, Given(current, Message(Nothing, "auto"), Resting))
                 ELSE UNCHANGED sent
            /\ UNCHANGED <<pending, armed>>
  /\ UNCHANGED <<registered, current, speaking, queue, last, muted, inj, lock, typing, done, raced>>

\* mute() and unmute().
Mutes ==
  /\ Spend("mutes")
  /\ muted' = ~muted
  /\ UNCHANGED <<registered, current, speaking, queue, last, pending, inj, lock, typing, done, sent,
                 armed, raced>>

\* An agent disconnects; the next one becomes current.
Leaves ==
  \E a \in registered \ {Keyboard} :
    /\ Spend("leaves")
    /\ registered' = registered \ {a}
    /\ current' \in IF current # a THEN {current}
                    ELSE IF registered' \ {Keyboard} = {} THEN {NoAgent}
                    ELSE registered' \ {Keyboard}
    /\ UNCHANGED <<speaking, queue, last, muted, pending, inj, lock, typing, done, sent, armed, raced>>

-----------------------------------------------------------------------------
(***************************************************************************)
(* inject_text.                                                            *)
(***************************************************************************)
\* It reads the deferred submit ...
Begins(th, text, to) ==
  /\ inj[th].phase = "idle"
  /\ Moves(th, [Resting EXCEPT !.phase = "read", !.text = text, !.to = to, !.took = pending])
  /\ raced' = (raced \/ (pending /\ \E o \in Thread : inj[o].phase = "read" /\ inj[o].took))

Transcribed ==
  /\ queue # Nothing
  /\ Head(queue).heard
  /\ Begins("controller", Head(queue).text, Head(queue).to)
  /\ queue' = Tail(queue)
  /\ UNCHANGED <<registered, current, speaking, last, muted, pending, lock, typing, done, sent, armed,
                 left>>

resend_last ==
  /\ last # Nothing
  /\ Spend("repeats")
  /\ Begins("repeat", last, NoAgent)
  /\ UNCHANGED <<registered, current, speaking, queue, last, muted, pending, lock, typing, done, sent,
                 armed>>

\* ... and clears it, builds the message and has it filtered.
KeepSubmit(took) == pending
ClearSubmit(took) == IF took THEN FALSE ELSE pending

Prepares(th) ==
  LET i == inj[th]
      ops == IF i.took THEN "tap" ELSE IF left.auto THEN "auto" ELSE "newline"
  IN  /\ i.phase = "read"
      /\ pending' = ClearSubmit(i.took)
      /\ Moves(th, [i EXCEPT !.phase = "filtered",
                             !.ids = registered \ {Keyboard},
                             !.out = Filters(Message(i.text, ops), muted, registered \ {Keyboard})])
      /\ UNCHANGED <<registered, current, speaking, queue, last, muted, lock, typing, done, sent, armed,
                     raced, left>>

\* MuteExecutor and AgentSwitchExecutor consume the commands; then the target is
\* resolved again when none was captured.
Executes(th) ==
  LET i == inj[th]
      muting == SelectSeq(i.out, LAMBDA m : m.mute # "none")
      switching == SelectSeq(i.out, LAMBDA m : m.switch \in registered)
  IN  /\ i.phase = "filtered"
      /\ muted' = IF muting = Nothing THEN muted ELSE Last(muting).mute = "mute"
      /\ current' = IF switching = Nothing THEN current ELSE Last(switching).switch
      /\ Moves(th, [i EXCEPT !.phase = "ready",
                             !.to = IF @ = NoAgent THEN current' ELSE @])
      /\ UNCHANGED <<registered, speaking, queue, last, pending, lock, typing, done, sent, armed, raced,
                     left>>

TakesLock(th) ==
  /\ inj[th].phase = "ready"
  /\ lock = "free"
  /\ lock' = th
  /\ Moves(th, [inj[th] EXCEPT !.phase = "sending"])
  /\ UNCHANGED <<registered, current, speaking, queue, last, muted, pending, typing, done, sent, armed,
                 raced, left>>

\* What an executor has consumed, or is empty and submits nothing, is skipped; an
\* agent that has gone takes nothing.
Sends(th) ==
  LET i == inj[th]
      m == Head(i.out)
      rest == [i EXCEPT !.out = Tail(@)]
      skipped == \/ m.mute # "none" \/ m.switch # NoAgent
                 \/ m.text = Nothing /\ ~Submits(m)
  IN  /\ i.phase = "sending"
      /\ i.out # Nothing
      /\ IF i.to = Keyboard /\ ~skipped
           THEN /\ typing' = Append(typing, [from |-> th, given |-> Given(Keyboard, m, i)])
                /\ done' = done \ {th}
                /\ Moves(th, [rest EXCEPT !.phase = "waiting"])
                /\ UNCHANGED sent
           ELSE /\ Moves(th, rest)
                /\ IF skipped \/ i.to \notin registered THEN UNCHANGED sent
                   ELSE sent' = Append(sent, Given(i.to, m, i))
                /\ UNCHANGED <<typing, done>>
      /\ UNCHANGED <<registered, current, speaking, queue, last, muted, pending, lock, armed, raced, left>>

Returns(th) ==
  /\ inj[th].phase = "sending"
  /\ inj[th].out = Nothing
  /\ lock' = "free"
  /\ Moves(th, Resting)
  /\ UNCHANGED <<registered, current, speaking, queue, last, muted, pending, typing, done, sent, armed,
                 raced, left>>

-----------------------------------------------------------------------------
(***************************************************************************)
(* KeyboardAgent: its worker, and send() that waits for it.                *)
(***************************************************************************)
\* An injector that fails says so; one that raises leaves the message unanswered.
WorkerTypes ==
  /\ typing # Nothing
  /\ typing' = Tail(typing)
  /\ sent' \in {sent, Append(sent, Head(typing).given)}
  /\ done' \in {done \cup ({Head(typing).from} \cap Thread)} \cup (IF sent' = sent THEN {done} ELSE {})
  /\ UNCHANGED <<registered, current, speaking, queue, last, muted, pending, inj, lock, armed, raced,
                 left>>

GoesOn(th) ==
  /\ inj[th].phase = "waiting"
  /\ Moves(th, [inj[th] EXCEPT !.phase = "sending"])
  /\ UNCHANGED <<registered, current, speaking, queue, last, muted, pending, lock, done, sent, armed,
                 raced, left>>

Answered(th) ==
  /\ th \in done
  /\ GoesOn(th)
  /\ UNCHANGED typing

\* The message stays in the queue: it may be typed after all.
TimesOut(th) ==
  /\ th \notin done
  /\ GoesOn(th)
  /\ typing' = [k \in DOMAIN typing |-> IF typing[k].from = th THEN [typing[k] EXCEPT !.from = "nobody"]
                                        ELSE typing[k]]

-----------------------------------------------------------------------------
Step(th) ==
  \/ Prepares(th) \/ Executes(th) \/ TakesLock(th) \/ Sends(th) \/ Returns(th)
  \/ Answered(th) \/ TimesOut(th)

PathNext ==
  \/ SpeechStarts \/ SpeechEnds \/ DoubleTap \/ Mutes \/ Leaves
  \/ Transcribes \/ Transcribed \/ resend_last
  \/ \E th \in Thread : Step(th)
  \/ WorkerTypes

PathSpec == PathInit /\ [][PathNext]_pathVars

-----------------------------------------------------------------------------
(***************************************************************************)
(* Properties.                                                             *)
(***************************************************************************)
PathTypeOK ==
  /\ registered \subseteq Agents
  /\ current \in Agents \cup {NoAgent}
  /\ {speaking, muted, pending, raced} \subseteq BOOLEAN
  /\ \A k \in DOMAIN queue : queue[k].text \in Texts /\ queue[k].heard \in BOOLEAN
  /\ last \in Texts
  /\ \A th \in Thread : inj[th].phase \in Phase
  /\ lock \in Thread \cup {"free"}
  /\ \A th \in Thread : lock = th <=> inj[th].phase \in {"sending", "waiting"}
  /\ done \subseteq Thread
  /\ armed \in Nat

\* The submits among messages, and among those for the keyboard agent.
TapsIn(messages) == Cardinality({k \in DOMAIN messages : messages[k].ops = "tap"})
TapsQueued(queued) == Cardinality({k \in DOMAIN queued : queued[k].given.ops = "tap"})
One(b) == IF b THEN 1 ELSE 0

\* A double tap submits one message at most, however many texts are injected
\* around it by either thread -- unless both threads read it at the same time.
OneTapOneSubmit == ~raced => TapsIn(sent) + One(pending) <= armed

\* What makes it inductive: a thread that has read a submit finds it still there,
\* alone, and a submit that was taken is in one place: with the thread that took
\* it, on its way to the keyboard, or given to an agent.
Took(th) == inj[th].phase = "read" /\ inj[th].took
TapsInHand == TapsIn(inj["controller"].out) + TapsIn(inj["repeat"].out)
TapsSpent == TapsIn(sent) + TapsQueued(typing) + TapsInHand + One(pending)

SubmitsAccounted ==
  ~raced =>
    /\ \A th \in Thread : Took(th) => pending
    /\ \A th, o \in Thread : Took(th) /\ Took(o) => th = o
    /\ TapsSpent <= armed

\* The words before the one that holds the i-th token.
CutAt(text, i) ==
  SubSeq(text, 1, Min({k \in 1..Len(text) : Len(tokenize(SubSeq(text, 1, k))) >= i}) - 1)

\* What is left of an utterance that names an agent, and of one that asks to be submitted.
Addressed(said, ids) ==
  LET found == AgentMatches(tokenize(said), ids)
  IN  IF found = {} THEN said ELSE CutAt(said, Min(found))

Content(s) ==
  LET text == Addressed(s.said, s.ids)
  IN  IF s.ops = "voice"
        THEN CutAt(text, find_best_match(tokenize(text), SubmitPatterns, ScanWords).start)
        ELSE text

\* "Everything from the FIRST trigger word to the END of the text is removed", and
\* nothing before it: an agent gets the words before the command, and only these.
TriggerIsCut == \A k \in DOMAIN sent : sent[k].text = Content(sent[k])

TriggerTokens ==
  AgentTriggers \cup UNION {Head(SubmitPatterns[p].slots) : p \in DOMAIN SubmitPatterns}

\* The same, of utterances in which no trigger word occurs twice.
CutsAtTrigger ==
  \A k \in DOMAIN sent :
    LET tokens == tokenize(sent[k].said)
    IN  (\A i, j \in DOMAIN tokens : tokens[i] = tokens[j] /\ tokens[i] \in TriggerTokens => i = j)
          => sent[k].text = Content(sent[k])

\* The text ends with the trigger, all of it among the words that are scanned for it.
EndsWith(tokens, p) ==
  LET n == Len(p.slots)
  IN  /\ n \in 1..Len(tokens)
      /\ p.lastWord \/ n <= ScanWords
      /\ \A k \in 1..n : tokens[Len(tokens) - n + k] \in p.slots[k]

\* A text that ends with a submit trigger is submitted, wherever else the parts of
\* this or another trigger occur in it, and whatever commands were cut off behind it.
EndTriggerIsObeyed ==
  \A k \in DOMAIN sent :
    sent[k].ops = "newline" =>
      \A p \in DOMAIN SubmitPatterns : ~EndsWith(tokenize(sent[k].text), SubmitPatterns[p])
=============================================================================
