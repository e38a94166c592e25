# A TLA+ model of dictare

dictare is a voice layer for programs that run in terminals: it listens to a
microphone, cuts the audio into utterances, transcribes them on the local
machine and sends the text to an *agent* (a connected terminal session) or to
the keyboard. It also speaks: agent announcements, speech requests, sounds. An
engine process does this; a launcher starts it, a menu bar application and a
settings page show and change it. This directory holds TLA+ modules that model
the engine's threads and the processes around it, TLC configurations that check
them, and theorems checked by TLAPS. `PROJECT.json` lists every component, run,
theorem and hazard, and maps every definition to the lines it stands for.
Paths below are relative to `src/src/dictare/`.

## The system

| component | code | state | operations | what is hard |
|---|---|---|---|---|
| state controller | `core/controller.py`, `core/fsm.py` | FSM state, play counter, desired state, deferred transcription, watchdog | one handler per message of the event queue | messages are acted on later than they were sent; timers that were cancelled too late |
| speech path of the engine | `core/engine.py` | STT jobs, worker generation, current agent | VAD callbacks, transcription, hang recovery, requeueing of parked speech, injection | a native call that never returns; the agent may change or leave |
| streaming VAD | `audio/vad.py` | speaking flag, buffer, pre-buffer, counters | process_chunk, flush, reset | runs in the audio callback, is flushed and reset by the controller's thread |
| parked audio | `core/audio_manager.py` | bounded queue | queue_audio, pop, clear | overflow, leftovers of an earlier activity |
| playback, speech | `audio/beep.py`, `core/tts_manager.py`, `tts/proxy.py`, `tts/worker.py` | sounds in the queue, active requests, worker and its requests | play_audio, handle_speech, stop, completions | overlapping playbacks pause the microphone together; worker death, late completions |
| text pipeline | `pipeline/`, `agent/keyboard.py` | mute flag, pending submit, injection lock | filters, executors, keyboard worker | triggers anywhere in a text; one submit, two injecting threads |
| agent manager | `core/agent_manager.py` | registered ids, current id | register, unregister, switch, output mode | called by HTTP threads without a lock |
| agent sessions | `core/http_server.py`, `core/http_routes_openvip.py` | one queue per SSE connection | connect, replace, put_message, evict | messages for a connection that is going away |
| multiplexer | `agent/mux.py`, `agent/pty_session.py` | PTY write queue | SSE reader, keyboard, single writer | reconnection, an Enter that is due later |
| feedback policy | `audio/feedback_policy.py` | focus flags, debounce timers | set_focus, remove_agent | late timers |
| tap detector | `hotkey/tap_detector.py` | five states, one timer slot | key events, two timeouts | a timer that fires while it is being cancelled |
| hotkey transport | `resources/launcher.swift`, `hotkey/ipc.py`, `app/controller.py` | what the launcher sent and by which way | key.down, key.up, other_key, key.combo, SIGUSR1 | late or lost acknowledgements, an event sent twice by two ways |
| hotkey listeners | `hotkey/evdev_listener.py`, `hotkey/pynput_listener.py`, `hotkey/factory.py` | key, device, capture in progress | choice of key and device, key events, captures | a capture shares two attributes with the listener's thread, without a lock |
| audio control | `audio/supervisor.py` | request queue, coalescing keys, poison flag | execute, request, shutdown | callers wait for an owner thread that may die |
| audio recovery | `core/audio_manager.py`, `audio/device_monitor.py` | stream, monitor, retry | device change, sleep, wake, reconnect | events during recovery |
| engine process | `cli/serve.py`, `app/controller.py`, `core/engine.py`, `process_exit.py` | PID file, port, exit code | start, exit requests, watchdog | requests that race, starts that compete |
| runtime store | `runtime_store.py`, `cli/upgrade.py`, `cli/repair.py` | two links, `python_path` | install, activate, roll back, repair | a kill between two steps |
| services, bundle | `daemon/launchd.py`, `daemon/app_bundle.py`, `cli/service.py` | plists, jobs, launchers, Dictare.app | install, uninstall, start, stop, restart, repair, launch at login | launchd does not own the launcher; commands that are killed or that end their own process |
| configuration | `core/toml_sections.py`, `config.py` | config.toml | section editors, single values | two parsers of one file |
| tray | `tray/app.py` | menu, icon, targets, mode | clicks, status polling | the engine answers late, never, or something else meanwhile |
| installs | `core/http_server.py`, `core/http_routes_models.py`, `tts/venv.py` | jobs, progress queues, venv, cache | install, pull, uninstall, progress | a job told to nobody; a second POST meanwhile |

The components of the engine meet in the event queue of the state controller.
The audio callback, the STT worker, the watchdog timer, the playback threads,
HTTP handlers and the hotkey thread call `StateController.send`; one worker
thread takes messages in order and runs a handler to its end. A handler changes
the FSM and calls back into the engine, which may park or requeue audio, start a
transcription, inject text or start a sound, and a sound sends a message again.
Injected text goes through the pipeline to the queue of an agent's connection,
whose terminal writes it to its program. Around the engine, the launcher
restarts it, launchd starts the launcher, and the tray and the settings page
see it by HTTP only.

What makes the core correct: the FSM always leaves TRANSCRIBING and PLAYING;
the microphone is not given back while something plays; the user's OFF is
honoured; an utterance is transcribed and injected at most once, reaches the
agent it was spoken to, and is submitted once when it was asked for. Around it:
registry, queues and streams agree; a press of the hotkey is one press; audio
comes back after sleep; one engine serves and one that is poisoned is replaced;
an install leaves no second launcher and an engine; what the user sees catches up.

## Modules

The voice loop:

* `StateController.tla` has the shared variables, the messages and one action
  for each handler of `core/controller.py`, with the engine calls the handler
  makes. `plays` is `_current_play_id`, `desired` is
  `_desired_state_after_play`, `pending` is `_pending_transcription`, `armed` is
  the watchdog while it counts, `elapsed` counts timer threads that are past
  their wait and have not looked at the state yet, `audioQueue` is the parked
  audio.
* `VoiceLoop.tla` extends it with the threads that fill the queue: the audio
  callback, the STT worker, the watchdog, playback, speech requests, users and
  agents. `MCVoiceLoop.tla` gives TLC sets of commands and the symmetry of
  agents.
* `StreamingVad.tla` has `process_chunk`, `flush` and `reset` over a stream of
  numbered chunks; `SttWorker.tla` the worker generations: queue, reload,
  the two-step generation check, abandonment and late return.
  `SpeechInput.tla` composes them, with as much of the controller as decides
  which segment is handed over when. `MCSpeechInput.tla` is its instance.

From text to the agent:

* `Triggers.tla` has the filters as functions of a message (token matching with
  decaying confidence, agent names, submit and mute triggers); `TextPath.tla`
  the injection with its lock, the keyboard worker with its time-out, double taps, mutes, the
  agent that leaves, and "repeat".
* `AgentRegistry.tla` is the agent manager, `FocusPolicy.tla` the feedback
  policy, `AgentTerminal.tla` the multiplexer's threads around one write queue.
  `AgentLink.tla` composes them with the server's sessions. `MessageChannel.tla`
  is the abstract specification of the link: what was sent to a connection
  is given to its terminal in the order in which the writer accepted it, none twice,
  none elsewhere, and is dropped only when that connection ends (`Break`, the one step that drops anything and that takes the
  connection with it). `AgentLink` implements it by the refinement mapping
  `Channel` (property `ChannelSpec`); a message is sent when `put_message` has
  found a live connection for it.

Speech:

* `FeedbackQueue.tla` is the output worker with its sounds and loops;
  `SpeechOutput.tla` extends it with speech requests, the worker process, and
  what the controller is told.

Hotkey and audio:

* `TapDetector.tla` has the methods of the tap detector. `timer` is the timer
  that `_timer` names while it can be cancelled, `due` are timer threads past
  their wait, `orphans` are hold timers that a stale `_on_hold_timeout` made
  `_timer` forget. `HotkeyLink.tla` extends it with the two ways a press reaches
  the detector and with the engine that is not there yet or not any more.
* `AudioControl.tla` has the executor of native audio calls; `AudioRecovery.tla`
  extends it with the audio manager and the threads that use it. `todo` is what
  is left of the transaction in progress.

Processes and what surrounds them:

* `RuntimeStore.tla` has upgrade, rollback and repair, step by step.
  `EngineProcess.tla` extends it with engine processes, exit requests, watchdog
  and the supervisor.
* `Bundle.tla` is what is on disk for launchd to start: Dictare.app and
  `python_path`. `Services.tla` extends it with jobs, launchers and engines as
  the service commands see them; a command is the sequence of steps it has still
  to do (`todo`), and a step may put others in front. `KeyInput.tla` is the
  hotkey listener inside the engine, `ConfigEdit.tla` the configuration file
  under its editors. `Settings.tla` composes these three: what the settings page
  and the commands beside it change; when the engine goes, its listener, its
  captures and the switch's thread go with it.
* `Tray.tla` and `Installs.tla` are the menu bar application and the install
  jobs; `FrontEnds.tla` composes them with an engine that may go at any moment.

`Selection.tla` says the list comprehensions of `AgentRegistry` and `AgentLink` by
the places of what they keep, a form the provers can reason about.

`VoiceLoopProofs`, `HotkeyLinkProofs`, `AudioRecoveryProofs`, `SpeechInputProofs`,
`SettingsProofs`, `AgentLinkProofs`, `SpeechOutputProofs` and `EngineProcessProofs`
have the theorems about the modules they are named after; `HotkeyLinkProofs` has
also those of `TextPath`.
A definition that is the mutated form of another (`SaveAppends` before `Save`)
stands before it; it is used by no specification.

### What is abstracted

**Voice loop.** An utterance is a number in the order of speaking; of its audio only
whether it lasts `MIN_RECORDING_DURATION` is kept, of a text only whether it is
empty. A switch is by name. A handler is one step. What another thread can see
inside it is the FSM state it has just set; the one place where that matters is a
short utterance, which passes through TRANSCRIBING before it is rejected, and
`Rejecting` lets a timer thread see it. A producer reads the state and appends
its message in one step; a message that is appended later than it was decided is
behind the same messages as one that is appended at once while earlier commands
wait to be handled. The sample counting of the VAD is, here, a choice of when
speech starts and ends; a flush in the 32 ms after a max-speech cut is left out.
The STT worker is a queue of jobs whose head is being transcribed.
`SpeechInput` has the detail of both: chunks of three levels, durations counted
in chunks, and worker threads with each access to the shared fields as a step.
Realtime partials and the reset of the network after minutes of silence are left
out; which call of the worker runs does not matter, only that it
answers, fails, or hangs for ever.

**Text.** A word is the sequence of tokens `tokenize()` makes of it; confidence
is in steps of 1/10000. Filters are functions; the threads around them take one
step per lock, queue or flag they touch. The windows in which triggers are looked for (`ScanWords`, `MuteScanWords`,
`AgentScanWords`: 15, 10 and 10 words) have at least one word (`max_scan_words = 0`
would mean all). Accents, plugins, and the loading of
filters are left out.

**Agents.** A terminal is a `dictare agent` process. A message has the
operations the terminal tells apart (text, newline, Enter). The registration and
its generator's end are two steps each, as are the choice and the setting of a
switch. A stopped writer writes nothing more, where the code may write one more item;
that a write fails (`mux.py:871`) is left out. A stream whose generator never
starts keeps its registration (`http_routes_openvip.py:72`): nothing is assumed
of the generator's end. Recognition of claim keys and escape sequences, sizes, and
the status bar are left out.

**Speech.** Audio is a sound that ends or is stopped; the synthesis succeeds or
fails. Voices, caches' files and cue sounds are left out.

**Hotkey.** A key event is one step of the thread that brings it, as the
detector's lock makes it. An event that the launcher gave up may be handled at any
later time. A key.down is sent once for a press, where the launcher may repeat it
while the key is held (`launcher.swift:511`). A second SIGUSR1 is merged with one that is pending; the two halves
of the simulated tap are two steps. A signal that interrupts the main thread
while it holds the detector's lock is left out (a listed hazard). In `KeyInput` a
device is its list of keys and three facts about its name; an event is dispatched
in one step, but a captured key is written and the waiter woken in two.

**Audio.** A transaction of the owner thread is a list of native calls, and each
of them returns, raises, or times out; what the Python code between two calls
does belongs to the call before or to `Begin`. A call that brings a stream but no audio is an `open` followed by a
`discard`. Reading `reconnect_reason` and acting on it are two steps, and so are
adding a reason and requesting the work. Left out are the search for a device
chosen by name, the output device, the 10 s that focus-ins are ignored after one
that was heard, and the exit watchdog. An error of a nested stop of the output is
swallowed, as the code does.

**Processes.** In `EngineProcess` testing the exit code and writing it are two
steps; the code, its reason and the start of the watchdog are then one. Restart
delays are left out. In `RuntimeStore` every change of a link or a file is a step, and a
shell may be killed between any two; repair's stop, install and start are one step there,
and `Services` has them in detail. `WayBack` assumes one shell at a time and an
earlier upgrade.

**Services.** macOS only. What `launchctl unload` does to the launcher is a
choice, because LaunchServices owns it (external); `open`'s end after a clean end of
its launcher is final. It may leave the launcher alive, end it with its engine, or end
it and leave the engine as an orphan (`launchd.py:185`); an engine that is still starting has no PID
file and survives too (`loose`). SIGTERM, 3 s and SIGKILL are one step, and so is
`ensure_python_path` of a starting engine. A launcher, its mark and its hash are
three steps. A copy of the whole bundle puts its files in any order, and a command may be killed
when some are there and others not.
Permission prompts, the wait for a started engine, and the tray's PID file
(`tray/lifecycle.py`) are left out.

**Configuration.** The file is a sequence of headers, keys and notes; blank
lines and values are left out. A text saved in an editor is any sequence of lines
that tomlkit parses (`Readable`), as `_validate_section` looks at no more than
its own section: it may open with keys, or go on with another section. Such a text
is not shown as it was saved, and may reach what another editor or a setting
wrote. `strays` remembers the sections concerned, until a text that stays in its
section is saved there, and `EditorsShowSaved` and `ValuesKept` are about the
others. A plain section may be there by its sub-tables only (`SubTables`); tomlkit
then puts its header before the first of them. A file that a stray text made
unreadable, or in which it put a section behind its own sub-tables (which tomlkit
reads as a table out of order), takes no setting in the model. Each edit is one step: two processes that read, change and write the file at once (the
command line takes no lock, `config.py:706`) are not modelled.

**Tray and installs.** The menu is a snapshot of fields, built on the main
thread; each request and each service command has a thread of its own. Progress
is one event; sizes and speeds are left out. One capability is modelled, with a venv
and a repository. The Linux menu, which is built in the polling thread, is not.

Variables that a module's comments call *history* are not in the code; the
properties need them.

## Runs

| run | module, configuration | what it checks |
|---|---|---|
| `voice_loop` | `MCVoiceLoop`, `VoiceLoop.cfg` | `TranscribingHasExit`, `OffAskedInPlayIsHonoured`, `TranscribingEnds`, `PlayingEnds`: one agent, two utterances, one playback or speech request, one listening command, an STT worker that may hang for ever |
| `voice_loop_agents` | `MCVoiceLoop`, `VoiceLoopAgents.cfg` | `UtteranceInOnePlace`, `DirectSpeechKeepsAgent`: two agents that come and go, a switch, two utterances |
| `speech_input` | `MCSpeechInput`, `SpeechInput.cfg` | `SegmentsAreSound`, `AbandonedIsQuiet`, `UtteranceIsAnswered`: ten chunks of any level; or three utterances with workers that hang and come back |
| `text_path` | `MCTextPath`, `TextPath.cfg` | `OneTapOneSubmit`, `EndTriggerIsObeyed`: every text of up to four of eight words; and two threads that inject with taps, mutes, and agents that leave |
| `agent_link` | `MCAgentLink`, `AgentLink.cfg` | `SessionsAgree`, `TargetIsSound`, `EnterFollowsText`, `FlickerIsCaught`, `ChannelSpec`, `StreamIsRead`: two terminals with one name and one with another |
| `speech_output` | `MCSpeechOutput`, `SpeechOutput.cfg` | `MicAgrees`, `OkMeansHeard`, `MicComesBack`, `LoopDrains`: two requests and an announcement, faults, stops, sounds and loops |
| `hotkey` | `HotkeyLink`, `HotkeyLink.cfg` | `PressReportedOnce`, `ComboKeepsQuiet`, `TapIsDecided`: three presses, one other key, and every loss and delay |
| `audio_recovery` | `AudioRecovery`, `AudioRecovery.cfg` | `CallersHaveRequest`, `ReasonsNotStranded`, `WakeIsHandled`, `PoisonEndsRuntime`: two events of the system, one request of a user or a sound, errors and timeouts of every native call, the end of the engine at any time |
| `engine_process` | `MCEngineProcess`, `EngineProcess.cfg` | `OneServer`, `PoisonedIsReplaced`, `WayBack`, `AskedExitHappens`: competing starts with a crash; three exit requests with a fault; two upgrades, rollbacks or repairs with a failure or kill |
| `settings` | `MCSettings`, `Settings.cfg` | `EditorsShowSaved`, `ValuesKept`, `WakeHasKey`, `InstallLeavesAtMostOne`, `InstallServes`, `SignedStays`: edits with texts that stay and that stray; keys and captures; an unplugged device; service commands with a kill, a new version, an engine that ends, or the page's switch |
| `front_ends` | `MCFrontEnds`, `FrontEnds.cfg` | `MenuCatchesUp`, `EndIsSeen`: clicks, sessions, outages, service commands; installs with retries, removals, pages that join and leave |
| `off_reopened` | `MCVoiceLoop`, `VoiceLoopOff.cfg` | `OffUntilCommand` is violated |

Each property is stated with its reason in the module that defines it. What they
say together:

* The FSM has a way out of TRANSCRIBING and PLAYING and takes it, although
  timers, completions and plays of several threads overlap; an OFF asked for
  during a playback wins. An utterance is in one place at a time and reaches
  the agent it was spoken to, if it was not parked.
* The detector cuts the stream into pieces that lose nothing between them; a
  worker left behind answers nothing new; an utterance in hand is answered.
* A double tap submits one text, whichever of two threads injects it, and a text that ends with
  a submit trigger is submitted.
* Whatever link breaks, the registry names the agents that have a queue, the
  current agent exists, each Enter follows its own text, and messages arrive in
  order, at most once, and none is dropped while its connection lives (`ChannelSpec`).
* The microphone is paused exactly while the controller counts a play, is given
  back although the worker dies, and a request reported as spoken was heard.
* A press that reaches the detector twice is reported once and every tap is
  decided. No caller of the audio thread is forgotten, no event is dropped by
  coalescing, a wake that was reported is acted on, and after a native time-out the engine ends.
* One engine serves. A poisoned one ends with a code its supervisor acts on. A
  kill between two steps of an upgrade leaves a runtime that starts and a way
  back.
* An install that nothing disturbed leaves at most one launcher and an engine that
  serves, whatever earlier commands, kills and crashes left behind; once a signed
  launcher has its mark, nothing puts an unsigned one there, unless it was brought
  or dictare was uninstalled.
* An editor of the settings page shows what was saved in it and a setting stays
  set, whatever is edited around them, as long as every text stays in its
  section.
* Once things are quiet the menu says what the engine says; a page that shows an
  install hears how it ended, unless the same job was started again meanwhile.

`off_reopened`: the user presses the hotkey during TRANSCRIBING, the FSM goes
OFF, and the completion that is handled next takes it to LISTENING, because
`_handle_transcription_complete` forces the transition from any state.

### Bounds

Each composition is bounded by what the environment begins, and nothing else:
queues, timers and jobs follow from that. `MaxUtterances`, `MaxCommands`,
`MaxPrompts` and `MaxChurn` bound the voice loop, where each hazard needs few
events: an OFF, a play and a completion in the wrong order, two plays that
overlap, an utterance parked behind another and a switch. `AudioQueueSize` is 1
and not 10, so that a queue that is full can be reached with few utterances.
`MaxPresses` and `MaxOthers` bound the hotkey: three presses are a double tap
with a stale timer of an earlier tap. `MaxEvents` and `MaxCalls` bound the audio
(two events are a sleep and its wake, or an event during the recovery of another);
`Attempts` and `MaxReconnects` are 3 and 1 where the code has 5 of each, which
still gives a first attempt without and later ones with a reinitialisation, and a
breaker that trips and recovers.

The later compositions have budgets: a record of how much of each kind of event
a behaviour has, chosen in the initial state from a small set
(`MCBudgets`, `MCSettingsBudgets`, `MCFrontBudgets`, `MCSpeechBudgets`,
`MCScenarios`). Each element puts two or three kinds of event together that
interact, and leaves the others out; the comment beside it names the question.
`MaxTimers`, `MaxPuts` and `MaxGeneration` bound focus timers, messages under
way to a progress page, and worker generations. Three `Launchers` are those of
two installs and one left behind. In `SpeechInput` the lengths are 2 or 3 chunks
where the code has tens; they are parameters of the theorems. `Settings` has two
edited and two plain sections, four keys and up to three devices, enough for a
section between two others, an unnamed key, and a device of each rank before and
behind one of another.

Runs whose environment stops at its bounds do not check for deadlock; a hotkey
can always be pressed as a combo and the audio's engine ends in `Ended`, and
their runs do.

### Fairness

* `VoiceLoop`: weak fairness of the controller's worker (a loop over a blocking
  get), of the watchdog timer and its thread (`threading.Timer`), of
  `PlaybackEnds` (the output worker enforces a deadline and completes in a
  `finally`) and of `SpeechDone` (the proxy has a timeout, `_play_end` is in a
  `finally`). Nothing of the STT worker or of users.
* `SpeechInput`: weak fairness of each worker that is not hung and of the
  controller. A call may hang for ever, and nothing is assumed of the microphone or of the watchdog.
* `AgentLink`: weak fairness of each terminal's writer and stream reader (loops
  over a queue and a socket), and of the end of a stream whose stop flag is set (it
  polls it). Nothing of users, networks, or programs, and nothing of the end
  of a generator, which may never have started.
* `SpeechOutput`: weak fairness of the controller, of the output worker, and of
  each request's thread (every wait in it has a time-out). Nothing of the worker
  process.
* `HotkeyLink`: weak fairness of timers and their threads, of the connection
  threads, of the signal handler and of the launcher's receive timeout
  (`SO_RCVTIMEO`).
* `AudioRecovery`: weak fairness of the owner thread (every native call has a
  deadline, `_run_with_timeout`), of the engine's main thread while it is not
  waiting, and of a system thread that goes on to `request()`.
* `EngineProcess`: weak fairness of each process's steps and of its watchdog.
  `AppController.stop` may hang; then the watchdog ends the process.
* `Settings`: launchers and engines come up (one weak fairness for them all:
  there are finitely many steps between two commands), and the threads of
  commands go on. Nothing of users, kills, or crashes.
* `FrontEnds`: the tray's main thread and its short-lived threads go on, so does
  its polling, and so do the install threads and the server's loop; each is one
  weak fairness over finitely many threads that end.

## Proofs

Forty-six theorems hold for every value of the constants.

`VoiceLoopProofs.tla`, for every finite or infinite set of agents, every bound
and both values of `StartSound` and `AnnounceAgent`:

* `TypeCorrect`: `Spec => []TypeOK`. `ControllerTypes` has one case for each
  handler and `ProducerTypes` one for each producer; both rest on
  `HandlerConsumes` and `ProducerSends` (what a step does to the queue) and
  `HelperTypes` (what the operators build). That `FirstLong` exists needs the
  least element of a set of naturals, `LeastElement`, which is derived from the
  well-foundedness of `<`.
* `Inductive`: `Spec => []IInv`. `TranscribingHasExit` is not inductive: a
  completion handled while something plays leaves TRANSCRIBING waiting for the
  deferred transcription, so the invariant has to say that a deferred
  transcription has a counted play (`PlaysAccounted`), and that needs the types.
  `QueuedStays` says that a completion leaves the queue only by being handled.
* `TranscribingAlwaysHasExit` follows from it.
* `MicStaysPaused` (`MicPausedUntilLastPlay`) and `OffInPlayIsHonoured` are action
  properties proved from the same invariant: PLAYING implies a counted play,
  hence no completion of a transcription and no command may leave it; and the
  OFF that was asked for is `desired` until the last play ends.
* `UtterancesSound`: `Spec => []UtterancesInv`, and from it `NeverInTwoPlaces`
  and `SpeechGoesToItsAgent`. An utterance may be in the queue of the
  controller, in the parked buffer, among the jobs and in the texts; `Places`
  counts it, and the lemmas from `PositionsFinite` to `CountsNone` say what
  appending, joining and taking the head do to such a count. That it is never
  counted twice needs `UnheardIsNowhere`: one that is still to be spoken is
  nowhere yet. The agent is captured before the utterance is anywhere, and
  `AgentTravels` follows it from a message to a job to a text.
* `CompletionsSuffice`: `Spec => []PlaysCovered`, and from it `PlayingIsNoTrap`.
  That as many completions are under way as plays is not inductive: the
  completions must also be behind the plays they end. `PlaysCovered` is a
  course over the queue: at every point of it the completions that follow, and
  those that threads have still to send, cover the plays that began before. A
  message is `Neutral`, a start or an end, and each handler sends only neutral
  ones and starts that it has covered.

`HotkeyLinkProofs.tla`, for every number of presses and other keys and every set
of callbacks that are wired:

* `Inductive`: `Spec => []IInv`, and from it `TypeCorrect`,
  `EachPressReportedOnce` and `EveryWaitIsTimed`. That a press is reported at
  most once is not inductive, for the report comes long after the press. The
  invariant `Accounted` is an account of releases: a press gives the detector
  one release, as a key.up or in a simulated tap, and never both, because the
  launcher sends a key.up only for a key.down that was acknowledged and a signal
  only for one that was not; the detector consumes a release before it holds or
  reports a tap. `Consumed + Outstanding <= presses` is kept by every step: by
  the detector's methods (`KeyDownCounts`, `KeyUpCounts`, `OtherKeyCounts`,
  `TimersCount`) against `Consumed`, and by the launcher and the engine
  (`LauncherAccounts`, `EngineAccounts`) against `Outstanding`.
* `WaitIsTimed` says that a cancelled or forgotten timer is never the one that a
  state waits for; `orphans` and `due` are why.
* `CombosAreQuiet`: `Spec => []ComboKeepsQuiet`, if no hold callback is wired
  (`"hold" \notin Wired`), which is what `engine.py:224` does. The hypothesis is
  needed: with a hold callback TLC shows a press that became a hold before the other key.
  `QuietInv` holds while events are acknowledged in time: none of them is left
  over for a later press (`NothingLeftOver`), the detector knows of the other
  key before the release of the press comes (`TouchedIsCombo`), and every
  release that it holds, has reported or will get belongs to a press that no
  other key touched (`TapsAccounted`).
* `OneTapSubmitsOnce`: `PathSpec => []OneTapOneSubmit`, for every number of
  texts, taps and repeats and every set of triggers. The module extends `TextPath`
  too, the other end of what a tap begins. `SubmitsAccounted` follows a deferred submit: it is pending, with the thread that
  took it, in the keyboard agent's queue or given to an agent, and in one of
  these places only, because a thread that has read it finds it still there and is
  the only one (unless `raced`). `FiltersKeepTap` says that the filters make no
  second submit of one, whatever they match; it needs nothing of the matching.
* `EndTriggersAreObeyed`: `PathSpec => []EndTriggerIsObeyed`, for every text, set
  of triggers, set of agents and `ScanWords`. `BestIs` says what `find_best_match`
  comes to: if the text ends with a trigger, the walk from the end finds each of
  its words at its place (`PlacesAtEnd`), nothing decays, and the confidence is
  full, so no trigger elsewhere exceeds it. `FiltersAreClear` carries this
  through the three filters: each message they give is a submit, or its text ends with
  no trigger, also when the command of an agent was cut off behind it. `TextInv`
  says it of all messages on their way (`MessagesClear`) and that what is still to be
  spoken is a text (`TextsToCome`). `Decay` and `Places` are recursive functions; what is
  proved of them is proved of their least counterexample. The property is about the text that is given.
  Of what was said before the agent's name it would be false, which no text of four words
  shows: "fix agent ok send agent koder" ends, before its command, with a trigger, but the
  agent filter cuts at the first "agent" of the text and gives "fix".

`AudioRecoveryProofs.tla`, for every number of attempts, reconnects, events and
calls:

* `Inductive`: `Spec => []IInv`, and from it `TypeCorrect` (which bounds the
  reconnects of a window by the breaker), `NoCallerForgotten`,
  `AtMostOneFollowUp` and `NoReasonStranded`. `StepsOfExecutor` shows that every
  action does one of six things to the executor, so its invariants are proved
  for these six alone. They hold together only: that nothing is queued behind
  the end of the thread needs `ExitMeansClosed`, that a dropped event has its
  like in the queue needs `OneFollowUp`, and that there is one of them needs
  `KeyIsKept`. That a finished transaction had work to do (`begun`) keeps the
  owner thread from coming back after its end.
* `QueuedIsRefused` (`PoisonRefusesQueued`) is an action property of every step
  and needs no invariant.

`SpeechInputProofs.tla`, for every length of pre-buffer, speech and silence and
every number of generations:

* `SegmentsSound`: `Spec => []SegmentsAreSound`. It is not inductive: that no
  segment outgrows `MaxSpeech` and the pre-buffer needs `Lengths`, that the
  buffer outgrows the pre-buffer only by what `total` has counted, and that the
  pre-buffer is empty while someone speaks. `VadInv` is the conjunction; each
  of the detector's steps has a lemma, over lemmas about sequences of
  consecutive numbers (`EmptyEnds`, `AppendEnds` and those behind them).
  `StepOfVad` shows that every step of the composition is one of the detector or
  leaves it alone.
* `AbandonedQuiet`: `Spec => []AbandonedIsQuiet`. A worker comes to "send" only
  from the check, which the generation it compares with keeps from those left
  behind, and one that was there when the generation changed is `atDoor` until it
  has sent.
  `SttInv` adds that the workers are records with a place
  (`WorkersAreRecords`), whatever the jobs are.

`SettingsProofs.tla`, for every set of keys, devices, captures, launchers and
launcher sources, and every budget:

* `WokenCapturesHaveKey`: `Spec => []WakeHasKey`. `CapturesSound` says why: a
  capture that has not begun has left no trace in the shared attributes, one
  that no other overlaps is the only one under way, and from the moment its
  event is about to be set there is a key, because the key is written first.
* `SignedLauncherStays`: `Spec => []SignedStays`. `SignedInv` relates the bundle
  to the steps that commands have still to do: a signed launcher that is `trusted` has
  its mark (`AppSound`), so that a command that runs alone and brought nothing decides to
  keep it, and therefore has no step left that would remove it (`TodoSound`);
  "remove-app" is the next step or none, which keeps that true when a launcher
  becomes trusted in the middle of an install. Most steps put only harmless ones
  in front (`Shorter`, `BundleUntouched`).
* `InstallsLeaveAtMostOneLauncher`: `Spec => []InstallLeavesAtMostOne`, on top of the former.
  `InstallSoon` follows the end of an install from behind: up to "kill-launchers"
  nothing is claimed, then no launcher is alive, and behind "load" at most one;
  `LastSteps` says that nothing is put in front there, and `LaunchersFall` that
  no other step adds a launcher.
* `EditorsShowWhatWasSaved`: `Spec => []EditorsShowSaved`, and `ValuesStaySet`:
  `Spec => []ValuesKept`, for every set of sections, sub-tables, keys and texts, and every
  order of edits; the texts are any sequences of lines, and the two properties except
  the sections that a text strayed from or reached (`Spared` keeps a view that no
  line of a text can touch, `Elsewhere` says where a text without a header ends up). `ConfigInv` says both in
  the terms of one operator, `View`: the headers and keys that the scanner of
  `toml_sections.py` takes from the file for a section. For an edited section the
  view is what was saved; for a plain one it has no line twice and its keys
  are those that were set. Each edit is described by what it does to the view of its own
  section and shown to leave every other view as it is, through a stripping that moves lines and
  an insertion by tomlkit, which finds sections in another way; that both
  find the same section is a lemma. The scanner is a fold over the lines; its lemmas are
  proved of the shortest file that would refute them.

`AgentLinkProofs.tla`, for every set of agents, terminals and messages and every
number of connections, timers, keys and restarts:

* `Inductive`: `Spec => []IInv`, and from it `TypeCorrect`, `QueuesAreRegistered`
  (`SessionsAgree`), `VoiceHasTarget` (`TargetIsSound`), `SingleWriter`
  (`EnterFollowsText`) and `Debounced` (`FlickerIsCaught`). The invariant has a
  part for each of the composed components. `RegistryGood`: the current agent,
  and what a switch or a change of mode under way has found, are registered as
  long as nothing races with them (`RegistryInv`). `FocusGood`: the timer in the
  slot is the only one that counts, and an elapsed one is the only one there is,
  unless a report crossed it (`OneTimer`). `TerminalGood`: an Enter on the
  screen follows its text (`Follows`), and while the writer waits to write it
  the text is the last thing there (`TextWritten`). `SessionsGood`: a queue
  without a connection is empty and a sender's live target has one
  (`QueuesOwned`), and a message not yet accepted is in one place (`OnePlace`).
  `SessionsAgree` ties the first to the last.
* `LinkImplementsChannel`: `Spec => ChannelSpec`, the refinement. Each action is
  a step of `MessageChannel` or leaves it alone: a `Connect`, a `Send`, an `Accept`, a
  `Deliver` or, where a connection ends, a `Break`;
  for that what is under way has to be followed through queue, stream and writer
  of each terminal (`Given`, `UnderWay`), over lemmas about choosing from a
  sequence and joining two (`OnlyAppend`, `OnlyTail`, `ConcatAppend`,
  `ConcatTail`).

`SpeechOutputProofs.tla`, for every number of requests, announcements, sounds and
faults:

* `Inductive`: `Spec => []IInv`, and from it `TypeCorrect`, `OkIsHonest`
  (`OkMeansHeard`) and `CountIsRight` (`MicAgrees`).
* That "ok" is honest needs that a request is given to the worker once
  (`GivenOnce`), that the stop which killed the speech of the main thread is
  still to be seen by it (`WorkerSound`), and that an "ok" on its way is one of a
  request that was heard (`OkIsTrue`).
* The count of the controller is right only when its mail is empty. `Balanced`
  says it of every moment: the count, taken through the mail message by message,
  is never negative and ends at the plays of speech and sounds there are.
  `ActiveIsCounted` is what makes the first and the last request the ones that
  tell. It is proved while no request has skipped its PlayStarted, as `MicAgrees`
  is stated.

`EngineProcessProofs.tla`, for every number of processes, exit requests, versions
and shells:

* `Inductive`: `Spec => []IInv`, and from it `TypeCorrect`, `OneServes` and
  `PoisonedReplaced`. Two never serve because who serves has the port
  (`ServerHasPort`), whatever the PID file says. `ExitsSound` follows the exit
  code through the steps of its writers: without a request for a shutdown no
  watchdog has 0, a process told to stop has another code, and nobody finds
  the exit taken by a shutdown.
* `FailureLeavesWayBack`: `Spec => []WayBack` for one shell and at most one
  failure or kill (`Shells = {s}`, `OneFailure`), as `WayBack` is checked. Until
  that failure both links name versions that start, different ones but between
  two steps (`Whole`); after it, while no link names one, the goal does and the
  next steps make it current (`MendsItself`). Both hypotheses are needed: with two
  shells TLC finds an install of the current version that fails while two
  rollbacks overlap, after which both links name the same version, and two
  failures may hit the version and the one before it.

The theorems assume the named assumptions on the constants, which TLC
evaluates in the runs, and where it is said above a hypothesis of their own.
`TypeOK`, `IInv`, `UtterancesInv`, `PlaysCovered`, `PlayingHasCompletion`,
`TapsAccounted`, `SubmitsAccounted`, `MicPausedUntilLastPlay`, `WaitIsTimed`, `OneFollowUp` and
`PoisonRefusesQueued` are proved and no run
repeats them.

Every invariant that a passing run checks is proved. Model-checked only are the
liveness properties (`TranscribingEnds`, `PlayingEnds`, `UtteranceIsAnswered`,
`StreamIsRead`, `MicComesBack`, `LoopDrains`, `TapIsDecided`, `WakeIsHandled`,
`PoisonEndsRuntime`, `AskedExitHappens`, `InstallServes`, `MenuCatchesUp`,
`EndIsSeen`): the prover has no fairness argument and no ENABLED. The library's
induction theorems take an operator as parameter, which the installed provers
cannot instantiate; where a proof needs induction over a number or a sequence it
takes a least counterexample (`Least`) from a set of numbers instead.

`PressEnds` and `KeyIsHeard` (`KeyInput`), `InstallingHasWorker` (`Installs`) and
`CutsAtTrigger` (`TextPath`) hold on the same instances; they are stated next to
the properties above that say more, and their runs do not list them.

## Statements that the code does not keep

The modules state what a document, a comment or a test says also where TLC
refutes it. One of them has a run (`off_reopened`); the others are kept as
definitions, each with its quotation, and can be put into the configuration of
the run of their module.

| statement | module | what happens |
|---|---|---|
| `SpeechKeepsAgent` | `VoiceLoop` | an utterance that was parked during a transcription is taken up for the agent that is current then |
| `MicPausedWhileSpeaking` | `VoiceLoop` | a speech request begun while OFF sends no PlayStarted; turned on meanwhile, the microphone hears it |
| `CutsAreLong` | `StreamingVad` | `flush` keeps the count of speech, so the next segment may be cut early |
| `NoLateAnswer` | `SttWorker` | a worker that passed its generation check before it was left behind sends after it |
| `OnlyHungAreLeft` | `SttWorker` | the age of a job is set late or by the worker left behind, and a worker that does not hang is left behind |
| `TriggerIsCut` | `TextPath` | `input_filter.py:143` cuts "from the FIRST trigger word to the END"; "fix it ok and send ok" leaves "fix it ok and send" (`agent_filter.py:293` is alike) |
| `ErrorEndsSession` | `AgentTerminal` | a stream refused with 409 stops the writer, while the program runs on (`mux.py:762`) |
| `SecondPressKept` | `HotkeyLink` | a double-tap timer that fired while the second press held the lock resets the second press |
| `LostKeyUpResets` | `HotkeyLink` | after a lost key.up of a first press no timer resets the detector |
| `NoReinitWhileAsleep` | `AudioRecovery` | audio that was quiesced for sleep looks dead to the reconnect loop, which reinitialises PortAudio before the wake |
| `PoisonIsTerminal` | `AudioRecovery` | a nested stop of the output that times out is swallowed, and the transaction goes on in the poisoned process |
| `NeverDowngraded` | `EngineProcess` | a shutdown that tested the exit code before the poison wrote it replaces 70 by 0 |
| `SignalEnds` | `EngineProcess` | a SIGTERM while the engine loads is overwritten by `start_runtime` (`engine.py:1546`) |
| `ResaveKeepsFile` | `ConfigEdit` | a note that begins a saved text is read, behind another section, as the end of that section: the next save of the same text adds it again (`toml_sections.py:417`; `tests/test_toml_sections.py` tests other texts) |
| `EveryWakeHasKey` | `KeyInput` | a second capture clears the key that the first was woken for |
| `ListenedKeyExists` | `KeyInput` | the fallback key is one of a device that is not listened to |
| `NamedDeviceCounts` | `KeyInput` | a key of a named device that is otherwise excluded counts as absent and is replaced |
| `OldIsDeadAtLoad` | `Services` | "verify it's dead before loading the new one" (`launchd.py:94`): an engine that is still starting has no PID file, `pkill` ends its launcher only, and it goes on when the new job is loaded |
| `InstallLeavesOneOwner` | `Services` | such an engine takes the port, the engine of the new launcher goes off with its launcher, and an install that nothing disturbed ends with no launcher, hence no hotkey, and with an engine that nobody starts again when it ends |
| `SignedIsKept` | `Services` | "keep existing signed binary" (`app_bundle.py:141`): an install killed between the copy of a signed launcher (`:506`) and its mark (`:191`) leaves one that the next plain install replaces by an unsigned one; the user's permissions are gone |
| `EditorIsWysiwyg` | `ConfigEdit` | "WYSIWYG + validation" (`toml_sections.py:3`): a text with a key and no header is accepted, its lines belong to whatever section the file ends in, and the editor shows nothing of them; a second `[tts]` makes the file unreadable |
| `StopIsFinal` | `Services` | an engine ended by SIGKILL, or a launcher that did not notice the unload: it comes back |
| `StartServes` | `Services` | a job that is loaded but whose process is over makes `start` return early |
| `DisableRemoves` | `Services` | the settings page's switch runs in the engine, whose end is its own: the plist stays |
| `LoadedHasPlist` | `Services` | the switch and a command overlap: one loads what the other has removed |
| `UpToDateIsWhole` | `Bundle` | a copy of the bundle that was cut short may have launcher and hash, and is kept |
| `EveryEndIsSeen` | `Installs` | the clean-up of a first install removes the job of a retry; the page hears nothing more |
| `CachedIsComplete` | `Installs` | the file that proves a download is there before the others are |
| `InstalledHasPackages` | `Installs` | the venv's python is there before its packages |

Seen on the way, and stated nowhere: an engine started by hand is killed when
launch at login is enabled from its page; a bash launcher stays until the launcher's source
changes; a pre-built launcher whose signature does not hold replaces a signed one;
a launcher that starts while `python_path` is being replaced ends. With
pynput a key repeat is reported as a press; a modifier pressed during a capture
counts as not held; a device that is unplugged ends the listener for good. Two
quick clicks in the tray may reach the engine in the other order, and a toggle
acts on the state the menu showed. "Already running" exits with 0, also when the
PID belongs to another process. A progress queue leaks when the jobs change during its
first snapshot.

## Not modelled

Recognition and synthesis engines, operating-system key injection and key maps,
realtime partials, HTTP parsing and authentication, session adapters, status
panels and command-line output, hardware detection, translations, packaging: they
keep no protocol state, or are native libraries, and appear as inputs of the
modelled parts. `daemon/systemd.py` is three calls around a unit file.
`input/manager.py` and its bindings are not used by `serve`. Pruning of old
runtimes, version look-up, and the tray's PID file (`tray/lifecycle.py`) are
left for later.

## Plan

1. An abstract executor that `AudioControl` implements (every accepted request
   is answered once, in order), and the focus cooldown in `AudioRecovery`.
2. `SttWorker` as the detailed form of the jobs of `VoiceLoop`, by refinement.
