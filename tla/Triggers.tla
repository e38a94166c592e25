------------------------------ MODULE Triggers ------------------------------
(***************************************************************************)
(* The filter pipeline of the engine (pipeline/base.py, pipeline/filters): *)
(* pure functions of a message, the mute flag and the agents it may name.  *)
(*                                                                         *)
(* A text is a sequence of words, a word the sequence of tokens that       *)
(* tokenize() makes of it: none for a dash, two for "ok-send".             *)
(* Confidence is in steps of 1/10000, rounded down.                        *)
(***************************************************************************)
EXTENDS Naturals, SequencesExt

CONSTANTS
  Agents,           \* names an utterance may switch to
  NoAgent,
  AgentTriggers,    \* tokens: the trigger words of the agent filter
  Score,            \* fuzzy_match_score of the tokens that sound like an agent's name, in 1/100
  SubmitPatterns,   \* sequences of [slots, lastWord]: the tokens each slot allows, and whether
                    \* the pattern must end the text; of the message's language and "*"
  MutePatterns,
  ListenPatterns,
  ScanWords,        \* max_scan_words of the submit filter,
  MuteScanWords,    \* of the mute filter
  AgentScanWords    \* and of the agent filter

ASSUME TriggersAssumption ==
  /\ SubmitPatterns \in Seq([slots : Seq(SUBSET STRING), lastWord : BOOLEAN])
  /\ {ScanWords, MuteScanWords, AgentScanWords} \subseteq Nat \ {0}

Threshold == 8500

Full == 10000

tokenize(text) == FlattenSeq(text)

Decay[k \in Nat] == IF k = 0 THEN Full ELSE (Decay[k - 1] * 95) \div 100
Raised(c, percent) ==
  LET more == (c * percent) \div 100
  IN  IF more > Full THEN Full ELSE more

NearestEarliest(found) == IF found = {} THEN 0 ELSE Min(found)
Nearest(found) == IF found = {} THEN 0 ELSE Max(found)

\* The places of the slots, each the last one before the next slot's; 0 from the
\* first slot on, seen from the end, that is not found.
Places(tokens, slots) ==
  LET n == Len(slots)
      place[k \in 1..n] ==
        LET limit == IF k = n THEN Len(tokens) + 1 ELSE place[k + 1]
        IN  Nearest({i \in 1..(limit - 1) : tokens[i] \in slots[k]})
  IN  place

NoMatch == [start |-> 0, confidence |-> 0]

Scanned(tokens, words) ==
  IF Len(tokens) > words THEN SubSeq(tokens, Len(tokens) - words + 1, Len(tokens)) ELSE tokens

\* match_pattern: base_confidence and gap_penalty are powers of the same 0.95.
MatchAnywhere(tokens, slots, words) ==
  LET window == Scanned(tokens, words)
      ps == Places(window, slots)
      n == Len(slots)
      gaps == Last(ps) - Head(ps) - (n - 1)
      distance == Len(window) - Last(ps)
      near == IF gaps = 0 THEN Raised(Decay[distance], 110) ELSE Decay[distance + gaps]
  IN  IF Head(ps) = 0
        THEN NoMatch
        ELSE [start |-> Head(ps) + Len(tokens) - Len(window),
              confidence |-> Raised(near, 100 + 2 * (n - 1))]

MatchLastWord(tokens, slots) ==
  LET ps == Places(tokens, slots)
  IN  IF Head(ps) = 0 \/ Last(ps) # Len(tokens)
        THEN NoMatch
        ELSE [start |-> Head(ps), confidence |-> Full]

Match(tokens, p, words) ==
  CASE p.slots = <<>> -> NoMatch
    [] p.slots # <<>> /\ p.lastWord -> MatchLastWord(tokens, p.slots)
    [] p.slots # <<>> /\ ~p.lastWord -> MatchAnywhere(tokens, p.slots, words)

\* The first of the best matches that is good enough.
find_best_match(tokens, patterns, words) ==
  LET m == [i \in 1..Len(patterns) |-> Match(tokens, patterns[i], words)]
      best == {i \in 1..Len(patterns) :
                 \A j \in 1..Len(patterns) :
                   m[j].confidence < m[i].confidence \/ (m[j].confidence = m[i].confidence /\ i <= j)}
  IN  IF patterns = <<>> \/ tokens = <<>> THEN NoMatch ELSE m[CHOOSE i \in best : TRUE]

Detected(text, patterns) == find_best_match(tokenize(text), patterns, MuteScanWords).confidence >= Threshold

-----------------------------------------------------------------------------
(***************************************************************************)
(* Messages.  ops: "newline", "auto" (auto_submit), "tap" (a deferred      *)
(* submit) or "voice" (a submit trigger), or "none" without x_input.       *)
(***************************************************************************)
Message(text, ops) == [text |-> text, ops |-> ops, switch |-> NoAgent, mute |-> "none"]
Submits(m) == m.ops \in {"auto", "tap", "voice"}

MuteFilter(m, muted) ==
  LET command(action) == <<[m EXCEPT !.text = <<>>, !.mute = action]>>
  IN  CASE muted /\ Detected(m.text, ListenPatterns) -> command("unmute")
        [] muted /\ ~Detected(m.text, ListenPatterns) -> <<>>
        [] ~muted /\ Detected(m.text, MutePatterns) -> command("mute")
        [] OTHER -> <<m>>

\* _match_agent: the best of the agents that are alike enough.
SoundsLike(token, ids) ==
  IF token \in DOMAIN Score THEN {a \in ids : Score[token][a] >= 50} ELSE {}
_match_agent(token, ids) ==
  CHOOSE a \in SoundsLike(token, ids) :
    \A b \in SoundsLike(token, ids) : Score[token][b] <= Score[token][a]

\* A trigger within the scanned words that an agent's name follows.
AgentMatches(tokens, ids) ==
  {i \in 1..(Len(tokens) - 1) :
     /\ i > Len(tokens) - AgentScanWords
     /\ tokens[i] \in AgentTriggers
     /\ SoundsLike(tokens[i + 1], ids) # {}}

\* _remove_pattern_from_text: from the first trigger word of the text on.
BeforeAgent(text, trigger) ==
  LET i == Min({k \in 1..Len(text) : trigger \in ToSet(text[k])})
      kept == SubSeq(text[i], 1, SelectInSeq(text[i], LAMBDA t : t = trigger) - 1)
  IN  SubSeq(text, 1, i - 1) \o (IF kept = <<>> THEN <<>> ELSE <<kept>>)

AgentFilter(m, ids) ==
  LET tokens == tokenize(m.text)
      found == AgentMatches(tokens, ids)
      i == Min(found)
      before == BeforeAgent(m.text, tokens[i])
      switch == [Message(<<>>, "none") EXCEPT !.switch = _match_agent(tokens[i + 1], ids)]
  IN  IF found = {} THEN <<m>>
      ELSE IF before = <<>> THEN <<switch>>
      ELSE <<[m EXCEPT !.text = before], switch>>

\* _remove_trigger_from_text: from the last word that has the trigger's first token on.
BeforeToken(text, first) == SubSeq(text, 1, Min({first - 1, Len(text)}))
BeforeTrigger(text, first) ==
  SubSeq(text, 1, Max({k \in 1..Len(text) : tokenize(text)[first] \in ToSet(text[k])}) - 1)

InputFilter(m) ==
  LET match == find_best_match(tokenize(m.text), SubmitPatterns, ScanWords)
  IN  IF Submits(m) \/ match.confidence < Threshold
        THEN m
        ELSE [m EXCEPT !.text = BeforeTrigger(m.text, match.start), !.ops = "voice"]

\* Pipeline.process: each step on every message of the step before it.  The mute
\* filter lets through one message at most, the input filter makes one of one.
Filters(m, muted, ids) ==
  LET heard == MuteFilter(m, muted)
      addressed == AgentFilter(Head(heard), ids)
  IN  IF heard = <<>> THEN <<>> ELSE [j \in 1..Len(addressed) |-> InputFilter(addressed[j])]
=============================================================================
