----------------------------- MODULE MCTextPath -----------------------------
(***************************************************************************)
(* Instances of TextPath: one utterance of up to four words, and few       *)
(* utterances with everything else that can happen meanwhile.              *)
(***************************************************************************)
EXTENDS TextPath

CONSTANTS a1, a2, kb

MCScore == ("koder" :> (a1 :> 80 @@ a2 :> 55)) @@ ("pam" :> (a1 :> 20 @@ a2 :> 90))
Pattern(slots, lastWord) == [slots |-> slots, lastWord |-> lastWord]
MCSubmit == <<Pattern(<<{"ok", "okay"}, {"send"}>>, FALSE), Pattern(<<{"go"}>>, TRUE)>>
MCMute == <<Pattern(<<{"ok", "okay"}, {"mute"}>>, FALSE)>>
MCListen == <<Pattern(<<{"ok", "okay"}, {"listen"}>>, FALSE)>>

Case(texts) ==
  [texts |-> texts, current |-> a1, muted |-> FALSE, auto |-> FALSE,
   taps |-> 0, mutes |-> 0, leaves |-> 0, repeats |-> 0]

Words == {<<"fix">>, <<"ok">>, <<"send">>, <<"go">>, <<"agent">>, <<"koder">>, <<"ok", "send">>, <<>>}
Algorithm == {Case(<<t>>) : t \in UNION {[1..n -> Words] : n \in 1..4}}

Plain == <<<<"fix">>>>
Named == <<<<"fix">>, <<"agent">>, <<"pam">>>>
Quiet == <<<<"ok">>, <<"mute">>>>
Loud == <<<<"ok">>, <<"listen">>>>
Taps == {[Case(<<x, y>>) EXCEPT !.taps = 2, !.repeats = 1, !.current = c] :
           x \in {Nothing, Plain}, y \in {Plain, Named}, c \in {a1, kb}}
Mute == {[Case(<<Quiet, Plain, Loud>>) EXCEPT !.mutes = 1, !.auto = TRUE]}
Leave == {[Case(<<Named, Plain>>) EXCEPT !.leaves = 2, !.current = c] : c \in {a1, a2, NoAgent}}
MCScenarios == Algorithm \cup Taps \cup Mute \cup Leave
=============================================================================
