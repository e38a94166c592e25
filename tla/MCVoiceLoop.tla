----------------------------- MODULE MCVoiceLoop -----------------------------
(***************************************************************************)
(* Instances of VoiceLoop for TLC.                                         *)
(***************************************************************************)
EXTENDS VoiceLoop, TLC

\* Commands about listening, and all of them.
ListeningCommands ==
  {Signal("HotkeyPressed"), Signal("DiscardCurrent")}
    \cup [type : {"SetListening"}, on : BOOLEAN]
SwitchCommands == [type : {"SwitchAgent"}, to : Agents]
AllCommands == ListeningCommands \cup SwitchCommands

AgentSymmetry == Permutations(Agents)
=============================================================================
