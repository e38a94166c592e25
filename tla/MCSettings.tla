------------------------------ MODULE MCSettings ------------------------------
(***************************************************************************)
(* A small instance of Settings: two edited sections and two plain ones,   *)
(* four devices, two captures, and commands on one machine.                *)
(***************************************************************************)
EXTENDS Settings, TLC

\* A section that opens with its header, one that opens with a comment, one with
\* two entries, and a text without any header ("# No keyboard shortcuts"); a key
\* without a header, and a text that goes on with another section.
MCTexts(s) ==
  { <<Header(s), Key("a"), Note("mine")>>,
    <<Note("mine"), Header(s), Key("b")>>,
    <<Header(s), Key("a"), Note("mine"), Header(s), Key("b")>>,
    <<Note("none")>>,
    <<Key("b")>>,
    <<Header(s), Key("a"), Header("tts"), Key("model")>> }

MCSubTables(s) == IF s = "audio" THEN {"audio.advanced"} ELSE {}

\* A laptop's keyboard, a keyboard with the hotkey, a mouse that claims to have it,
\* a virtual device that has every key, and a presenter, which may be named.
Plug(excluded, keyboard, has) == [named |-> FALSE, excluded |-> excluded, keyboard |-> keyboard, keys |-> has]
Laptop == Plug(FALSE, TRUE, {"alt", "scroll"})
Full == Plug(FALSE, TRUE, {"f12", "alt"})
Mouse == Plug(FALSE, FALSE, {"f12", "mute"})
Virtual == Plug(TRUE, TRUE, {"scroll", "alt", "f12", "mute"})
Presenter == Plug(TRUE, FALSE, {"f12"})
Attached == {<<Laptop, Virtual>>, <<Mouse, Full>>, <<Laptop, Full, Presenter>>, <<Virtual, Mouse, Laptop>>,
             <<Full, Laptop, Full>>}
MCDeviceLists ==
  Attached \cup {[list EXCEPT ![i].named = TRUE] : list \in {<<Mouse, Full>>, <<Full, Laptop, Full>>},
                                                  i \in {1, 2}}
           \cup {[list EXCEPT ![Len(list)].named = TRUE] :
                    list \in {<<Laptop, Full, Presenter>>, <<Laptop, Presenter>>}}

MCPreferred == <<"scroll", "f12">>

MCHomes ==
  { [store |-> FALSE, brew |-> FALSE, cellar |-> NoSource],
    [store |-> FALSE, brew |-> TRUE, cellar |-> "new"],
    [store |-> TRUE, brew |-> FALSE, cellar |-> "old"] }

None == [b \in Bounded |-> 0]
Only(f) == f @@ None

\* Edits; keys and captures; commands, with a kill, with an engine that ends, with
\* a new version, and next to the switch of the settings page.
Editing == Only([edits |-> 3])
Capturing == Only([keys |-> 3, captures |-> 2])
Unplugging == Only([keys |-> 2, captures |-> 1, unplugs |-> 1, ends |-> 1])
Serving == Only([commands |-> 3])
Killed == Only([commands |-> 2, kills |-> 1])
Upgraded == Only([commands |-> 2, sources |-> 1])
Switched == Only([commands |-> 2, switches |-> 1])
Ended == Only([commands |-> 2, ends |-> 1])
MCSettingsBudgets ==
  {Editing, Capturing, Unplugging, Serving, Killed, Upgraded, Switched, Ended}
=============================================================================
