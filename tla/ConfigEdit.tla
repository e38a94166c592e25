----------------------------- MODULE ConfigEdit -----------------------------
(***************************************************************************)
(* config.toml under its three editors: the section editors of the         *)
(* settings page, which cut a section's text out of the file and append    *)
(* what the user wrote (core/toml_sections.py); the single values of the   *)
(* settings page, the tray and "dictare config" (config.py); and the       *)
(* default file.                                                           *)
(*                                                                         *)
(* The file is a sequence of lines; blank lines, and what a key is set to, *)
(* are left out.                                                           *)
(***************************************************************************)
EXTENDS Naturals, Sequences, SequencesExt

CONSTANTS
  Edited,    \* sections with an editor
  Plain,     \* sections that are set value by value
  SubTables(_),   \* the edited sections that are sub-tables of a plain one
  Keys,      \* keys
  Texts(_)   \* what a user may save in the editor of a section

VARIABLES
  file,      \* the lines of config.toml
  saved,     \* history: headers and keys last saved in each editor
  set,       \* history: keys set in each plain section
  strays,    \* history: sections that a text of another reached, or whose text did not stay in them
  last       \* history: the last edit

configVars == <<file, saved, set, strays, last>>

Section == Edited \cup Plain
Header(s) == [kind |-> "header", name |-> s]
Key(k) == [kind |-> "key", name |-> k]
Note(n) == [kind |-> "note", name |-> n]
Version == Key("_version")

IsHeader(line) == line.kind = "header"

\* What a line can be.  The header of an edited section stands for all that begin
\* alike: [audio.sounds.start], [[keyboard.shortcuts]].
LineNames ==
  Section \cup Keys \cup {"_version", "banner", "default"}
    \cup UNION {{text[i].name : i \in DOMAIN text} : text \in UNION {Texts(s) : s \in Edited}}
Line == [kind : {"header", "key", "note"}, name : LineNames]

\* A text that stays in its section: no header but the section's, no key before it.
TextOf(s, text) ==
  /\ text \in Seq(Line)
  /\ \A i \in DOMAIN text :
       /\ IsHeader(text[i]) => text[i] = Header(s)
       /\ text[i].kind = "key" => \E j \in 1..i : text[j] = Header(s)

OpensWithHeader(text) ==
  \A i \in DOMAIN text : text[i].kind = "key" => \E j \in 1..i : IsHeader(text[j])

\* tomlkit and tomllib read no section twice, and no key twice in a section.
Readable(lines) ==
  \A i, j \in DOMAIN lines :
    i < j /\ lines[i] = lines[j] =>
      CASE lines[i].kind = "note" -> TRUE
        [] lines[i].kind = "header" -> lines[i].name \notin Plain
        [] OTHER -> \E m \in i..j : IsHeader(lines[m])

ASSUME SectionsAssumption ==
  /\ Edited \cap Plain = {} /\ IsFiniteSet(Plain)
  /\ \A s \in Plain : SubTables(s) \subseteq Edited
  /\ \A s \in Edited : \A text \in Texts(s) : text \in Seq(Line)

Solid(lines) ==
  FoldLeft(LAMBDA kept, line : IF line.kind = "note" THEN kept ELSE Append(kept, line), <<>>, lines)

-----------------------------------------------------------------------------
(***************************************************************************)
(* The scanner.  _extract_section_lines and _strip_section_lines take the  *)
(* same branches; one keeps what the other drops.                          *)
(***************************************************************************)
Start == [place |-> "top", notes |-> <<>>, owned |-> <<>>, rest |-> <<>>]

\* A header of the section: the notes before it are the section's.
ReadOwn(scan, line) ==
  [place |-> "own", notes |-> <<>>, owned |-> scan.owned \o scan.notes \o <<line>>,
   rest |-> scan.rest]

ReadOtherStays(scan, line) ==
  [place |-> scan.place, notes |-> <<>>, owned |-> scan.owned,
   rest |-> scan.rest \o scan.notes \o <<line>>]
ReadOther(scan, line) ==
  [place |-> "other", notes |-> <<>>, owned |-> scan.owned,
   rest |-> scan.rest \o scan.notes \o <<line>>]

ReadLine(scan, line) ==
  CASE scan.place = "own" -> [scan EXCEPT !.owned = Append(@, line)]
    [] scan.place = "other" -> [scan EXCEPT !.rest = Append(@, line)]
    [] scan.place = "top" /\ line.kind = "note" -> [scan EXCEPT !.notes = Append(@, line)]
    [] OTHER -> [scan EXCEPT !.notes = <<>>, !.rest = @ \o scan.notes \o <<line>>]

Read(s, scan, line) ==
  IF line = Header(s) THEN ReadOwn(scan, line)
  ELSE IF IsHeader(line) THEN ReadOther(scan, line)
  ELSE ReadLine(scan, line)

Scanned(lines, s) == FoldLeft(LAMBDA scan, line : Read(s, scan, line), Start, lines)

\* What the editor of s shows; nothing means the template.
Extract(lines, s) == Scanned(lines, s).owned
Strip(lines, s) == LET scan == Scanned(lines, s) IN scan.rest \o scan.notes

-----------------------------------------------------------------------------
(***************************************************************************)
(* Single values: tomlkit, as config.py uses it.                           *)
(***************************************************************************)
\* The lines of the file that belong to the body of a header's section.
HeaderAt(lines, s) == SelectInSeq(lines, LAMBDA line : line = Header(s))
BodyEnd(lines, from) ==
  LET next == SelectInSeq(SubSeq(lines, from + 1, Len(lines)), IsHeader)
  IN IF next = 0 THEN Len(lines) ELSE from + next - 1

KeyIn(lines, from, k) ==
  {i \in from + 1 .. BodyEnd(lines, from) : lines[i] = k}

Put(lines, from, k) ==
  IF KeyIn(lines, from, k) # {} THEN lines ELSE InsertAt(lines, BodyEnd(lines, from) + 1, k)

Drop(lines, from, k) ==
  IF KeyIn(lines, from, k) = {} THEN lines ELSE RemoveAt(lines, Min(KeyIn(lines, from, k)))

\* Root keys are a body of their own, before the first header.
Stamped(lines) == Put(lines, 0, Version)

\* A section that is only there by its sub-tables gets its header before the first.
SubTableAt(lines, s) == SelectInSeq(lines, LAMBDA line : line \in {Header(t) : t \in SubTables(s)})
WithSection(lines, s) ==
  IF HeaderAt(lines, s) # 0 THEN lines
  ELSE IF SubTableAt(lines, s) # 0 THEN InsertAt(lines, SubTableAt(lines, s), Header(s))
  ELSE Append(lines, Header(s))

\* load_config reads the file first.  tomlkit's handling of a section that a stray
\* text puts behind its own sub-tables is left out.
Loadable(s) ==
  /\ Readable(file)
  /\ SubTableAt(file, s) # 0 => HeaderAt(file, s) <= SubTableAt(file, s)

-----------------------------------------------------------------------------
\* create_default_config: a banner, plain sections, notes of what can be set.
ConfigInit ==
  /\ \E plain \in SUBSET Plain :
       file = <<Note("banner")>> \o
              (IF plain = {} THEN <<>>
               ELSE LET order == SetToSeq(plain)
                    IN FlattenSeq([i \in DOMAIN order |-> <<Header(order[i]), Note("default")>>]))
  /\ saved = [s \in Edited |-> <<>>]
  /\ set = [s \in Plain |-> {}]
  /\ strays = {}
  /\ last = <<>>

Edit(what) == last' = what

\* The sections that a text reaches: those it has headers of and, where it begins
\* with keys, the one that the rest of the file ends in.
Reaches(s, text) ==
  {t \in Section : Header(t) \in Range(text)}
    \cup (IF OpensWithHeader(text) THEN {} ELSE {t \in Section : Scanned(Strip(file, s), t).place = "own"})
Strays(s, text) ==
  strays' = IF TextOf(s, text) THEN strays \ {s} ELSE strays \cup {s} \cup Reaches(s, text)

\* update_toml_section, save_shortcuts: apply_section.  The text alone is parsed.
SaveAppends(s, text) ==
  /\ Readable(text)
  /\ Edit(<<s, text>>) /\ Strays(s, text)
  /\ file' = file \o text
  /\ saved' = [saved EXCEPT ![s] = Solid(text)]
  /\ UNCHANGED set
Save(s, text) ==
  /\ Readable(text)
  /\ Edit(<<s, text>>) /\ Strays(s, text)
  /\ file' = Strip(file, s) \o text
  /\ saved' = [saved EXCEPT ![s] = Solid(text)]
  /\ UNCHANGED set

\* update_setting, set_audio_device, "dictare config set".
SetValue(s, k) ==
  /\ Loadable(s)
  /\ Edit(<<s, k>>)
  /\ LET lines == WithSection(file, s)
     IN file' = Stamped(Put(lines, HeaderAt(lines, s), Key(k)))
  /\ set' = [set EXCEPT ![s] = @ \cup {Key(k)}]
  /\ UNCHANGED <<saved, strays>>

DeleteValue(s, k) ==
  /\ Loadable(s)
  /\ Edit(<<s, k>>)
  /\ file' = Stamped(IF HeaderAt(file, s) = 0 THEN file
                     ELSE Drop(file, HeaderAt(file, s), Key(k)))
  /\ set' = [set EXCEPT ![s] = @ \ {Key(k)}]
  /\ UNCHANGED <<saved, strays>>

ConfigStep ==
  \/ \E s \in Edited : \E text \in Texts(s) : Save(s, text)
  \/ \E s \in Plain, k \in Keys : SetValue(s, k) \/ DeleteValue(s, k)

-----------------------------------------------------------------------------
(***************************************************************************)
(* Properties.                                                             *)
(***************************************************************************)
\* The editor of a section shows the headers and keys that were saved in it last,
\* whatever was saved in other sections or set in the file since, as long as that
\* text stayed in the section and no other reached it.
EditorsShowSaved == \A s \in Edited \ strays : Solid(Extract(file, s)) = saved[s]

\* A section set value by value has the keys that were set and not deleted, and is
\* not in the file twice: no save of a section takes or moves them, but a text that
\* reaches them.
BodyOf(s) ==
  LET at == HeaderAt(file, s)
  IN IF at = 0 THEN {} ELSE {i \in at + 1 .. BodyEnd(file, at) : file[i].kind = "key"}
ValuesKept ==
  \A s \in Plain \ strays :
    /\ {file[i] : i \in BodyOf(s)} = set[s]
    /\ \A i, j \in DOMAIN file : file[i] = Header(s) /\ file[j] = Header(s) => i = j

\* toml_sections.py: "WYSIWYG + validation: ... validate structure with Pydantic;
\* write the user's literal text verbatim": the editor shows what it accepted.
EditorIsWysiwyg == \A s \in Edited : Solid(Extract(file, s)) = saved[s]

\* tests/test_toml_sections.py: "Saving the same TOML content multiple times must
\* not grow the file."
ResaveKeepsFile == [][last' = last => Len(file') = Len(file)]_file
=============================================================================
