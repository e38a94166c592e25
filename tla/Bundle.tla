-------------------------------- MODULE Bundle --------------------------------
(***************************************************************************)
(* What launchd starts, as daemon/app_bundle.py leaves it on disk:         *)
(* Dictare.app, whose launcher keeps the permissions the user gave it only *)
(* while it is signed, and ~/.dictare/python_path, which the launcher      *)
(* reads before there is any Python.  The steps on the bundle leave        *)
(* "trusted" to Services, which knows the commands they are part of.       *)
(***************************************************************************)
EXTENDS Naturals

CONSTANTS
  Sources,   \* versions of launcher.swift, by their hash
  Homes      \* what may be installed: a runtime store, a Homebrew keg and its bundle

NoSource == "no-source"
NoPath == "no-path"
Interpreters == {"store", "brew", "dev"}
Prebuilt == {"none", "valid", "invalid"}

ASSUME BundleAssumption ==
  /\ NoSource \notin Sources
  /\ Homes \subseteq [store : BOOLEAN, brew : BOOLEAN, cellar : Sources \cup {NoSource}]

VARIABLES
  home,         \* the installs of this machine
  swift,        \* the launcher source of the dictare that is installed
  app,          \* ~/Applications/Dictare.app
  pythonFile,   \* python_path
  trusted       \* history: a signed launcher was installed and has its mark, and since then
                \* no other was brought and no uninstall asked for

bundleVars == <<home, swift, app, pythonFile, trusted>>

\* mark: the directories that have a launcher_signed; whole: no copy was cut short.
NoApp == [launcher |-> "none", source |-> NoSource, mark |-> {}, whole |-> TRUE]
CellarApp(source) ==
  [launcher |-> "signed", source |-> source, mark |-> {"Resources"}, whole |-> TRUE]

BundleTypeOK ==
  /\ swift \in Sources
  /\ app \in [launcher : {"none", "bash", "local", "signed"}, source : Sources \cup {NoSource},
              mark : SUBSET {"MacOS", "Resources"}, whole : BOOLEAN]
  /\ pythonFile \in Interpreters \cup {NoPath}
  /\ trusted \in BOOLEAN

BundleInit ==
  /\ home \in Homes
  /\ swift \in Sources
  /\ app = NoApp
  /\ pythonFile = NoPath
  /\ trusted = FALSE

\* A new version of dictare brings a new launcher source.
SourceChanges ==
  /\ \E s \in Sources \ {swift} : swift' = s
  /\ UNCHANGED <<home, app, pythonFile, trusted>>

-----------------------------------------------------------------------------
(***************************************************************************)
(* python_path.                                                            *)
(***************************************************************************)
\* resolve_service_python_path: the runtime store, else Homebrew, else whoever asks.
Resolved(executable) ==
  IF home.store THEN "store" ELSE IF home.brew THEN "brew" ELSE executable

\* resolve_python_path and ensure_python_path, when an engine starts.
Ensured(executable) ==
  /\ pythonFile' = IF pythonFile # Resolved(executable) THEN Resolved(executable) ELSE pythonFile
  /\ UNCHANGED <<home, swift, app, trusted>>

\* _write_external_python_path removes the file first.
RemovesPath == pythonFile' = NoPath /\ UNCHANGED <<home, swift, app, trusted>>
WritesResolved ==
  /\ pythonFile' = Resolved("dev")
  /\ UNCHANGED <<home, swift, app, trusted>>

-----------------------------------------------------------------------------
(***************************************************************************)
(* create_app_bundle, with a pre-built launcher or without.                *)
(***************************************************************************)
HasLauncher == app.launcher # "none"

UpToDate(prebuilt) ==
  HasLauncher /\ app.source = swift /\ (prebuilt = "none" \/ app.mark # {})

\* A signed launcher stays, as long as nobody brings another.
KeepsSignedOfKeg(prebuilt) == HasLauncher /\ "Resources" \in app.mark /\ prebuilt = "none"
KeepsSigned(prebuilt) == HasLauncher /\ app.mark # {} /\ prebuilt = "none"

NeedsBundle(prebuilt) == ~UpToDate(prebuilt) /\ ~KeepsSigned(prebuilt)

\* rm -rf, or the move to the trash.
RemovesApp == app' = NoApp /\ UNCHANGED <<home, swift, pythonFile>>

\* Homebrew's bundle is copied as a whole, unless a launcher was brought.
CopiesKeg(prebuilt) == prebuilt = "none" /\ home.cellar # NoSource

\* The copy of a directory, whose files come in any order: under way, and over.
BeginsCopy ==
  /\ \E put \in {"none", "signed"}, source \in {NoSource, home.cellar}, mark \in SUBSET {"Resources"} :
       app' = [launcher |-> put, source |-> source, mark |-> mark, whole |-> FALSE]
  /\ UNCHANGED <<home, swift, pythonFile>>
EndsCopy ==
  /\ app' = CellarApp(home.cellar)
  /\ UNCHANGED <<home, swift, pythonFile>>

\* A pre-built launcher whose signature holds; else swiftc; else a script.
Made(prebuilt) == IF prebuilt = "valid" THEN {"signed"} ELSE {"local", "bash"}
PutsLauncher(prebuilt) ==
  /\ \E made \in Made(prebuilt) : app' = [NoApp EXCEPT !.launcher = made]
  /\ UNCHANGED <<home, swift, pythonFile>>

\* launcher_signed is written when the pre-built launcher is there.
PutsMark ==
  /\ app' = [app EXCEPT !.mark = {"MacOS"}]
  /\ UNCHANGED <<home, swift, pythonFile>>

\* launcher_hash is written last.
PutsHash ==
  /\ app' = [app EXCEPT !.source = swift]
  /\ UNCHANGED <<home, swift, pythonFile>>

\* migrate_signed_bundle_from_cellar.
Migrates(force) == home.cellar # NoSource /\ (force \/ "Resources" \notin app.mark)

-----------------------------------------------------------------------------
\* The user gave the signed launcher its permissions, and would have to give them
\* again to any other: once its mark is written, and unless another is brought or
\* dictare is uninstalled, nothing that is installed, upgraded, repaired or cut short
\* puts an unsigned one there.
SignedStays == trusted => app.launcher \in {"signed", "none"}

\* create_app_bundle: "App bundle already up to date, skipping recreation".
UpToDateIsWhole == UpToDate("none") => app.whole
=============================================================================
