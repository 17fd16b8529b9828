--------------------------- MODULE InstallChoice ---------------------------
(***************************************************************************)
(* Which FreeTube a command works on, and config.json: config.go,          *)
(* installdetect.go and the commands sync, run and status up to the sync   *)
(* cycle.  Commands share config.json with one another and with the        *)
(* scripts (Launcher) without a lock, and Save writes it in place.         *)
(*                                                                         *)
(* Server URL and token are one value, a credential; an empty field is     *)
(* Unset.  The fields of the server side, which work alike, are left out.  *)
(***************************************************************************)
EXTENDS Naturals

CONSTANTS
  Flatpak, Native,
  Cred,          \* credentials that pass validation
  Cmd,           \* commands that may run at once
  Unset,
  MaxChanges,    \* bound: parts of FreeTube installs that appear or go
  MaxStops       \* bound: commands and scripts that are cut short

ASSUME InstallChoiceAssumption ==
  /\ Flatpak # Native /\ Unset \notin Cred \cup {Flatpak, Native}
  /\ MaxChanges \in Nat /\ MaxStops \in Nat

Kind   == {Flatpak, Native}
Config == [install : Kind \cup {Unset}, cred : Cred \cup {Unset}]

VARIABLES
  state,    \* config.json is "missing", "torn" (it cannot be parsed) or "whole"
  config,   \* what it holds when it is whole, NoConfig otherwise
  app,      \* the kinds whose application is registered or in the PATH
  dir,      \* the kinds whose directory under the home exists
  cmd,      \* cmd[p]: the locals of command p, see Ended
  script,   \* the locals of the script that runs, see Launcher
  changes, stops,
  (* History: *)
  entered,  \* the credential the user last gave the installer
  chosen    \* the install the user last chose, if config.json survived since

file       == <<state, config>>
installs   == <<app, dir>>
wishes     == <<entered, chosen>>
choicevars == <<file, installs, cmd, script, changes, stops, wishes>>

NoConfig == [install |-> Unset, cred |-> Unset]

(***************************************************************************)
(* A command: its configuration (first the resolved one, then the one it   *)
(* saves) and the install it settled on; as history, when it is given no   *)
(* install itself, the choice the user had made when it started.           *)
(***************************************************************************)
Ended == [pc |-> "end", cfg |-> NoConfig, kind |-> Unset, due |-> Unset]

ChoiceInit ==
  /\ state = "missing" /\ config = NoConfig
  /\ app \in SUBSET Kind /\ dir = app
  /\ cmd = [p \in Cmd |-> Ended]
  /\ changes = 0 /\ stops = 0
  /\ entered = Unset /\ chosen = Unset

(* FreeTube is installed or removed, or its directory made or deleted.     *)
InstallsChange(k) ==
  /\ changes < MaxChanges
  /\ changes' = changes + 1
  /\ \/ app' = (IF k \in app THEN app \ {k} ELSE app \cup {k}) /\ UNCHANGED dir
     \/ dir' = (IF k \in dir THEN dir \ {k} ELSE dir \cup {k}) /\ UNCHANGED app
  /\ UNCHANGED <<file, cmd, script, stops, wishes>>

-----------------------------------------------------------------------------
flatpakPresent == Flatpak \in app \cup dir
nativePresent  == Native \in app \cap dir
Present(k)     == IF k = Flatpak THEN flatpakPresent ELSE nativePresent

\* The fields of over that are set, on top of base.
overlay(base, over) ==
  [f \in DOMAIN base |-> IF over[f] # Unset THEN over[f] ELSE base[f]]

Goes(p, locals) ==
  /\ cmd' = [cmd EXCEPT ![p] = locals]
  /\ UNCHANGED <<file, installs, script, changes, stops, wishes>>

\* The command ends with an error.
Error(p) == Goes(p, Ended)

(***************************************************************************)
(* config.Resolve.  given is what the flags say and, for fields they leave *)
(* empty, the environment (overlay is associative).                        *)
(***************************************************************************)
Resolve(p, given) ==
  /\ cmd[p].pc \in {"end", "found"}
  /\ state # "torn"
  /\ Goes(p, [Ended EXCEPT !.pc = "detect", !.cfg = overlay(config, given),
                           !.due = IF given.install = Unset THEN chosen ELSE Unset])

\* ValidateServerURL and ValidateToken.
Valid(cfg) == cfg.cred # Unset

\* The commands sync and run need a credential, status does not.
SyncOrRun(p, given) == Valid(overlay(config, given)) /\ Resolve(p, given)
Status(p, given)    == Resolve(p, given)

\* Mistake: what was chosen is not returned.
MistakeReturnsNoKind(p, k, pc) ==
  IF Present(k) THEN Goes(p, [cmd[p] EXCEPT !.pc = pc, !.cfg = NoConfig]) ELSE Error(p)

\* resolveExplicit: a kind that was asked for has to be there.
Explicit(p, k, pc) ==
  IF Present(k) THEN Goes(p, [cmd[p] EXCEPT !.pc = pc, !.kind = k, !.cfg = NoConfig])
  ELSE Error(p)

(***************************************************************************)
(* Detect.  The configured install goes before everything: detectInstall   *)
(* passes it as Override, and Options.Persisted is never set.              *)
(***************************************************************************)
Detect(p) ==
  LET there == {k \in Kind : Present(k)} IN
  /\ cmd[p].pc = "detect"
  /\ \/ cmd[p].cfg.install # Unset /\ Explicit(p, cmd[p].cfg.install, "found")
     \/ /\ cmd[p].cfg.install = Unset
        /\ \/ there = Kind /\ Goes(p, [cmd[p] EXCEPT !.pc = "prompt"])
           \/ \E k \in Kind : there = {k} /\ Explicit(p, k, "found")
           \/ there = {} /\ Error(p)

\* The user does one thing at a time: runs a script, or answers a prompt and
\* waits for what follows.  Commands that ask nothing run beside.
Busy == script.pc # "end" \/ \E p \in Cmd : cmd[p].pc \in {"load", "create", "store"}

Answer(p, k) ==
  /\ cmd[p].pc = "prompt"
  /\ ~ Busy
  /\ Explicit(p, k, "load")

\* Ctrl-C at the prompt, no terminal to read from, or another answer.
AnswerFails(p) == cmd[p].pc = "prompt" /\ Error(p)

\* Mistake: the answer is all that is saved.
MistakeSavesAnswer(p) ==
  /\ cmd[p].pc = "load"
  /\ Goes(p, [cmd[p] EXCEPT !.pc = "create", !.cfg = [NoConfig EXCEPT !.install = cmd[p].kind]])

\* Mistake: the file is written back as it was loaded.
MistakeForgetsAnswer(p) ==
  /\ cmd[p].pc = "load"
  /\ IF state = "torn" THEN Error(p)
     ELSE Goes(p, [cmd[p] EXCEPT !.pc = "create", !.cfg = config])

\* persistInstallChoice loads the file again, without flags and environment.
LoadAgain(p) ==
  /\ cmd[p].pc = "load"
  /\ IF state = "torn" THEN Error(p)
     ELSE Goes(p, [cmd[p] EXCEPT !.pc = "create",
                                 !.cfg = [config EXCEPT !.install = cmd[p].kind]])

\* os.WriteFile: the file is truncated, then written.
CreateFile(p) ==
  /\ cmd[p].pc = "create"
  /\ state' = "torn" /\ config' = NoConfig
  /\ cmd' = [cmd EXCEPT ![p].pc = "store"]
  /\ UNCHANGED <<installs, script, changes, stops, wishes>>

Store(p) ==
  /\ cmd[p].pc = "store"
  /\ state' = "whole" /\ config' = cmd[p].cfg
  /\ chosen' = cmd[p].kind
  /\ cmd' = [cmd EXCEPT ![p].pc = "found", ![p].cfg = NoConfig]
  /\ UNCHANGED <<installs, script, changes, stops, entered>>

\* The command is killed, or a write of its own fails.
Stop(p) ==
  /\ cmd[p].pc \in {"load", "create", "store"} /\ stops < MaxStops
  /\ stops' = stops + 1
  /\ cmd' = [cmd EXCEPT ![p] = Ended]
  /\ UNCHANGED <<file, installs, script, changes, wishes>>

CommandStep(p) ==
  \/ \E given \in Config : SyncOrRun(p, given) \/ Status(p, given)
  \/ Detect(p)
  \/ \E k \in Kind : Answer(p, k)
  \/ AnswerFails(p) \/ LoadAgain(p) \/ CreateFile(p) \/ Store(p) \/ Stop(p)

-----------------------------------------------------------------------------
(* config.json and the commands keep their types; a command that has found *)
(* an install knows which.                                                 *)
ChoiceTypeOK ==
  /\ state \in {"missing", "torn", "whole"} /\ config \in Config
  /\ state # "whole" => config = NoConfig
  /\ app \subseteq Kind /\ dir \subseteq Kind
  /\ cmd \in [Cmd -> [pc : {"end", "detect", "prompt", "load", "create", "store", "found"},
                      cfg : Config, kind : Kind \cup {Unset}, due : Kind \cup {Unset}]]
  /\ \A p \in Cmd : cmd[p].pc = "found" => cmd[p].kind \in Kind
  /\ changes \in 0..MaxChanges /\ stops \in 0..MaxStops
  /\ entered \in Cred \cup {Unset} /\ chosen \in Kind \cup {Unset}

(***************************************************************************)
(* config.go:68, install.go:49-51: saving the answer to a prompt changes   *)
(* nothing but the install.  config.json holds the credential the user     *)
(* last gave the installer, whatever flags and environment a command got;  *)
(* and it cannot be parsed only while it is written or after a write was   *)
(* cut short.  Nothing in the code keeps two writers apart: that the user  *)
(* does one thing at a time is assumed (Busy); only commands that ask      *)
(* nothing run beside a script or an answer that is being saved.           *)
(***************************************************************************)
CredentialKept ==
  /\ state = "whole" => config.cred = entered
  /\ state = "torn" => stops > 0 \/ \E p \in Cmd : cmd[p].pc = "store"

(***************************************************************************)
(* install.go:13-17, 49-50, installdetect.go:45-47: the user is asked      *)
(* once.  Where both installs are there, a command that starts after the   *)
(* choice was made, by an answer or in the installer, and is given no      *)
(* install itself, settles on the chosen one without asking, whatever came *)
(* and went meanwhile and whatever other commands have saved since.        *)
(***************************************************************************)
ChoiceSticks ==
  [][\A p \in Cmd :
       /\ Detect(p)
       /\ cmd[p].due # Unset
       /\ \A k \in Kind : Present(k)
       => cmd'[p].pc = "found" /\ cmd'[p].kind = cmd[p].due]_choicevars
=============================================================================
