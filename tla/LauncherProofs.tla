--------------------------- MODULE LauncherProofs ---------------------------
(***************************************************************************)
(* config.json and the desktop entries, for any number of commands,        *)
(* credentials, changes and interruptions.  Neither has a lock; what keeps *)
(* them in order is that there is one user, who answers one prompt or runs *)
(* one script at a time, and that everything else only reads.              *)
(***************************************************************************)
EXTENDS Launcher, TLAPS

Writers == {"load", "create", "store"}

Locals == [pc : {"end", "detect", "prompt", "load", "create", "store", "found"},
           cfg : Config, kind : Kind \cup {Unset}, due : Kind \cup {Unset}]

Scripts == [pc : {"end", "config", "backup", "truncate", "entry", "scan"},
            kind : Kind \cup {Unset}, file : Entry, todo : SUBSET Entry]

(* The user waits for one command or script at a time. *)
UserInv ==
  /\ script.pc # "end" => \A p \in Cmd : cmd[p].pc \notin Writers
  /\ \A p, q \in Cmd : cmd[p].pc \in Writers /\ cmd[q].pc \in Writers => p = q
  /\ script.pc \in {"config", "backup", "truncate", "entry"} => script.kind \in Kind

(* config.json is what the user last chose and entered, or nothing is left. *)
FileInv ==
  /\ state = "missing" => entered = Unset /\ chosen = Unset
  /\ state = "whole" => config.install = chosen /\ config.cred = entered
  /\ state = "torn" => stops > 0 \/ \E p \in Cmd : cmd[p].pc = "store"

(* A command detects what was chosen, and saves the answer it got. *)
Faithful(c) ==
  /\ c.pc = "detect" /\ c.due # Unset => c.cfg.install = c.due
  /\ c.pc \in {"prompt"} \cup Writers => c.due = Unset
  /\ c.pc \in Writers \cup {"found"} => c.kind \in Kind
  /\ c.pc \in {"create", "store"} => c.cfg.install = c.kind /\ c.cfg.cred = entered
  /\ c.pc = "found" /\ c.due # Unset => c.kind = c.due

CmdInv == \A p \in Cmd : Faithful(cmd[p])

ConfigInv == DeskTypeOK /\ UserInv /\ FileInv /\ CmdInv

(* An entry that no interruption spoilt is as before, or managed with what *)
(* was before in its backup, or being written.                             *)
Kept(f) ==
  /\ entry[f] = before[f] \/ managed(f)
       \/ (entry[f] = Torn /\ script.pc = "entry" /\ script.file = f)
  /\ managed(f) \/ (script.pc \in {"truncate", "entry"} /\ script.file = f)
       => backup[f] = before[f]
  /\ backup[f] \in {None, before[f]}

EntriesInv == \A f \in Entry \ spoilt : Kept(f)

DeskInv == ConfigInv /\ EntriesInv /\ UninstallUndoes

-----------------------------------------------------------------------------
(* config.go:60-75: flags and environment go before the file, by field. *)
LEMMA OverlayFields ==
  ASSUME NEW base \in Config, NEW over \in Config
  PROVE  /\ overlay(base, over) \in Config
         /\ overlay(base, over).install
              = IF over.install # Unset THEN over.install ELSE base.install
<1>1. DOMAIN base = {"install", "cred"}
  BY DEF Config
<1>2. overlay(base, over) = [install |-> IF over.install # Unset THEN over.install
                                                                 ELSE base.install,
                             cred |-> IF over.cred # Unset THEN over.cred ELSE base.cred]
  BY <1>1 DEF overlay
<1> QED BY <1>2 DEF Config

(* Locals at rest, and an empty configuration, are typed. *)
LEMMA EndedType ==
  /\ NoConfig \in Config /\ NoConfig.install = Unset /\ NoConfig.cred = Unset
  /\ Ended \in Locals /\ Ended.pc = "end" /\ Faithful(Ended)
  /\ NoScript \in Scripts /\ NoScript.pc = "end" /\ NoScript.kind = Unset
BY DEF NoConfig, Config, Ended, Locals, Faithful, Writers, NoScript, Scripts, Entry

(* The types, with the names that the proofs give them. *)
LEMMA Types ==
  DeskTypeOK <=>
    /\ ChoiceTypeOK /\ cmd \in [Cmd -> Locals] /\ script \in Scripts
    /\ entry \in [Entry -> Content] /\ backup \in [Entry -> Content] /\ spoilt \subseteq Entry
BY DEF DeskTypeOK, ChoiceTypeOK, Locals, Scripts

(* main.go: only the command that takes a step sets its locals. *)
LEMMA CmdSet ==
  ASSUME DeskTypeOK, NEW p \in Cmd, NEW c \in Locals, cmd' = [cmd EXCEPT ![p] = c]
  PROVE  /\ cmd' \in [Cmd -> Locals] /\ cmd'[p] = c
         /\ \A q \in Cmd \ {p} : cmd'[q] = cmd[q]
<1> HIDE DEF Locals
<1> QED BY Types

-----------------------------------------------------------------------------
(* main.go, install.go:19-60: a step of a command that does not write.  It *)
(* may begin to write only when the user waits for nothing else.           *)
LEMMA GoesInv ==
  ASSUME ConfigInv, NEW p \in Cmd, NEW c \in Locals, Goes(p, c), UNCHANGED <<entries, spoilt>>,
         Faithful(c), c.pc \in Writers => cmd[p].pc \in Writers \/ ~ Busy,
         cmd[p].pc # "store"
  PROVE  ConfigInv'
<1>a. DeskTypeOK /\ UserInv /\ FileInv /\ CmdInv
  BY DEF ConfigInv
<1>1. /\ cmd' \in [Cmd -> Locals] /\ cmd'[p] = c
      /\ \A q \in Cmd \ {p} : cmd'[q] = cmd[q]
  BY <1>a, CmdSet DEF Goes
<1>2. UNCHANGED <<state, config, script, changes, stops, entered, chosen, entry, backup, spoilt>>
  BY DEF Goes, file, wishes, entries
<1>3. c.pc = "found" => c.kind \in Kind
  BY DEF Faithful
<1>4. app' \in SUBSET Kind /\ dir' \in SUBSET Kind
  BY <1>a DEF Goes, installs, DeskTypeOK, ChoiceTypeOK
<1>5. DeskTypeOK'
  BY <1>a, <1>1, <1>2, <1>3, <1>4 DEF DeskTypeOK, ChoiceTypeOK, Locals
<1>6. UserInv'
  BY <1>a, <1>1, <1>2 DEF UserInv, Busy, Writers
<1>7. FileInv'
  BY <1>a, <1>1, <1>2 DEF FileInv
<1>8. CmdInv'
  BY <1>a, <1>1, <1>2 DEF CmdInv, Faithful
<1> QED BY <1>5, <1>6, <1>7, <1>8 DEF ConfigInv

(* main.go: a command that fails changes nothing. *)
LEMMA ErrorInv ==
  ASSUME ConfigInv, NEW p \in Cmd, Error(p), UNCHANGED <<entries, spoilt>>,
         cmd[p].pc # "store"
  PROVE  ConfigInv'
BY EndedType, GoesInv DEF Error, Writers

(* installdetect.go:88-105: an install that was asked for, and found. *)
LEMMA ExplicitInv ==
  ASSUME ConfigInv, NEW p \in Cmd, NEW k \in Kind, NEW pc \in {"load", "found"},
         Explicit(p, k, pc), UNCHANGED <<entries, spoilt>>, cmd[p].pc # "store",
         pc = "load" => cmd[p].due = Unset /\ ~ Busy,
         pc = "found" /\ cmd[p].due # Unset => k = cmd[p].due
  PROVE  ConfigInv'
<1> DEFINE c == [cmd[p] EXCEPT !.pc = pc, !.kind = k, !.cfg = NoConfig]
<1>1. cmd[p] \in Locals
  BY Types DEF ConfigInv
<1>2. c \in Locals /\ c.pc = pc /\ c.kind = k /\ c.due = cmd[p].due
  BY <1>1, EndedType DEF Locals
<1>3. Faithful(c)
  BY <1>2 DEF Faithful, Writers
<1>4. c.pc \in Writers => ~ Busy
  BY <1>2 DEF Writers
<1> HIDE DEF c
<1>5. Goes(p, c) \/ Error(p)
  BY DEF Explicit, c
<1> QED BY <1>2, <1>3, <1>4, <1>5, GoesInv, ErrorInv

(* config.go:60-75: what a command resolves is the user's choice, unless   *)
(* it was given another.                                                   *)
LEMMA ResolveInv ==
  ASSUME ConfigInv, NEW p \in Cmd, NEW given \in Config, Resolve(p, given),
         UNCHANGED <<entries, spoilt>>
  PROVE  ConfigInv'
<1> DEFINE due == IF given.install = Unset THEN chosen ELSE Unset
           c == [Ended EXCEPT !.pc = "detect", !.cfg = overlay(config, given), !.due = due]
<1>1. config \in Config /\ chosen \in Kind \cup {Unset} /\ state \in {"missing", "whole"}
  BY DEF Resolve, ConfigInv, DeskTypeOK, ChoiceTypeOK
<1>2. /\ overlay(config, given) \in Config
      /\ overlay(config, given).install
           = IF given.install # Unset THEN given.install ELSE config.install
  BY <1>1, OverlayFields
<1>3. /\ c \in Locals /\ c.pc = "detect" /\ c.due = due
      /\ c.cfg = overlay(config, given)
  BY <1>1, <1>2 DEF Ended, Locals
<1>4. due # Unset => c.cfg.install = due
  BY <1>1, <1>2, <1>3 DEF ConfigInv, FileInv
<1>5. Faithful(c) /\ c.pc \notin Writers
  BY <1>3, <1>4 DEF Faithful, Writers
<1>6. Goes(p, c) /\ cmd[p].pc # "store"
  BY DEF Resolve
<1> HIDE DEF c
<1> QED BY <1>3, <1>5, <1>6, GoesInv

(* installdetect.go:57-84: the choice that was made is not asked again. *)
LEMMA DetectInv ==
  ASSUME ConfigInv, NEW p \in Cmd, Detect(p), UNCHANGED <<entries, spoilt>>
  PROVE  ConfigInv'
<1>1. cmd[p] \in Locals /\ Faithful(cmd[p]) /\ cmd[p].pc = "detect"
  BY Types DEF ConfigInv, CmdInv, Detect
<1>2. CASE cmd[p].cfg.install # Unset
  <2>1. cmd[p].cfg.install \in Kind
    BY <1>1, <1>2 DEF Locals, Config
  <2>2. Explicit(p, cmd[p].cfg.install, "found")
    BY <1>2 DEF Detect
  <2>3. cmd[p].due # Unset => cmd[p].cfg.install = cmd[p].due
    BY <1>1 DEF Faithful
  <2> QED BY <1>1, <2>1, <2>2, <2>3, ExplicitInv
<1>3. CASE cmd[p].cfg.install = Unset
  <2>1. cmd[p].due = Unset
    BY <1>1, <1>3 DEF Faithful
  <2> DEFINE c == [cmd[p] EXCEPT !.pc = "prompt"]
  <2>2. c \in Locals /\ Faithful(c) /\ c.pc \notin Writers
    BY <1>1, <2>1 DEF Locals, Faithful, Writers
  <2>3. Goes(p, c) \/ Error(p) \/ \E k \in Kind : Explicit(p, k, "found")
    BY <1>3 DEF Detect
  <2> HIDE DEF c
  <2> QED BY <1>1, <2>1, <2>2, <2>3, GoesInv, ErrorInv, ExplicitInv
<1> QED BY <1>2, <1>3

(* install.go:34-60: an answer is saved with what the file holds by then. *)
LEMMA LoadAgainInv ==
  ASSUME ConfigInv, NEW p \in Cmd, LoadAgain(p), UNCHANGED <<entries, spoilt>>
  PROVE  ConfigInv'
<1>1. cmd[p] \in Locals /\ Faithful(cmd[p]) /\ cmd[p].pc = "load" /\ config \in Config
  BY Types DEF ConfigInv, CmdInv, LoadAgain, ChoiceTypeOK
<1>2. CASE state = "torn"
  BY <1>1, <1>2, ErrorInv DEF LoadAgain
<1>3. CASE state # "torn"
  <2> DEFINE c == [cmd[p] EXCEPT !.pc = "create",
                                 !.cfg = [config EXCEPT !.install = cmd[p].kind]]
  <2>1. cmd[p].kind \in Kind /\ cmd[p].due = Unset
    BY <1>1 DEF Faithful, Writers
  <2>2. config.cred = entered
    BY <1>3, EndedType DEF ConfigInv, FileInv, DeskTypeOK, ChoiceTypeOK
  <2>3. /\ c \in Locals /\ c.pc = "create" /\ c.kind = cmd[p].kind /\ c.due = cmd[p].due
        /\ c.cfg.install = cmd[p].kind /\ c.cfg.cred = config.cred
    BY <1>1, <2>1 DEF Locals, Config
  <2>4. Faithful(c)
    BY <2>1, <2>2, <2>3 DEF Faithful, Writers
  <2>5. Goes(p, c)
    BY <1>3 DEF LoadAgain
  <2> HIDE DEF c
  <2> QED BY <1>1, <2>3, <2>4, <2>5, GoesInv DEF Writers
<1> QED BY <1>2, <1>3

(* config.go:85-98: the file is torn while the one command writes it. *)
LEMMA CreateFileInv ==
  ASSUME ConfigInv, NEW p \in Cmd, CreateFile(p), UNCHANGED <<entries, spoilt>>
  PROVE  ConfigInv'
<1>a. DeskTypeOK /\ UserInv /\ FileInv /\ CmdInv
  BY DEF ConfigInv
<1> DEFINE c == [cmd[p] EXCEPT !.pc = "store"]
<1>1. cmd[p] \in Locals /\ Faithful(cmd[p]) /\ cmd[p].pc = "create"
  BY <1>a, Types DEF CmdInv, CreateFile
<1>2. /\ c \in Locals /\ c.pc = "store" /\ c.kind = cmd[p].kind /\ c.due = cmd[p].due
      /\ c.cfg = cmd[p].cfg
  BY <1>1 DEF Locals
<1>3. cmd' = [cmd EXCEPT ![p] = c]
  BY <1>a, Types DEF CreateFile
<1> HIDE DEF c
<1>4. /\ cmd' \in [Cmd -> Locals] /\ cmd'[p] = c
      /\ \A q \in Cmd \ {p} : cmd'[q] = cmd[q]
  BY <1>a, <1>2, <1>3, CmdSet
<1>5. /\ state' = "torn" /\ config' = NoConfig
      /\ UNCHANGED <<app, dir, script, changes, stops, entered, chosen, entry, backup, spoilt>>
  BY DEF CreateFile, installs, wishes, entries
<1>6. DeskTypeOK'
  BY <1>a, <1>2, <1>4, <1>5, EndedType DEF DeskTypeOK, ChoiceTypeOK, Locals
<1>7. UserInv' /\ FileInv'
  BY <1>a, <1>1, <1>2, <1>4, <1>5 DEF UserInv, FileInv, Writers
<1>8. CmdInv'
  BY <1>a, <1>1, <1>2, <1>4, <1>5 DEF CmdInv, Faithful, Writers
<1> QED BY <1>6, <1>7, <1>8 DEF ConfigInv

(* config.go:95-98: then it holds the answer and the credential, whole. *)
LEMMA StoreInv ==
  ASSUME ConfigInv, NEW p \in Cmd, Store(p), UNCHANGED <<entries, spoilt>>
  PROVE  ConfigInv'
<1>a. DeskTypeOK /\ UserInv /\ FileInv /\ CmdInv
  BY DEF ConfigInv
<1> DEFINE c == [cmd[p] EXCEPT !.pc = "found", !.cfg = NoConfig]
<1>1. /\ cmd[p] \in Locals /\ Faithful(cmd[p]) /\ cmd[p].pc = "store"
  BY <1>a, Types DEF CmdInv, Store
<1>2. /\ cmd[p].cfg \in Config /\ cmd[p].cfg.install = cmd[p].kind
      /\ cmd[p].cfg.cred = entered /\ cmd[p].kind \in Kind /\ cmd[p].due = Unset
  BY <1>1 DEF Faithful, Writers, Locals
<1>3. /\ c \in Locals /\ c.pc = "found" /\ c.kind = cmd[p].kind /\ c.due = cmd[p].due
  BY <1>1, EndedType DEF Locals
<1>4. cmd' = [cmd EXCEPT ![p] = c]
  BY <1>a, Types DEF Store
<1> HIDE DEF c
<1>5. /\ cmd' \in [Cmd -> Locals] /\ cmd'[p] = c
      /\ \A q \in Cmd \ {p} : cmd'[q] = cmd[q]
  BY <1>a, <1>3, <1>4, CmdSet
<1>6. /\ state' = "whole" /\ config' = cmd[p].cfg /\ chosen' = cmd[p].kind
      /\ UNCHANGED <<app, dir, script, changes, stops, entered, entry, backup, spoilt>>
  BY DEF Store, installs, entries
<1>7. DeskTypeOK'
  BY <1>a, <1>2, <1>3, <1>5, <1>6 DEF DeskTypeOK, ChoiceTypeOK, Locals
<1>8. UserInv' /\ FileInv'
  BY <1>a, <1>1, <1>2, <1>3, <1>5, <1>6 DEF UserInv, FileInv, Writers
<1>9. CmdInv'
  BY <1>a, <1>1, <1>2, <1>3, <1>5, <1>6 DEF CmdInv, Faithful, Writers
<1> QED BY <1>7, <1>8, <1>9 DEF ConfigInv

(* A command that is cut short may leave the file torn. *)
LEMMA StopInv ==
  ASSUME ConfigInv, NEW p \in Cmd, Stop(p), UNCHANGED <<entries, spoilt>>
  PROVE  ConfigInv'
<1>a. DeskTypeOK /\ UserInv /\ FileInv /\ CmdInv
  BY DEF ConfigInv
<1>1. /\ cmd' \in [Cmd -> Locals] /\ cmd'[p] = Ended
      /\ \A q \in Cmd \ {p} : cmd'[q] = cmd[q]
  BY <1>a, EndedType, CmdSet DEF Stop
<1>2. UNCHANGED <<state, config, app, dir, script, changes, entered, chosen, entry, backup,
                  spoilt>>
  BY DEF Stop, file, installs, wishes, entries
<1>3. stops' \in 0..MaxStops /\ stops' > 0
  BY <1>a, InstallChoiceAssumption DEF Stop, DeskTypeOK, ChoiceTypeOK
<1>4. DeskTypeOK'
  BY <1>a, <1>1, <1>2, <1>3, EndedType DEF DeskTypeOK, ChoiceTypeOK, Locals
<1>5. UserInv' /\ FileInv'
  BY <1>a, <1>1, <1>2, <1>3, EndedType DEF UserInv, FileInv, Writers
<1>6. CmdInv'
  BY <1>a, <1>1, <1>2, EndedType DEF CmdInv, Faithful
<1> QED BY <1>4, <1>5, <1>6 DEF ConfigInv

(* main.go: a command's steps, next to whatever else goes on. *)
LEMMA CommandInv ==
  ASSUME ConfigInv, NEW p \in Cmd, CommandStep(p), UNCHANGED <<entries, spoilt>>
  PROVE  ConfigInv'
<1>1. ASSUME NEW k \in Kind, Answer(p, k) PROVE ConfigInv'
  <2>1. cmd[p].pc = "prompt" /\ ~ Busy /\ Explicit(p, k, "load")
    BY <1>1 DEF Answer
  <2>2. cmd[p].due = Unset
    BY <2>1 DEF ConfigInv, CmdInv, Faithful
  <2> QED BY <2>1, <2>2, ExplicitInv
<1>2. ASSUME AnswerFails(p) PROVE ConfigInv'
  BY <1>2, ErrorInv DEF AnswerFails
<1>3. ASSUME NEW given \in Config, SyncOrRun(p, given) \/ Status(p, given) PROVE ConfigInv'
  BY <1>3, ResolveInv DEF SyncOrRun, Status
<1> QED BY <1>1, <1>2, <1>3, DetectInv, LoadAgainInv, CreateFileInv, StoreInv, StopInv
        DEF CommandStep

(* FreeTube comes and goes; what was chosen stays. *)
LEMMA InstallsInv ==
  ASSUME ConfigInv, NEW k \in Kind, InstallsChange(k), UNCHANGED <<entries, spoilt>>
  PROVE  ConfigInv'
<1>a. DeskTypeOK /\ UserInv /\ FileInv /\ CmdInv
  BY DEF ConfigInv
<1>1. UNCHANGED <<state, config, cmd, script, stops, entered, chosen, entry, backup, spoilt>>
  BY DEF InstallsChange, file, wishes, entries
<1>2. app' \in SUBSET Kind /\ dir' \in SUBSET Kind
  BY <1>a DEF InstallsChange, DeskTypeOK, ChoiceTypeOK
<1>3. changes' \in 0..MaxChanges
  BY <1>a, InstallChoiceAssumption DEF InstallsChange, DeskTypeOK, ChoiceTypeOK
<1>4. DeskTypeOK'
  BY <1>a, <1>1, <1>2, <1>3 DEF DeskTypeOK, ChoiceTypeOK
<1>5. UserInv' /\ FileInv' /\ CmdInv'
  BY <1>a, <1>1 DEF UserInv, FileInv, CmdInv, Faithful
<1> QED BY <1>4, <1>5 DEF ConfigInv

-----------------------------------------------------------------------------
(* A step of a script that leaves config.json alone. *)
LEMMA ScriptInv ==
  ASSUME ConfigInv, NEW l \in Scripts, ScriptGoes(l), UNCHANGED <<file, wishes>>,
         entry' \in [Entry -> Content], backup' \in [Entry -> Content], spoilt' \subseteq Entry,
         l.pc \in {"config", "backup", "truncate", "entry"} => l.kind \in Kind,
         l.pc # "end" => script.pc # "end" \/ ~ Busy
  PROVE  ConfigInv'
<1>a. DeskTypeOK /\ UserInv /\ FileInv /\ CmdInv
  BY DEF ConfigInv
<1>1. script' = l /\ UNCHANGED <<state, config, app, dir, cmd, changes, stops, entered, chosen>>
  BY DEF ScriptGoes, file, installs, wishes
<1>2. DeskTypeOK'
  BY <1>a, <1>1 DEF DeskTypeOK, ChoiceTypeOK, Scripts
<1>3. UserInv' /\ FileInv' /\ CmdInv'
  BY <1>a, <1>1 DEF UserInv, FileInv, CmdInv, Faithful, Busy, Writers
<1> QED BY <1>2, <1>3 DEF ConfigInv

(* install-client.sh: the installer's config.json is the user's choice. *)
LEMMA ReplaceConfigInv ==
  ASSUME ConfigInv, NEW c \in Cred, ReplaceConfig(c)
  PROVE  ConfigInv'
<1>a. DeskTypeOK /\ UserInv /\ FileInv /\ CmdInv
  BY DEF ConfigInv
<1> DEFINE l == [script EXCEPT !.pc = "backup"]
<1>1. script \in Scripts /\ script.pc = "config" /\ script.kind \in Kind
  BY <1>a, Types DEF ReplaceConfig, UserInv
<1>2. l \in Scripts /\ l.pc = "backup" /\ l.kind = script.kind
  BY <1>1 DEF Scripts
<1>3. /\ state' = "whole" /\ config'.install = script.kind /\ config'.cred = c
      /\ config' \in Config /\ entered' = c /\ chosen' = script.kind /\ script' = l
  BY <1>1 DEF ReplaceConfig, ScriptGoes, Config
<1>4. UNCHANGED <<app, dir, cmd, changes, stops, entry, backup, spoilt>>
  BY DEF ReplaceConfig, ScriptGoes, installs, entries
<1> HIDE DEF l
<1>5. DeskTypeOK'
  BY <1>a, <1>1, <1>2, <1>3, <1>4 DEF DeskTypeOK, ChoiceTypeOK, Scripts
<1>6. UserInv' /\ FileInv'
  BY <1>a, <1>1, <1>2, <1>3, <1>4, InstallChoiceAssumption DEF UserInv, FileInv
<1>7. CmdInv'
  BY <1>a, <1>1, <1>4 DEF CmdInv, UserInv, Faithful, Writers
<1> QED BY <1>5, <1>6, <1>7 DEF ConfigInv

(* uninstall-client.sh: config.json goes, and the choice with it. *)
LEMMA RemoveConfigInv ==
  ASSUME ConfigInv, NEW keep \in BOOLEAN, RemoveConfig(keep)
  PROVE  ConfigInv'
<1>a. DeskTypeOK /\ UserInv /\ FileInv /\ CmdInv
  BY DEF ConfigInv
<1>1. CASE keep
  <2>1. UNCHANGED <<file, wishes, entry, backup, spoilt>> /\ ScriptGoes(NoScript)
    BY <1>1 DEF RemoveConfig, entries
  <2> QED BY <1>a, <2>1, EndedType, ScriptInv, Types
<1>2. CASE ~ keep
  <2>1. /\ state' = "missing" /\ config' = NoConfig /\ entered' = Unset /\ chosen' = Unset
        /\ script' = NoScript /\ script.pc = "scan"
        /\ UNCHANGED <<app, dir, cmd, changes, stops, entry, backup, spoilt>>
    BY <1>2 DEF RemoveConfig, ScriptGoes, installs, entries
  <2>2. DeskTypeOK'
    BY <1>a, <2>1, EndedType DEF DeskTypeOK, ChoiceTypeOK, Scripts
  <2>3. UserInv' /\ FileInv'
    BY <1>a, <2>1, EndedType DEF UserInv, FileInv
  <2>4. CmdInv'
    BY <1>a, <2>1 DEF CmdInv, UserInv, Faithful, Writers
  <2> QED BY <2>2, <2>3, <2>4 DEF ConfigInv
<1> QED BY <1>1, <1>2

(* A script that is cut short has written config.json whole, or not yet. *)
LEMMA StopScriptInv == ConfigInv /\ StopScript => ConfigInv'
<1> SUFFICES ASSUME ConfigInv, StopScript PROVE ConfigInv'
  OBVIOUS
<1>a. DeskTypeOK /\ UserInv /\ FileInv /\ CmdInv
  BY DEF ConfigInv
<1>1. /\ script' = NoScript
      /\ UNCHANGED <<state, config, app, dir, cmd, changes, entered, chosen, entry, backup>>
  BY DEF StopScript, file, installs, wishes, entries
<1>2. stops' \in 0..MaxStops /\ stops' > 0
  BY <1>a, InstallChoiceAssumption DEF StopScript, DeskTypeOK, ChoiceTypeOK
<1>3. spoilt' \subseteq Entry
  BY <1>a DEF StopScript, DeskTypeOK
<1>4. DeskTypeOK'
  BY <1>a, <1>1, <1>2, <1>3, EndedType DEF DeskTypeOK, ChoiceTypeOK, Scripts
<1>5. UserInv' /\ FileInv' /\ CmdInv'
  BY <1>a, <1>1, <1>2, EndedType DEF UserInv, FileInv, CmdInv, Faithful
<1> QED BY <1>4, <1>5 DEF ConfigInv

(* The scripts, step by step: config.json and entries stay typed, and only *)
(* the user's choice is in config.json.                                    *)
LEMMA ConfigNext == ConfigInv /\ [DeskNext]_deskvars => ConfigInv'
<1> SUFFICES ASSUME ConfigInv, [DeskNext]_deskvars PROVE ConfigInv'
  OBVIOUS
<1>a. /\ script \in Scripts /\ entry \in [Entry -> Content] /\ backup \in [Entry -> Content]
      /\ spoilt \subseteq Entry
  BY Types DEF ConfigInv
<1>b. Kind \subseteq Content /\ Torn \in Content /\ None \in Content
  BY DEF Content
<1>c. script.pc \in {"config", "backup", "truncate", "entry"} => script.kind \in Kind
  BY DEF ConfigInv, UserInv
<1>1. ASSUME NEW k \in Kind, NEW forced \in BOOLEAN, NEW shadow \in BOOLEAN,
             StartInstall(k, forced, shadow)
      PROVE  ConfigInv'
  <2> DEFINE l == [NoScript EXCEPT !.pc = "config", !.kind = k,
                                   !.file = IF shadow THEN k ELSE Separate]
  <2>1. l \in Scripts /\ l.kind = k
    BY DEF NoScript, Scripts, Entry
  <2>2. ScriptGoes(l) /\ UNCHANGED <<file, wishes, entry, backup, spoilt>> /\ ~ Busy
    BY <1>1 DEF StartInstall, entries
  <2> HIDE DEF l
  <2> QED BY <1>a, <2>1, <2>2, ScriptInv
<1>2. ASSUME BackUpEntry PROVE ConfigInv'
  <2> DEFINE l == [script EXCEPT !.pc = "truncate"]
  <2>1. l \in Scripts /\ l.pc = "truncate" /\ l.kind = script.kind
    BY <1>a DEF Scripts
  <2>2. /\ ScriptGoes(l) /\ UNCHANGED <<file, wishes, entry, spoilt>> /\ script.pc = "backup"
        /\ backup' \in [Entry -> Content]
    BY <1>2, <1>a DEF BackUpEntry, Scripts
  <2> HIDE DEF l
  <2> QED BY <1>a, <1>c, <2>1, <2>2, ScriptInv
<1>3. ASSUME TruncateEntry PROVE ConfigInv'
  <2> DEFINE l == [script EXCEPT !.pc = "entry"]
  <2>1. l \in Scripts /\ l.pc = "entry" /\ l.kind = script.kind
    BY <1>a DEF Scripts
  <2>2. /\ ScriptGoes(l) /\ UNCHANGED <<file, wishes, backup, spoilt>>
        /\ script.pc = "truncate" /\ entry' \in [Entry -> Content]
    BY <1>3, <1>a, <1>b DEF TruncateEntry
  <2> HIDE DEF l
  <2> QED BY <1>a, <1>c, <2>1, <2>2, ScriptInv
<1>4. ASSUME WriteEntry PROVE ConfigInv'
  <2>1. /\ ScriptGoes(NoScript) /\ UNCHANGED <<file, wishes, backup, spoilt>>
        /\ entry' \in [Entry -> Content]
    BY <1>4, <1>a, <1>b, <1>c DEF WriteEntry
  <2> QED BY <1>a, <2>1, EndedType, ScriptInv
<1>5. ASSUME StartUninstall PROVE ConfigInv'
  <2> DEFINE l == [NoScript EXCEPT !.pc = "scan", !.todo = Entry]
  <2>1. l \in Scripts /\ l.pc = "scan"
    BY DEF NoScript, Scripts, Entry
  <2>2. ScriptGoes(l) /\ UNCHANGED <<file, wishes, entry, backup, spoilt>> /\ ~ Busy
    BY <1>5 DEF StartUninstall, entries
  <2> HIDE DEF l
  <2> QED BY <1>a, <2>1, <2>2, ScriptInv
<1>6. ASSUME NEW f \in Entry, RemoveEntry(f) PROVE ConfigInv'
  <2> DEFINE l == [script EXCEPT !.todo = @ \ {f}]
  <2>1. l \in Scripts /\ l.pc = script.pc
    BY <1>a DEF Scripts
  <2>2. ScriptGoes(l) /\ UNCHANGED <<file, wishes, spoilt>> /\ script.pc = "scan"
    BY <1>6 DEF RemoveEntry
  <2>3. entry' \in [Entry -> Content]
    BY <1>6, <1>a DEF RemoveEntry
  <2>4. backup' \in [Entry -> Content]
    BY <1>6, <1>a, <1>b DEF RemoveEntry
  <2> HIDE DEF l
  <2> QED BY <1>a, <2>1, <2>2, <2>3, <2>4, ScriptInv
<1>7. ASSUME UNCHANGED deskvars PROVE ConfigInv'
  BY <1>7 DEF deskvars, choicevars, file, installs, wishes, entries, ConfigInv, DeskTypeOK,
              ChoiceTypeOK, UserInv, FileInv, CmdInv, Faithful
<1> QED BY <1>1, <1>2, <1>3, <1>4, <1>5, <1>6, <1>7, CommandInv, InstallsInv,
           ReplaceConfigInv, RemoveConfigInv, StopScriptInv DEF DeskNext

-----------------------------------------------------------------------------
(* What entries hold can be told apart: nothing, the user's own, torn, ours. *)
LEMMA BeforeType ==
  ASSUME NEW f \in Entry
  PROVE  /\ before[f] \in {None, Original} /\ before[f] \notin Kind /\ before[f] # Torn
         /\ None \notin Kind /\ Torn \notin Kind /\ None # Torn /\ before[f] \in Content
         /\ f \in Originals => before[f] = Original
BY LauncherAssumption DEF before, Content

(* A step that changes no entry, and begins to write none. *)
LEMMA EntriesStay ==
  ASSUME EntriesInv, UninstallUndoes, UNCHANGED <<entry, backup, spoilt>>,
         script' = script \/ (script.pc # "entry" /\ script'.pc \in {"end", "config", "backup"})
           \/ (script.pc # "entry" /\ script'.pc = "scan" /\ script'.todo = Entry)
  PROVE  (EntriesInv /\ UninstallUndoes)'
BY DEF EntriesInv, Kept, managed, UninstallUndoes, before, Entry

(* uninstall-client.sh: a managed entry becomes what was there before. *)
LEMMA RemoveEntryKeeps ==
  ASSUME ConfigInv, EntriesInv, UninstallUndoes, NEW f \in Entry, RemoveEntry(f)
  PROVE  (EntriesInv /\ UninstallUndoes)'
<1>a. /\ script \in Scripts /\ entry \in [Entry -> Content] /\ backup \in [Entry -> Content]
  BY Types DEF ConfigInv
<1>1. /\ script.pc = "scan" /\ script'.pc = "scan" /\ script'.todo = script.todo \ {f}
      /\ spoilt' = spoilt
  BY <1>a DEF RemoveEntry, ScriptGoes, Scripts
<1>2. \A g \in Entry \ {f} : entry'[g] = entry[g] /\ backup'[g] = backup[g]
  BY <1>a DEF RemoveEntry
<1>3. /\ managed(f) => entry'[f] = backup[f] /\ backup'[f] = None
      /\ ~ managed(f) => entry'[f] = entry[f] /\ backup'[f] = backup[f]
  BY <1>a DEF RemoveEntry
<1>4. ASSUME f \notin spoilt PROVE Kept(f)' /\ entry'[f] = before[f]
  <2>1. Kept(f)
    BY <1>4 DEF EntriesInv
  <2>2. CASE managed(f)
    BY <1>1, <1>3, <2>1, <2>2, BeforeType DEF Kept, managed, before, Entry
  <2>3. CASE ~ managed(f)
    BY <1>1, <1>3, <2>1, <2>3, BeforeType DEF Kept, managed, before, Entry
  <2> QED BY <2>2, <2>3
<1>5. ASSUME NEW g \in Entry \ spoilt, g # f PROVE Kept(g)'
  BY <1>1, <1>2, <1>5 DEF EntriesInv, Kept, managed, before, Entry
<1>6. EntriesInv'
  BY <1>1, <1>4, <1>5 DEF EntriesInv, Entry
<1>7. UninstallUndoes'
  BY <1>1, <1>2, <1>4 DEF UninstallUndoes, before, Entry
<1> QED BY <1>6, <1>7

(* install-client.sh:251-254: the entry that is replaced is in its backup. *)
LEMMA BackUpKeeps ==
  ASSUME ConfigInv, EntriesInv, BackUpEntry
  PROVE  (EntriesInv /\ UninstallUndoes)'
<1>a. /\ script \in Scripts /\ entry \in [Entry -> Content] /\ backup \in [Entry -> Content]
  BY Types DEF ConfigInv
<1>b. PICK f \in Entry : f = script.file
  BY <1>a DEF Scripts
<1>1. /\ script.pc = "backup" /\ script'.pc = "truncate" /\ script'.file = f
      /\ entry' = entry /\ spoilt' = spoilt
  BY <1>a, <1>b DEF BackUpEntry, ScriptGoes, Scripts
<1>2. \A g \in Entry \ {f} : backup'[g] = backup[g]
  BY <1>a, <1>b DEF BackUpEntry
<1>3. backup'[f] = IF entry[f] = None \/ managed(f) THEN backup[f] ELSE entry[f]
  BY <1>a, <1>b DEF BackUpEntry
<1>4. ASSUME f \notin spoilt PROVE Kept(f)'
  <2>1. Kept(f)
    BY <1>4, <1>b DEF EntriesInv
  <2>2. backup'[f] = before[f]
    BY <1>1, <1>3, <1>b, <2>1, BeforeType DEF Kept
  <2> QED BY <1>1, <2>1, <2>2 DEF Kept, managed, before, Entry
<1>5. ASSUME NEW g \in Entry \ spoilt, g # f PROVE Kept(g)'
  BY <1>1, <1>2, <1>5 DEF EntriesInv, Kept, managed, before, Entry
<1> QED BY <1>1, <1>4, <1>5 DEF EntriesInv, UninstallUndoes, Entry

(* install-client.sh: then it is written, from nothing. *)
LEMMA WritingKeeps ==
  ASSUME ConfigInv, EntriesInv, TruncateEntry \/ WriteEntry
  PROVE  (EntriesInv /\ UninstallUndoes)'
<1>a. /\ script \in Scripts /\ entry \in [Entry -> Content]
      /\ script.pc \in {"truncate", "entry"} => script.kind \in Kind
  BY Types DEF ConfigInv, UserInv
<1>b. PICK f \in Entry : f = script.file
  BY <1>a DEF Scripts
<1>1. /\ backup' = backup /\ spoilt' = spoilt /\ script.pc \in {"truncate", "entry"}
      /\ \A g \in Entry \ {f} : entry'[g] = entry[g]
  BY <1>a, <1>b DEF TruncateEntry, WriteEntry
<1>2. \/ /\ entry'[f] = Torn /\ script'.pc = "entry" /\ script'.file = f
         /\ script.pc = "truncate"
      \/ entry'[f] \in Kind /\ script'.pc = "end"
  BY <1>a, <1>b, EndedType DEF TruncateEntry, WriteEntry, ScriptGoes, Scripts
<1>3. ASSUME f \notin spoilt PROVE Kept(f)'
  <2>1. Kept(f)
    BY <1>3, <1>b DEF EntriesInv
  <2>2. backup[f] = before[f]
    BY <1>1, <1>b, <2>1 DEF Kept
  <2> QED BY <1>1, <1>2, <2>2 DEF Kept, managed, before, Entry
<1>4. ASSUME NEW g \in Entry \ spoilt, g # f PROVE Kept(g)'
  BY <1>1, <1>b, <1>2, <1>4 DEF EntriesInv, Kept, managed, before, Entry
<1> QED BY <1>1, <1>2, <1>3, <1>4 DEF EntriesInv, UninstallUndoes, Entry

(* A script that is cut short spoils the entry it was writing, no other. *)
LEMMA StopScriptKeeps ==
  ASSUME EntriesInv, StopScript
  PROVE  (EntriesInv /\ UninstallUndoes)'
<1>1. /\ script'.pc = "end" /\ entry' = entry /\ backup' = backup
      /\ spoilt \subseteq spoilt'
      /\ script.pc = "entry" => script.file \in spoilt'
  BY EndedType DEF StopScript, entries
<1> QED BY <1>1 DEF EntriesInv, Kept, managed, UninstallUndoes, before, Entry

(* install-client.sh, uninstall-client.sh: every step keeps the entries. *)
LEMMA EntriesNext == DeskInv /\ [DeskNext]_deskvars => (EntriesInv /\ UninstallUndoes)'
<1> SUFFICES ASSUME DeskInv, [DeskNext]_deskvars PROVE (EntriesInv /\ UninstallUndoes)'
  OBVIOUS
<1>a. ConfigInv /\ EntriesInv /\ UninstallUndoes /\ script \in Scripts
  BY Types DEF DeskInv, ConfigInv
<1>1. CASE \/ (\E k \in Kind : InstallsChange(k)) /\ UNCHANGED <<entries, spoilt>>
           \/ (\E p \in Cmd : CommandStep(p)) /\ UNCHANGED <<entries, spoilt>>
  <2>1. script' = script
    BY <1>1 DEF InstallsChange, CommandStep, SyncOrRun, Status, Resolve, Detect, Answer,
                AnswerFails, LoadAgain, CreateFile, Store, Stop, Explicit, Error, Goes
  <2> QED BY <1>1, <1>a, <2>1, EntriesStay DEF entries
<1>2. ASSUME NEW k \in Kind, NEW forced \in BOOLEAN, NEW shadow \in BOOLEAN,
             StartInstall(k, forced, shadow)
      PROVE  (EntriesInv /\ UninstallUndoes)'
  <2>1. script.pc = "end" /\ script'.pc = "config" /\ UNCHANGED <<entry, backup, spoilt>>
    BY <1>2 DEF StartInstall, Busy, ScriptGoes, NoScript, entries
  <2> QED BY <1>a, <2>1, EntriesStay
<1>3. ASSUME NEW c \in Cred, ReplaceConfig(c) PROVE (EntriesInv /\ UninstallUndoes)'
  <2>1. script.pc = "config" /\ script'.pc = "backup" /\ UNCHANGED <<entry, backup, spoilt>>
    BY <1>3, <1>a DEF ReplaceConfig, ScriptGoes, Scripts, entries
  <2> QED BY <1>a, <2>1, EntriesStay
<1>4. CASE StartUninstall
  <2>1. /\ script.pc = "end" /\ script'.pc = "scan" /\ script'.todo = Entry
        /\ UNCHANGED <<entry, backup, spoilt>>
    BY <1>4 DEF StartUninstall, Busy, ScriptGoes, NoScript, entries
  <2> QED BY <1>a, <2>1, EntriesStay
<1>5. ASSUME NEW keep \in BOOLEAN, RemoveConfig(keep) PROVE (EntriesInv /\ UninstallUndoes)'
  <2>1. script.pc = "scan" /\ script'.pc = "end" /\ UNCHANGED <<entry, backup, spoilt>>
    BY <1>5, EndedType DEF RemoveConfig, ScriptGoes, entries
  <2> QED BY <1>a, <2>1, EntriesStay
<1>6. CASE UNCHANGED deskvars
  <2>1. UNCHANGED <<script, entry, backup, spoilt>>
    BY <1>6 DEF deskvars, choicevars, entries
  <2> QED BY <1>a, <2>1, EntriesStay
<1> QED BY <1>1, <1>2, <1>3, <1>4, <1>5, <1>6, <1>a, BackUpKeeps, WritingKeeps,
           RemoveEntryKeeps, StopScriptKeeps DEF DeskNext

(* config.json, commands and entries before the scripts first run. *)
LEMMA InitDeskInv == DeskInit => DeskInv
<1> SUFFICES ASSUME DeskInit PROVE DeskInv
  OBVIOUS
<1>1. /\ cmd \in [Cmd -> Locals] /\ \A p \in Cmd : cmd[p] = Ended
      /\ script = NoScript
  BY EndedType DEF DeskInit, ChoiceInit
<1>2. before \in [Entry -> Content] /\ \A f \in Entry : before[f] \notin Kind
  BY BeforeType DEF before
<1>3. entry \in [Entry -> Content] /\ backup \in [Entry -> Content] /\ spoilt \subseteq Entry
  BY <1>2 DEF DeskInit, Content
<1>4. ChoiceTypeOK
  BY <1>1, EndedType, InstallChoiceAssumption
     DEF DeskInit, ChoiceInit, ChoiceTypeOK, Locals
<1>5. DeskTypeOK
  BY <1>1, <1>3, <1>4, EndedType, Types
<1>6. UserInv /\ FileInv /\ CmdInv
  BY <1>1, EndedType DEF DeskInit, ChoiceInit, UserInv, FileInv, CmdInv, Writers
<1>7. EntriesInv /\ UninstallUndoes
  BY <1>1, <1>2, EndedType DEF DeskInit, EntriesInv, Kept, managed, UninstallUndoes
<1> QED BY <1>5, <1>6, <1>7 DEF DeskInv, ConfigInv

-----------------------------------------------------------------------------
(* Commands and scripts keep config.json and the entries in order. *)
THEOREM DeskInvariant == DeskSpec => []DeskInv
<1>1. DeskInv /\ [DeskNext]_deskvars => DeskInv'
  BY ConfigNext, EntriesNext DEF DeskInv
<1> QED BY <1>1, InitDeskInv, PTL DEF DeskSpec

(* The types of config.json, commands, scripts and entries always hold. *)
THEOREM DeskTypeCorrect == DeskSpec => []DeskTypeOK
<1>1. DeskInv => DeskTypeOK
  BY DEF DeskInv, ConfigInv
<1> QED BY <1>1, DeskInvariant, PTL

(* config.go:68, install.go:49-51: an answer that is saved never loses or  *)
(* replaces the credential, whatever commands that ask nothing do beside,  *)
(* as long as the user does not start a script or answer a second prompt   *)
(* before the first answer is saved (Busy).                                *)
THEOREM CredentialsSafe == DeskSpec => []CredentialKept
<1>1. DeskInv => CredentialKept
  BY DEF DeskInv, ConfigInv, FileInv, CredentialKept
<1> QED BY <1>1, DeskInvariant, PTL

(* install.go:13-17, 49-50, installdetect.go:45-47: where both installs are *)
(* there, a command takes the one the user has chosen and does not ask.     *)
THEOREM AskedOnce == DeskSpec => ChoiceSticks
<1>1. DeskInv => [\A p \in Cmd :
                    /\ Detect(p)
                    /\ cmd[p].due # Unset
                    /\ \A k \in Kind : Present(k)
                    => cmd'[p].pc = "found" /\ cmd'[p].kind = cmd[p].due]_choicevars
  <2> SUFFICES ASSUME DeskInv, NEW p \in Cmd, Detect(p), cmd[p].due # Unset,
                      \A k \in Kind : Present(k)
               PROVE  cmd'[p].pc = "found" /\ cmd'[p].kind = cmd[p].due
    OBVIOUS
  <2>1. cmd[p] \in Locals /\ cmd \in [Cmd -> Locals] /\ Faithful(cmd[p])
    BY Types DEF DeskInv, ConfigInv, CmdInv
  <2>2. cmd[p].pc = "detect" /\ cmd[p].cfg.install = cmd[p].due /\ cmd[p].due \in Kind
    BY <2>1 DEF Detect, Faithful, Locals
  <2>3. Explicit(p, cmd[p].due, "found") /\ Present(cmd[p].due)
    BY <2>2 DEF Detect
  <2>4. cmd' = [cmd EXCEPT ![p] = [cmd[p] EXCEPT !.pc = "found", !.kind = cmd[p].due,
                                                 !.cfg = NoConfig]]
    BY <2>3 DEF Explicit, Goes
  <2> QED BY <2>1, <2>4 DEF Locals
<1> QED BY <1>1, DeskInvariant, PTL DEF ChoiceSticks

(* install-client.sh:251-254: the user's own entry is never lost, in any   *)
(* order of installs, modes and uninstalls.                                *)
THEOREM OriginalsSafe == DeskSpec => []OriginalKept
<1>1. DeskInv => OriginalKept
  <2> SUFFICES ASSUME DeskInv, NEW f \in Originals \ spoilt
               PROVE  Original \in {entry[f], backup[f]}
    BY DEF OriginalKept
  <2>1. f \in Entry \ spoilt
    BY LauncherAssumption DEF Entry
  <2>2. Kept(f) /\ before[f] = Original
    BY <2>1, BeforeType DEF DeskInv, EntriesInv
  <2> QED BY <2>2 DEF Kept
<1> QED BY <1>1, DeskInvariant, PTL

(* uninstall-client.sh:1-4: uninstall restores what was there before the   *)
(* first install.                                                          *)
THEOREM UninstallRestores == DeskSpec => []UninstallUndoes
<1>1. DeskInv => UninstallUndoes
  BY DEF DeskInv
<1> QED BY <1>1, DeskInvariant, PTL
==============================================================================
