------------------------------ MODULE Launcher ------------------------------
(***************************************************************************)
(* install-client.sh and uninstall-client.sh, call by call: config.json    *)
(* and the desktop entries in ~/.local/share/applications, of which the    *)
(* scripts own one of their own (Separate) or replace that of an install   *)
(* (shadow mode), next to the commands of InstallChoice.                   *)
(*                                                                         *)
(* An entry is None, Torn (a script was cut short), the Original it was at *)
(* the start, or managed: the install it launches.  Only the last carries  *)
(* the marker line.                                                        *)
(***************************************************************************)
EXTENDS InstallChoice

CONSTANTS
  Separate, None, Torn, Original,
  Originals   \* the entries that are in the home before the scripts first run

ASSUME LauncherAssumption ==
  /\ Separate \notin Kind /\ Originals \subseteq Kind
  /\ {None, Torn, Original} \cap Kind = {}
  /\ None # Torn /\ None # Original /\ Torn # Original

Entry   == Kind \cup {Separate}           \* the files the scripts may write
Content == Kind \cup {None, Torn, Original}

VARIABLES
  entry,    \* entry[f]: what file f holds
  backup,   \* backup[f]: its .freetube-sync-bak
  spoilt    \* history: the entries that were cut short while they were written

entries  == <<entry, backup>>
deskvars == <<choicevars, entries, spoilt>>

before == [f \in Entry |-> IF f \in Originals THEN Original ELSE None]

(***************************************************************************)
(* A script: the install and the file it is run for, and which entries     *)
(* uninstall has still to look at.                                         *)
(***************************************************************************)
NoScript == [pc |-> "end", kind |-> Unset, file |-> Separate, todo |-> {}]

DeskInit ==
  /\ ChoiceInit
  /\ script = NoScript
  /\ entry = before
  /\ backup = [f \in Entry |-> None]
  /\ spoilt = {}

ScriptGoes(locals) ==
  /\ script' = locals
  /\ UNCHANGED <<installs, cmd, changes, stops>>

managed(f) == entry[f] \in Kind

-----------------------------------------------------------------------------
(* install-client.sh *)

(***************************************************************************)
(* The install is forced by --install (a native one must be in the PATH)   *)
(* or detected, and the user asked between two.  Shadow mode needs an      *)
(* entry to shadow, an installed application's own or one in the home.     *)
(***************************************************************************)
StartInstall(k, forced, shadow) ==
  /\ ~ Busy
  /\ IF forced THEN k = Flatpak \/ k \in app
     ELSE Present(k)
  /\ shadow => k \in app \/ (k = Native /\ entry[k] # None)
  /\ ScriptGoes([NoScript EXCEPT !.pc = "config", !.kind = k,
                                 !.file = IF shadow THEN k ELSE Separate])
  /\ UNCHANGED <<file, entries, spoilt, wishes>>

\* With a new credential, or the one in config.json; by os.replace.
ReplaceConfig(c) ==
  /\ script.pc = "config"
  /\ state' = "whole" /\ config' = [install |-> script.kind, cred |-> c]
  /\ entered' = c /\ chosen' = script.kind
  /\ ScriptGoes([script EXCEPT !.pc = "backup"])
  /\ UNCHANGED <<entries, spoilt>>

\* Mistake: whatever is there is backed up.
MistakeBacksUpOwn ==
  /\ script.pc = "backup"
  /\ backup' = IF entry[script.file] = None THEN backup
               ELSE [backup EXCEPT ![script.file] = entry[script.file]]
  /\ ScriptGoes([script EXCEPT !.pc = "truncate"])
  /\ UNCHANGED <<file, entry, spoilt, wishes>>

\* A file that is there without the marker is backed up.
BackUpEntry ==
  /\ script.pc = "backup"
  /\ backup' = IF entry[script.file] = None \/ managed(script.file) THEN backup
               ELSE [backup EXCEPT ![script.file] = entry[script.file]]
  /\ ScriptGoes([script EXCEPT !.pc = "truncate"])
  /\ UNCHANGED <<file, entry, spoilt, wishes>>

TruncateEntry ==
  /\ script.pc = "truncate"
  /\ entry' = [entry EXCEPT ![script.file] = Torn]
  /\ ScriptGoes([script EXCEPT !.pc = "entry"])
  /\ UNCHANGED <<file, backup, spoilt, wishes>>

WriteEntry ==
  /\ script.pc = "entry"
  /\ entry' = [entry EXCEPT ![script.file] = script.kind]
  /\ ScriptGoes(NoScript)
  /\ UNCHANGED <<file, backup, spoilt, wishes>>

-----------------------------------------------------------------------------
(* uninstall-client.sh *)

StartUninstall ==
  /\ ~ Busy
  /\ ScriptGoes([NoScript EXCEPT !.pc = "scan", !.todo = Entry])
  /\ UNCHANGED <<file, entries, spoilt, wishes>>

\* Mistake: the entry is removed, the original not brought back.
MistakeOnlyRemoves(f) ==
  /\ script.pc = "scan" /\ f \in script.todo
  /\ entry' = IF managed(f) THEN [entry EXCEPT ![f] = None] ELSE entry
  /\ ScriptGoes([script EXCEPT !.todo = @ \ {f}])
  /\ UNCHANGED <<file, backup, spoilt, wishes>>

\* A managed entry makes room for its backup, if there is one.
RemoveEntry(f) ==
  /\ script.pc = "scan" /\ f \in script.todo
  /\ entry' = IF managed(f) THEN [entry EXCEPT ![f] = backup[f]] ELSE entry
  /\ backup' = IF managed(f) THEN [backup EXCEPT ![f] = None] ELSE backup
  /\ ScriptGoes([script EXCEPT !.todo = @ \ {f}])
  /\ UNCHANGED <<file, spoilt, wishes>>

RemoveConfig(keep) ==
  /\ script.pc = "scan" /\ script.todo = {}
  /\ IF keep THEN UNCHANGED <<file, wishes>>
     ELSE /\ state' = "missing" /\ config' = NoConfig
          /\ entered' = Unset /\ chosen' = Unset
  /\ ScriptGoes(NoScript)
  /\ UNCHANGED <<entries, spoilt>>

-----------------------------------------------------------------------------
\* The user gives up, a call fails (set -e), or the script is killed.
StopScript ==
  /\ script.pc # "end" /\ stops < MaxStops
  /\ stops' = stops + 1
  /\ script' = NoScript
  /\ spoilt' = IF script.pc = "entry" THEN spoilt \cup {script.file} ELSE spoilt
  /\ UNCHANGED <<file, installs, cmd, changes, wishes, entries>>

DeskNext ==
  \/ /\ \/ \E k \in Kind : InstallsChange(k)
        \/ \E p \in Cmd : CommandStep(p)
     /\ UNCHANGED <<entries, spoilt>>
  \/ \E k \in Kind, forced, shadow \in BOOLEAN : StartInstall(k, forced, shadow)
  \/ \E c \in Cred : ReplaceConfig(c)
  \/ BackUpEntry \/ TruncateEntry \/ WriteEntry
  \/ StartUninstall
  \/ \E f \in Entry : RemoveEntry(f)
  \/ \E keep \in BOOLEAN : RemoveConfig(keep)
  \/ StopScript

DeskSpec == DeskInit /\ [][DeskNext]_deskvars

-----------------------------------------------------------------------------
(* Entries, scripts and all of InstallChoice keep their types. *)
DeskTypeOK ==
  /\ ChoiceTypeOK
  /\ script \in [pc : {"end", "config", "backup", "truncate", "entry", "scan"},
                 kind : Kind \cup {Unset}, file : Entry, todo : SUBSET Entry]
  /\ entry \in [Entry -> Content] /\ backup \in [Entry -> Content]
  /\ spoilt \subseteq Entry

(***************************************************************************)
(* install-client.sh:251-254, uninstall-client.sh:8-11: whatever was       *)
(* installed in which mode and order, and as often as one likes, an entry  *)
(* that was there before is there or in its backup.  (An entry whose       *)
(* writing was cut short excepted: the next run takes it for an original.) *)
(***************************************************************************)
OriginalKept ==
  \A f \in Originals \ spoilt : Original \in {entry[f], backup[f]}

(***************************************************************************)
(* uninstall-client.sh:1-4: after uninstall has looked at all entries they *)
(* are as they were before the first install.                              *)
(***************************************************************************)
UninstallUndoes ==
  script.pc = "scan" =>
    \A f \in Entry \ (spoilt \cup script.todo) : entry[f] = before[f]

=============================================================================
