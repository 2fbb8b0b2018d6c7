----------------------------- MODULE LuaScript -----------------------------
(***************************************************************************)
(* The script of a session (lua_scripting.c, libircclient.c).  The         *)
(* session's thread loads it when the session is created, and again when   *)
(* the directory of the settings reports a change; the user edits the file *)
(* and turns scripts on and off meanwhile.  A version of the file stands   *)
(* for its contents and for the time it was written; 0 is no file.         *)
(* Windows and the Lua library are external.                               *)
(***************************************************************************)
EXTENDS Naturals

CONSTANT MaxVersions   \* bound: times the file is written

ASSUME ScriptAssumption == MaxVersions \in Nat

VARIABLES
  script_file, script_good,   \* the version of the file, and whether it loads
  lua_script_enable,
  lua_pc,                     \* where lua_script_init is; "none" without a session
  lua_context, lua_ft,        \* the version loaded, and the time noted
  notify, recorded,           \* the notification, and changes since it was signalled
  missed                      \* history: a change the session could not see

scriptFile == <<script_file, script_good>>
scriptNotify == <<notify, recorded>>
scriptVars == <<scriptFile, lua_script_enable, lua_pc, lua_context, lua_ft, scriptNotify, missed>>

ScriptInit ==
  /\ script_file = 0 /\ script_good = FALSE
  /\ lua_script_enable \in BOOLEAN
  /\ lua_pc = "none" /\ lua_context = 0 /\ lua_ft = 0
  /\ notify = "none" /\ recorded = FALSE /\ missed = FALSE

-----------------------------------------------------------------------------
\* A change in the directory signals the notification that waits for it; Windows
\* keeps in mind the changes after that.
Reported ==
  /\ notify' = IF notify = "armed" THEN "signalled" ELSE notify
  /\ recorded' = (recorded \/ notify = "signalled")

\* The user saves the script. Between loading it and noting its time, or when the
\* directory is not watched, the session does not see it.
WriteScript(good) ==
  /\ script_file < MaxVersions
  /\ script_file' = script_file + 1 /\ script_good' = good
  /\ Reported
  /\ missed' = (missed \/ lua_pc = "record" \/ notify = "none")
  /\ UNCHANGED <<lua_script_enable, lua_pc, lua_context, lua_ft>>

\* Another file of the directory is written: the settings, a log.
WriteOther ==
  /\ Reported
  /\ UNCHANGED <<scriptFile, lua_script_enable, lua_pc, lua_context, lua_ft, missed>>

\* The settings dialog, which then writes the settings into the directory.
ToggleScripts ==
  /\ lua_script_enable' = ~lua_script_enable
  /\ Reported
  /\ missed' = (missed \/ notify = "none")
  /\ UNCHANGED <<scriptFile, lua_pc, lua_context, lua_ft>>

-----------------------------------------------------------------------------
\* irc_create_session
CreateSession ==
  /\ lua_pc = "none" /\ lua_pc' = "check"
  /\ missed' = FALSE
  /\ UNCHANGED <<scriptFile, lua_script_enable, lua_context, lua_ft, scriptNotify>>

\* irc_run looks at the notification between two waits for the sockets.
SeeChange ==
  /\ lua_pc = "idle" /\ notify = "signalled" /\ lua_pc' = "check"
  /\ UNCHANGED <<scriptFile, lua_script_enable, lua_context, lua_ft, scriptNotify, missed>>

\* Mutant: a script is loaded if there is none, but not again.
CheckOnce ==
  /\ lua_pc = "check"
  /\ lua_pc' = IF lua_script_enable /\ lua_context = 0 THEN "load" ELSE "rearm"
  /\ UNCHANGED <<scriptFile, lua_script_enable, lua_context, lua_ft, scriptNotify, missed>>

\* lua_script_init, up to luaL_newstate.
CheckScript ==
  /\ lua_pc = "check"
  /\ lua_pc' = IF lua_script_enable /\ (lua_context = 0 \/ script_file # lua_ft) THEN "load" ELSE "rearm"
  /\ UNCHANGED <<scriptFile, lua_script_enable, lua_context, lua_ft, scriptNotify, missed>>

\* luaL_loadfile and lua_pcall: the new interpreter replaces the old one, or is closed.
\* A good script is refused when there is no memory or the file cannot be opened now.
LoadScript ==
  /\ lua_pc = "load"
  /\ \/ script_good /\ lua_pc' = "record" /\ lua_context' = script_file /\ missed' = FALSE
     \/ lua_pc' = "rearm" /\ missed' = (missed \/ script_good) /\ UNCHANGED lua_context
  /\ UNCHANGED <<scriptFile, lua_script_enable, lua_ft, scriptNotify>>

\* The time is read again, from the file as it is now.
RecordTime ==
  /\ lua_pc = "record" /\ lua_pc' = "rearm"
  /\ lua_ft' = script_file
  /\ UNCHANGED <<scriptFile, lua_script_enable, lua_context, scriptNotify, missed>>

\* FindNextChangeNotification, which signals at once what Windows has kept in mind.
NextNotification ==
  /\ lua_pc = "rearm" /\ lua_pc' = "idle"
  /\ notify # "none"
  /\ notify' = IF recorded THEN "signalled" ELSE "armed"
  /\ recorded' = FALSE
  /\ UNCHANGED <<scriptFile, lua_script_enable, lua_context, lua_ft, missed>>

\* It fails, or there was none: FindFirstChangeNotification, which may fail too.
FirstNotification(opens) ==
  /\ lua_pc = "rearm" /\ lua_pc' = "idle"
  /\ notify' = IF opens THEN "armed" ELSE "none"
  /\ recorded' = FALSE
  /\ missed' = (missed \/ recorded)
  /\ UNCHANGED <<scriptFile, lua_script_enable, lua_context, lua_ft>>

\* irc_destroy_session: lua_script_unload. The session is gone with its note of the time.
DestroySession ==
  /\ lua_pc = "idle" /\ lua_pc' = "none"
  /\ lua_context' = 0 /\ lua_ft' = 0
  /\ notify' = "none" /\ recorded' = FALSE
  /\ UNCHANGED <<scriptFile, lua_script_enable, missed>>

ScriptNext ==
  \/ \E good \in BOOLEAN : WriteScript(good)
  \/ WriteOther
  \/ ToggleScripts
  \/ CreateSession
  \/ SeeChange
  \/ CheckScript
  \/ LoadScript
  \/ RecordTime
  \/ NextNotification
  \/ \E opens \in BOOLEAN : FirstNotification(opens)
  \/ DestroySession

ScriptSpec == ScriptInit /\ [][ScriptNext]_scriptVars

-----------------------------------------------------------------------------
\* Versions, the place in lua_script_init and the state of the notification.
ScriptTypeOK ==
  /\ script_file \in 0 .. MaxVersions /\ script_good \in BOOLEAN
  /\ lua_script_enable \in BOOLEAN
  /\ lua_pc \in {"none", "idle", "check", "load", "record", "rearm"}
  /\ lua_context \in 0 .. MaxVersions /\ lua_ft \in 0 .. MaxVersions
  /\ notify \in {"none", "armed", "signalled"} /\ recorded \in BOOLEAN
  /\ missed \in BOOLEAN

\* While a session waits for a change with scripts on, it runs the script that is in
\* the file, whatever was written while it loaded one, and however often a script that
\* does not load came in between or scripts were turned off. What it misses, until
\* the next change, is a script written between loading and noting the time or while
\* the directory is not watched, and a good one that is refused when it is loaded.
ScriptFollowsFile ==
  lua_pc = "idle" /\ notify = "armed" /\ lua_script_enable /\ ~missed /\ script_good =>
    lua_context = script_file
=============================================================================
