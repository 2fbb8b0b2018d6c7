------------------------------ MODULE MCParts ------------------------------
(***************************************************************************)
(* The parts of the client that do not depend on each other, checked side  *)
(* by side: in each behaviour one of them moves, and the others stay as    *)
(* they start.                                                             *)
(***************************************************************************)
EXTENDS LogFiles, EditHistory, RamIni, NickList, PostThread, ServerEntries, LuaScript,
        DccChat, MCOwnNick, Waiting, TabComplete

VARIABLE part   \* the part that moves

\* Two channels, and two private windows whose names differ only in what a file name
\* may not have.
MCLogFileOf == [w \in {"#a", "#b", "c:", "c|"} |-> IF w \in {"c:", "c|"} THEN "c_" ELSE w]

\* A word alone, behind others, between < and >, and a channel; the nicks with that
\* beginning have different prefixes.
MCTabTexts == {<<>>, <<"a">>, <<"b", " ", "b", " ", "a">>, <<"<", "a", ">">>, <<"#", "c">>}
MCNickLists == {<<<<"@", <<"a", "b">>>>, <<"+", <<"a">>>>, <<"", <<"a", "c">>>>>>, <<<<"", <<"b">>>>>>, <<>>}
MCChannelTables == {<<<<"#", "c">>, <<"a">>, <<"#", "c", "d">>>>, <<>>}

partsVars == <<part, logVars, editVars, iniVars, nickVars, postVars, entriesVars, scriptVars,
              chatVars, ownVars, waitVars, tabVars>>

PartsInit ==
  /\ part \in {"log", "edit", "ini", "nick", "post", "servers", "channels", "script", "chat", "own", "wait", "tab"}
  /\ LogInit /\ EditInit /\ IniInit /\ NickInit /\ PostInit /\ EntriesInit /\ ScriptInit
  /\ ChatInit /\ OwnNickInit /\ WaitInit /\ TabInit
  /\ ~log_enable \/ part = "log"
  /\ others = {} \/ part = "own"
  /\ lua_script_enable \/ part = "script"
  /\ (tab_hlist = <<>> /\ tab_channels = <<>>) \/ part = "tab"

PartsNext ==
  /\ \/ part = "log" /\ LogNext
        /\ UNCHANGED <<editVars, iniVars, nickVars, postVars, entriesVars, scriptVars, chatVars, ownVars, waitVars, tabVars>>
     \/ part = "edit" /\ EditNext
        /\ UNCHANGED <<logVars, iniVars, nickVars, postVars, entriesVars, scriptVars, chatVars, ownVars, waitVars, tabVars>>
     \/ part = "ini" /\ IniNext
        /\ UNCHANGED <<logVars, editVars, nickVars, postVars, entriesVars, scriptVars, chatVars, ownVars, waitVars, tabVars>>
     \/ part = "nick" /\ NickNext
        /\ UNCHANGED <<logVars, editVars, iniVars, postVars, entriesVars, scriptVars, chatVars, ownVars, waitVars, tabVars>>
     \/ part = "post" /\ PostNext
        /\ UNCHANGED <<logVars, editVars, iniVars, nickVars, entriesVars, scriptVars, chatVars, ownVars, waitVars, tabVars>>
     \/ part = "servers" /\ ServerDialog
        /\ UNCHANGED <<logVars, editVars, iniVars, nickVars, postVars, scriptVars, chatVars, ownVars, waitVars, tabVars>>
     \/ part = "channels" /\ ChannelDialog
        /\ UNCHANGED <<logVars, editVars, iniVars, nickVars, postVars, scriptVars, chatVars, ownVars, waitVars, tabVars>>
     \/ part = "script" /\ ScriptNext
        /\ UNCHANGED <<logVars, editVars, iniVars, nickVars, postVars, entriesVars, chatVars, ownVars, waitVars, tabVars>>
     \/ part = "chat" /\ ChatNext
        /\ UNCHANGED <<logVars, editVars, iniVars, nickVars, postVars, entriesVars, scriptVars, ownVars, waitVars, tabVars>>
     \/ part = "own" /\ OwnNickNext
        /\ UNCHANGED <<logVars, editVars, iniVars, nickVars, postVars, entriesVars, scriptVars, chatVars, waitVars, tabVars>>
     \/ part = "wait" /\ WaitNext
        /\ UNCHANGED <<logVars, editVars, iniVars, nickVars, postVars, entriesVars, scriptVars, chatVars, ownVars, tabVars>>
     \/ part = "tab" /\ TabNext
        /\ UNCHANGED <<logVars, editVars, iniVars, nickVars, postVars, entriesVars, scriptVars, chatVars, ownVars, waitVars>>
  /\ UNCHANGED part

PartsSpec == PartsInit /\ [][PartsNext]_partsVars /\ PostFair

\* The type invariants of the parts.
PartsTypeOK ==
  /\ LogTypeOK /\ EditTypeOK /\ IniTypeOK /\ NickTypeOK
  /\ PostTypeOK /\ EntriesTypeOK /\ ScriptTypeOK
  /\ ChatTypeOK /\ OwnNickTypeOK /\ WaitTypeOK /\ TabTypeOK
=============================================================================
