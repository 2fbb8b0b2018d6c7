--------------------------- MODULE MCParts_proofs ---------------------------
(***************************************************************************)
(* Side by side, each part of the client behaves as it does alone, so that *)
(* what is proved of the parts holds of the specification the parts are    *)
(* checked with.                                                           *)
(***************************************************************************)
EXTENDS MCParts, Parts_proofs, Settings_proofs, NickList_proofs, OwnNick_proofs

\* A step of the parts is, for each part, a step of its own or none.
LEMMA OnePartMoves ==
  ASSUME [PartsNext]_partsVars
  PROVE  /\ [LogNext]_logVars
         /\ [EditNext]_editVars
         /\ [IniNext]_iniVars
         /\ [NickNext]_nickVars
         /\ [PostNext]_postVars
         /\ [ServerDialog \/ ChannelDialog]_entriesVars
         /\ [ScriptNext]_scriptVars
         /\ [ChatNext]_chatVars
         /\ [OwnNickNext]_ownVars
         /\ [WaitNext]_waitVars
         /\ [TabNext]_tabVars
<1>1. [LogNext]_logVars
  BY DEF PartsNext, partsVars
<1>2. [EditNext]_editVars
  BY DEF PartsNext, partsVars
<1>3. [IniNext]_iniVars
  BY DEF PartsNext, partsVars
<1>4. [NickNext]_nickVars
  BY DEF PartsNext, partsVars
<1>5. [PostNext]_postVars
  BY DEF PartsNext, partsVars
<1>6. [ServerDialog \/ ChannelDialog]_entriesVars
  BY DEF PartsNext, partsVars
<1>7. [ScriptNext]_scriptVars
  BY DEF PartsNext, partsVars
<1>8. [ChatNext]_chatVars
  BY DEF PartsNext, partsVars
<1>9. [OwnNickNext]_ownVars
  BY DEF PartsNext, partsVars
<1>10. [WaitNext]_waitVars
  BY DEF PartsNext, partsVars
<1>11. [TabNext]_tabVars
  BY DEF PartsNext, partsVars
<1> QED
  BY <1>1, <1>2, <1>3, <1>4, <1>5, <1>6, <1>7, <1>8, <1>9, <1>10, <1>11

\* All the parts start as they do alone.
LEMMA PartsBegin ==
  PartsInit => /\ LogInit
               /\ EditInit
               /\ IniInit
               /\ NickInit
               /\ PostInit
               /\ EntriesInit
               /\ ScriptInit
               /\ ChatInit
               /\ OwnNickInit
               /\ WaitInit
               /\ TabInit
BY DEF PartsInit

\* Each part, whatever moves, keeps to its own specification.
THEOREM PartsAlone ==
  PartsSpec => /\ LogSpec
               /\ EditSpec
               /\ IniSpec
               /\ NickSpec
               /\ PostSpec
               /\ EntriesSpec
               /\ ScriptSpec
               /\ ChatSpec
               /\ OwnNickSpec
               /\ WaitSpec
               /\ TabSpec
<1>1. PartsSpec => LogSpec
  BY PartsBegin, OnePartMoves, PTL DEF PartsSpec, LogSpec
<1>2. PartsSpec => EditSpec
  BY PartsBegin, OnePartMoves, PTL DEF PartsSpec, EditSpec
<1>3. PartsSpec => IniSpec
  BY PartsBegin, OnePartMoves, PTL DEF PartsSpec, IniSpec
<1>4. PartsSpec => NickSpec
  BY PartsBegin, OnePartMoves, PTL DEF PartsSpec, NickSpec
<1>5. PartsSpec => PostSpec
  BY PartsBegin, OnePartMoves, PTL DEF PartsSpec, PostSpec
<1>6. PartsSpec => EntriesSpec
  BY PartsBegin, OnePartMoves, PTL DEF PartsSpec, EntriesSpec
<1>7. PartsSpec => ScriptSpec
  BY PartsBegin, OnePartMoves, PTL DEF PartsSpec, ScriptSpec
<1>8. PartsSpec => ChatSpec
  BY PartsBegin, OnePartMoves, PTL DEF PartsSpec, ChatSpec
<1>9. PartsSpec => OwnNickSpec
  BY PartsBegin, OnePartMoves, PTL DEF PartsSpec, OwnNickSpec
<1>10. PartsSpec => WaitSpec
  BY PartsBegin, OnePartMoves, PTL DEF PartsSpec, WaitSpec
<1>11. PartsSpec => TabSpec
  BY PartsBegin, OnePartMoves, PTL DEF PartsSpec, TabSpec
<1> QED
  BY <1>1, <1>2, <1>3, <1>4, <1>5, <1>6, <1>7, <1>8, <1>9, <1>10, <1>11

\* The variables of all parts have their types, whichever part moves.
THEOREM PartsTypes == PartsSpec => []PartsTypeOK
<1>1. PartsTypeOK <=> /\ LogTypeOK /\ EditTypeOK /\ IniTypeOK /\ NickTypeOK
                      /\ PostTypeOK /\ EntriesTypeOK /\ ScriptTypeOK
                      /\ ChatTypeOK /\ OwnNickTypeOK /\ WaitTypeOK /\ TabTypeOK
  BY DEF PartsTypeOK
<1> QED
  BY <1>1, PartsAlone, LogTypes, EditTypes, IniTypes, NickTypes, PostTypes, EntriesTypes,
     ScriptTypes, ChatFits, OwnNickTypes, WaitTypes, TabTypes, PTL

\* What is said of each part alone holds of the parts side by side: of the logs, the
\* lists, the postings, the entries, the scripts, the chats, the nicks and the threads
\* that wait; and, when names have neither blank nor >, of the completion of words.
THEOREM PartsSafe ==
  PartsSpec => /\ [](OneHandlePerFile /\ OffClosesFiles) /\ LinesReachDisk
               /\ HistoryIsRecent /\ IniIsMap
               /\ []ListShowsChannel
               /\ [](EveryLineOnce /\ StopEndsPosting)
               /\ []EntriesInUse /\ RowsAreKept
               /\ []ScriptFollowsFile
               /\ []ChatLinesInOrder
               /\ []WindowsKnowNick /\ MessagesFindWindow
               /\ []NoDeadlock
               /\ (PlainNames => []TabOffersEach)
BY PartsAlone, HandlesAreOne, FilesClosed, LinesFlushed, HistoryKept, IniMap, ListRight,
   LinesOnce, StopEnds, EntriesTidy, RowsKept, ScriptCurrent, ChatInOrder, NickKnown,
   MessagesShown, NobodyStuck, TabOffers, PTL
=============================================================================
