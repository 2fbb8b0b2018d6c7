---------------------------- MODULE ServerEntries ----------------------------
(***************************************************************************)
(* The server and channel dialogs (servers.c, slimIRC.c).  A table of      *)
(* entries in the settings holds the names of sections; what was saved     *)
(* under a name is in its section.  Only entries whose section has its     *)
(* data are shown.                                                         *)
(***************************************************************************)
EXTENDS Integers, FiniteSets

CONSTANTS ServerNames,               \* "network|server"
          ChannelNetworks, ChannelNames,
          NoEntry,                   \* the empty string
          MAX_SERVERS, MAX_CHANNELS

ASSUME EntriesAssumption ==
  /\ NoEntry \notin ServerNames \cup ChannelNames \cup (ChannelNetworks \X ChannelNames)
  /\ MAX_SERVERS \in Nat /\ MAX_CHANNELS \in Nat

VARIABLES
  server_entry, server_sections,    \* the table, and the sections there are
  channel_entry, channel_sections,
  entry_clash,                      \* history: an entry was renamed to another one
  deleted_beyond                    \* history: a channel was deleted from beyond MAX_SERVERS

serverTable == <<server_entry, server_sections>>
channelTable == <<channel_entry, channel_sections>>
entriesVars == <<serverTable, channelTable, entry_clash, deleted_beyond>>

EntriesInit ==
  /\ server_entry = [i \in 0 .. MAX_SERVERS - 1 |-> NoEntry]
  /\ channel_entry = [i \in 0 .. MAX_CHANNELS - 1 |-> NoEntry]
  /\ server_sections = {} /\ channel_sections = {}
  /\ entry_clash = FALSE /\ deleted_beyond = FALSE

-----------------------------------------------------------------------------
\* Places in a table that hold a name; the empty string finds the free ones.
PlacesOf(entry, name) == {i \in DOMAIN entry : entry[i] = name}
FirstOf(S) == {i \in S : \A j \in S : i <= j}

\* The rows of the dialog: load_ini_servers and load_ini_channels.
Rows(entry, sections) == {entry[i] : i \in DOMAIN entry} \cap sections

\* Mutant: a free place is preferred to the one that has the name.
FreePlaceFirst(entry, new, old) ==
  FirstOf(IF PlacesOf(entry, NoEntry) # {} THEN PlacesOf(entry, NoEntry)
          ELSE PlacesOf(entry, new) \cup (IF old = NoEntry THEN {} ELSE PlacesOf(entry, old)))

\* Where save_server_entry and save_channel_entry put an entry: the first place that
\* has its new name, or the name it had (none when it is added), or else is free.
PlaceFor(entry, new, old) ==
  LET named == PlacesOf(entry, new) \cup (IF old = NoEntry THEN {} ELSE PlacesOf(entry, old))
  IN FirstOf(IF named # {} THEN named ELSE PlacesOf(entry, NoEntry))

EntryPut(entry, new, old) ==
  [i \in DOMAIN entry |-> IF i \in PlaceFor(entry, new, old) THEN new ELSE entry[i]]

\* Mutant: the section the entry had is deleted last.
SectionsDeletedLast(entry, sections, new, old) ==
  IF PlaceFor(entry, new, old) = {} THEN sections ELSE (sections \cup {new}) \ {old}

\* The section it had is deleted, if it is in the table, and the new one is written,
\* if there is a place.
SectionsPut(entry, sections, new, old) ==
  LET left == IF PlacesOf(entry, old) # {} THEN sections \ {old} ELSE sections
  IN IF PlaceFor(entry, new, old) = {} THEN left ELSE left \cup {new}

Clash(entry, new, old) == old \notin {NoEntry, new} /\ new \in {entry[i] : i \in DOMAIN entry}

SaveServer(new, old) ==
  /\ server_entry' = EntryPut(server_entry, new, old)
  /\ server_sections' = SectionsPut(server_entry, server_sections, new, old)
  /\ entry_clash' = (entry_clash \/ Clash(server_entry, new, old))
  /\ UNCHANGED <<channelTable, deleted_beyond>>

\* The old name of a channel is taken together with the network it gets now.
SaveChannel(network, channel, oldChannel) ==
  LET new == <<network, channel>>
      old == IF oldChannel = NoEntry THEN NoEntry ELSE <<network, oldChannel>>
  IN /\ channel_entry' = EntryPut(channel_entry, new, old)
     /\ channel_sections' = SectionsPut(channel_entry, channel_sections, new, old)
     /\ entry_clash' = (entry_clash \/ Clash(channel_entry, new, old))
     /\ UNCHANGED <<serverTable, deleted_beyond>>

\* The first places below a limit that have the name, one per row selected.
Cleared(entry, name, rows, limit) ==
  LET places == {i \in PlacesOf(entry, name) : i < limit}
  IN [i \in DOMAIN entry |->
        IF i \in places /\ Cardinality({j \in places : j < i}) < rows THEN NoEntry ELSE entry[i]]

\* delete_selected_server, of the rows that show one name.
DeleteServer(name, rows) ==
  /\ rows \in 1 .. Cardinality(PlacesOf(server_entry, name))
  /\ server_sections' = server_sections \ {name}
  /\ server_entry' = Cleared(server_entry, name, rows, MAX_SERVERS)
  /\ UNCHANGED <<channelTable, entry_clash, deleted_beyond>>

\* delete_selected_channel looks at MAX_SERVERS places of the channels' table.
DeleteChannel(name, rows) ==
  /\ rows \in 1 .. Cardinality(PlacesOf(channel_entry, name))
  /\ channel_sections' = channel_sections \ {name}
  /\ channel_entry' = Cleared(channel_entry, name, rows, MAX_SERVERS)
  /\ deleted_beyond' = (deleted_beyond \/ \E i \in PlacesOf(channel_entry, name) : i >= MAX_SERVERS)
  /\ UNCHANGED <<serverTable, entry_clash>>

ServerDialog ==
  \/ \E new \in ServerNames, old \in Rows(server_entry, server_sections) \cup {NoEntry} : SaveServer(new, old)
  \/ \E name \in Rows(server_entry, server_sections), rows \in 1 .. MAX_SERVERS : DeleteServer(name, rows)

ChannelDialog ==
  \/ \E network \in ChannelNetworks, channel \in ChannelNames,
        old \in {name[2] : name \in Rows(channel_entry, channel_sections)} \cup {NoEntry} :
          SaveChannel(network, channel, old)
  \/ \E name \in Rows(channel_entry, channel_sections), rows \in 1 .. MAX_CHANNELS : DeleteChannel(name, rows)

EntriesSpec == EntriesInit /\ [][ServerDialog \/ ChannelDialog]_entriesVars

-----------------------------------------------------------------------------
\* Tables hold names, and sections are named.
EntriesTypeOK ==
  /\ server_entry \in [0 .. MAX_SERVERS - 1 -> ServerNames \cup {NoEntry}]
  /\ channel_entry \in [0 .. MAX_CHANNELS - 1 -> (ChannelNetworks \X ChannelNames) \cup {NoEntry}]
  /\ server_sections \subseteq ServerNames
  /\ channel_sections \subseteq ChannelNetworks \X ChannelNames
  /\ entry_clash \in BOOLEAN /\ deleted_beyond \in BOOLEAN

Tidy(entry, sections) ==
  /\ {entry[i] : i \in DOMAIN entry} \subseteq sections \cup {NoEntry}
  /\ \A i, j \in DOMAIN entry : entry[i] = entry[j] /\ entry[i] # NoEntry => i = j

\* The tables and the sections fit together: each entry has its section and no other
\* entry has the same, so a server is connected to once at startup and no place is lost to
\* an entry that no row shows. It takes renaming an entry to one that is there, or
\* deleting a channel at place 30 or later, to break this.
EntriesInUse ==
  ~entry_clash => /\ Tidy(server_entry, server_sections)
                  /\ deleted_beyond \/ Tidy(channel_entry, channel_sections)

ServerRows == Rows(server_entry, server_sections)
ChannelRows == Rows(channel_entry, channel_sections)

\* Whatever the tables have come to, with entries twice or left without a section,
\* saving shows what was saved and hides nothing but its old name, a full table
\* changes nothing, and deleting hides that name only. No section is left that no
\* row shows.
RowsAreKept ==
  [][/\ serverTable' # serverTable =>
          /\ \A new \in ServerNames, old \in ServerRows \cup {NoEntry} :
               SaveServer(new, old) =>
                 /\ PlaceFor(server_entry, new, old) # {}
                 /\ ServerRows' = (ServerRows \ {old}) \cup {new}
          /\ \A name \in ServerRows, rows \in 1 .. MAX_SERVERS :
               DeleteServer(name, rows) => ServerRows' = ServerRows \ {name}
     /\ channelTable' # channelTable =>
          /\ \A network \in ChannelNetworks, channel \in ChannelNames, old \in ChannelNames \cup {NoEntry} :
               SaveChannel(network, channel, old) =>
                 ChannelRows' = (ChannelRows \ {<<network, old>>}) \cup {<<network, channel>>}
          /\ \A name \in ChannelRows, rows \in 1 .. MAX_CHANNELS :
               DeleteChannel(name, rows) => ChannelRows' = ChannelRows \ {name}
     /\ server_sections' = ServerRows' /\ channel_sections' = ChannelRows']_entriesVars
=============================================================================
