---------------------------- MODULE NodeRestart -----------------------------
(***************************************************************************)
(* The backlog of a node across restarts of the process, with              *)
(* binlog_persist set.  nebmodule_deinit saves it (binlog_save: flush to   *)
(* the file, dump the struct to the .meta file, rename the file to .save), *)
(* and node_binlog_read_saved adds the saved events to the new backlog at  *)
(* start-up.  The process may also be killed between any two steps.        *)
(* While it is up the process behaves as in NodeSend.                      *)
(***************************************************************************)
EXTENDS Binlog

CONSTANTS Lens, MaxEvents, Writes,
  MaxRestarts,   \* bound: how many times the process goes down
  MaxKills       \* bound: how many of them without nebmodule_deinit

VARIABLES
  bl, connected, pc, pkt, calls, sent, stats, faults,   \* NodeSend
  phase,      \* up, saving (.meta written), down, restoring or dangling
  meta,       \* the .meta file: <<>> or the struct dumped there
  save,       \* the .save file: <<>> or its contents
  saved,      \* the binlog opened by binlog_get_saved
  downs,      \* how many times the process has gone down
  kills,      \* how many of those were kills
  lost,       \* history: the events binlog_save could not keep, for want of a
              \* path or of room in the file
  late        \* history: memory was flushed behind events already in the file

nodeVars == <<bl, connected, pc, pkt, calls, sent, stats, faults>>
diskVars == <<meta, save>>
vars == <<nodeVars, phase, diskVars, saved, downs, kills, lost, late>>

Send == INSTANCE NodeSend

Init ==
  /\ Send!Init
  /\ phase = "up"
  /\ meta = <<>>
  /\ save = <<>>
  /\ saved = binlog_create
  /\ downs = 0
  /\ kills = 0
  /\ lost = {}
  /\ late = FALSE

Run ==
  /\ phase = "up"
  /\ Send!Next
  /\ UNCHANGED <<phase, diskVars, saved, downs, kills, lost, late>>

\* Memory is gone with the process: what it starts with is what it creates.
ProcessGone ==
  /\ bl' = binlog_create
  /\ saved' = binlog_create
  /\ connected' = FALSE
  /\ pc' = "idle"
  /\ pkt' = NoEvent
  /\ stats' = [logged |-> 0, dropped |-> 0]
  /\ phase' = "down"
  /\ UNCHANGED <<calls, sent, faults>>

-----------------------------------------------------------------------------
(* nebmodule_deinit and binlog_save.                                       *)

\* An empty backlog is not saved, and a backlog without a path for its
\* metadata cannot be.
ShutdownWithoutSave ==
  /\ phase = "up"
  /\ pc = "idle"
  /\ downs < MaxRestarts
  /\ downs' = downs + 1
  /\ binlog_num_entries(bl) = 0 \/ ~bl.save_path
  /\ lost' = lost \cup Contents(bl)
  /\ ProcessGone
  /\ UNCHANGED <<diskVars, kills, late>>

\* Mutant: what is in memory is not flushed.
binlog_write_file_metadata_NoFlush ==
  /\ phase = "up"
  /\ pc = "idle"
  /\ downs < MaxRestarts
  /\ binlog_num_entries(bl) > 0 /\ bl.save_path
  /\ connected' = FALSE
  /\ meta' = <<[bl EXCEPT !.cache = <<>>]>>
  /\ phase' = "saving"
  /\ UNCHANGED <<bl, pc, pkt, calls, sent, stats, faults, save, saved, downs,
                 kills, lost, late>>

\* The flush ignores that the file is full.
binlog_write_file_metadata ==
  /\ phase = "up"
  /\ pc = "idle"
  /\ downs < MaxRestarts
  /\ binlog_num_entries(bl) > 0 /\ bl.save_path
  /\ connected' = FALSE
  /\ bl' = binlog_flush(bl)
  /\ meta' = <<binlog_flush(bl)>>
  /\ phase' = "saving"
  /\ lost' = lost \cup (Contents(bl) \ Contents(binlog_flush(bl)))
  /\ late' = (late \/ (bl.cache # <<>> /\ FileHasUnread(bl)))
  /\ UNCHANGED <<pc, pkt, calls, sent, stats, faults, save, saved, downs, kills>>

RenameToSave ==
  /\ phase = "saving"
  /\ downs' = downs + 1
  /\ save' = <<bl.file>>
  /\ ProcessGone
  /\ UNCHANGED <<meta, kills, lost, late>>

\* The fwrite of the struct was cut short, and nobody looked: the next start
\* cannot read one whole struct and removes both files (binlog_get_saved).
MetadataCutShort ==
  /\ phase = "saving"
  /\ kills < MaxKills
  /\ downs' = downs + 1
  /\ kills' = kills + 1
  /\ meta' = <<>>
  /\ save' = <<>>
  /\ ProcessGone
  /\ UNCHANGED <<lost, late>>

\* Also a save that gives up: when the fopen of the .meta file fails the files
\* are those a kill before it leaves, and when the rename fails those of a kill
\* between the two.
Kill ==
  /\ phase \in {"up", "saving", "restoring"}
  /\ downs < MaxRestarts
  /\ kills < MaxKills
  /\ downs' = downs + 1
  /\ kills' = kills + 1
  /\ ProcessGone
  /\ UNCHANGED <<diskVars, lost, late>>

-----------------------------------------------------------------------------
(* node_binlog_read_saved.                                                 *)

\* The metadata goes in any case.
Start ==
  /\ phase = "down"
  /\ meta' = <<>>
  /\ IF meta # <<>> /\ save # <<>>
     THEN /\ saved' = binlog_get_saved(meta[1], save[1])
          /\ phase' = "restoring"
     ELSE /\ phase' = "up"
          /\ UNCHANGED saved
  /\ UNCHANGED <<nodeVars, save, downs, kills, lost, late>>

\* The result of binlog_add is not looked at.
RestoreEvent ==
  /\ phase = "restoring"
  /\ binlog_read(saved).ret = "ok"
  /\ saved' = binlog_read(saved).bl
  /\ \E w \in Writes :
       LET r == binlog_add(bl, binlog_read(saved).e, w) IN
       /\ bl' = r.bl
       /\ faults' = faults \cup (IF r.ret = "ok" THEN {} ELSE {"write"})
  /\ UNCHANGED <<connected, pc, pkt, calls, sent, stats, phase, diskVars,
                 downs, kills, lost, late>>

\* Not a packet: node->binlog is destroyed, and the pointer to it stays.
RestoreCorrupt ==
  /\ phase = "restoring"
  /\ binlog_read(saved).ret = "garbage"
  /\ phase' = "dangling"
  /\ UNCHANGED <<nodeVars, diskVars, saved, downs, kills, lost, late>>

\* The next use of the binlog ends the process.
UseAfterFree ==
  /\ phase = "dangling"
  /\ ProcessGone
  /\ UNCHANGED <<diskVars, downs, kills, lost, late>>

RestoreDone ==
  /\ phase = "restoring"
  /\ binlog_read(saved).ret \notin {"ok", "garbage"}
  /\ saved' = binlog_create
  /\ save' = <<>>
  /\ phase' = "up"
  /\ UNCHANGED <<nodeVars, meta, downs, kills, lost, late>>

Next ==
  \/ Run
  \/ ShutdownWithoutSave
  \/ binlog_write_file_metadata
  \/ RenameToSave
  \/ MetadataCutShort
  \/ Kill
  \/ Start
  \/ RestoreEvent
  \/ RestoreCorrupt
  \/ UseAfterFree
  \/ RestoreDone

Spec == Init /\ [][Next]_vars

-----------------------------------------------------------------------------

\* The values that saving and restoring give to the fields and the files.
TypeOK ==
  /\ Send!TypeOK
  /\ phase \in {"up", "saving", "down", "restoring", "dangling"}
  /\ meta \in Seq(BinlogType)
  /\ save \in Seq([recs : SUBSET Record, end : Nat])
  /\ saved \in BinlogType
  /\ downs \in 0 .. MaxRestarts
  /\ kills \in 0 .. downs
  /\ lost \subseteq 1 .. calls
  /\ late \in BOOLEAN

\* The stored events, wherever a shutdown or a start has them at the moment.
Stored ==
  Contents(bl)
    \cup (IF phase = "restoring" THEN Contents(saved) ELSE {})
    \cup (IF phase = "down" /\ meta # <<>> /\ save # <<>>
          THEN Contents(binlog_get_saved(meta[1], save[1])) ELSE {})

\* No event went back into the file, no write() failed, no event came to a
\* full file, and every shutdown ran to its end.
Orderly == Send!Without({"file_resend", "write", "full"}) /\ kills = 0

\* An orderly restart loses no event but those binlog_save itself cannot keep:
\* until it is sent every event is in the backlog, in the save file, or on its
\* way from one to the other.  The exceptions are the events of a backlog whose
\* paths a wipe has forgotten, and those that did not fit when the flush wrote
\* the memory to the file; what else the backlog holds is kept even then.  And
\* what was saved is read to its end: the process does not come up with a
\* pointer to a binlog that has been freed (node_binlog_read_saved).
NothingLostByRestart ==
  Orderly =>
    /\ phase # "dangling"
    /\ \A n \in (1 .. calls) \ lost :
         n \in {sent[i] : i \in DOMAIN sent} \/ n \in Stored \/ n = pkt.id

\* The events sent after an orderly restart continue where those before it
\* stopped, unless binlog_save has flushed old events behind newer ones (late); and
\* whatever one kill leaves on disk, no event is sent a second time because of
\* it.  (A second kill can leave new metadata beside an old save file.)
SentInOrderAcrossRestarts ==
  /\ Orderly /\ ~late =>
       /\ \A i, j \in DOMAIN sent : i < j => sent[i] <= sent[j]
       /\ \A i \in DOMAIN sent, n \in Stored : sent[i] <= n
  /\ Send!Without({"resend", "file_resend", "write"}) /\ kills <= 1 =>
       /\ \A i, j \in DOMAIN sent : sent[i] = sent[j] => i = j
       /\ \A i \in DOMAIN sent : sent[i] \notin Stored
=============================================================================
