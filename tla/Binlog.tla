------------------------------- MODULE Binlog -------------------------------
(***************************************************************************)
(* The per-node backlog of shared/binlog.c: events that could not be sent  *)
(* are kept in an in-memory array until max_mem_size is used up and then   *)
(* in a file, and are read back when the node can be reached again.        *)
(*                                                                         *)
(* A binlog is a record with the fields of struct binlog that decide       *)
(* anything, and the contents of the file at its path.  Every public       *)
(* function is an operator from the binlog before the call to the binlog   *)
(* after it, with the return value.  Event payloads are abstracted to an   *)
(* identity and a length.                                                  *)
(*                                                                         *)
(* cache is the part of the array from read_index up to write_index, so    *)
(* write_index is read_index + Len(cache).  The file is what the byte      *)
(* offsets in the struct select from it: recs holds every record with the  *)
(* offset (at) of its length prefix, and end is the size on disk.  Reading *)
(* at any other offset yields garbage.                                     *)
(***************************************************************************)
EXTENDS Integers, Sequences

CONSTANTS
  MaxMem,      \* max_mem_size
  MaxFile,     \* max_file_size
  Prefix,      \* sizeof(len), the length prefix of a record in the file
  EntrySize    \* sizeof(struct binlog_entry), charged to mem_size per event

ASSUME LimitsAreSizes ==
  /\ MaxMem \in Nat
  /\ MaxFile \in Nat
  /\ Prefix \in Nat \ {0}
  /\ EntrySize \in Nat

Event == [id: Nat, len: Nat \ {0}]

NoEvent == [id |-> 0, len |-> 0]

Record == [at: Nat, id: Nat, len: Nat \ {0}]

EmptyFile == [recs |-> {}, end |-> 0]

\* What write() may do to the length prefix and to the data of one record.
WriteOutcomes == {"ok", "prefix_fails", "data_fails"}

\* binlog_create with BINLOG_UNLINK, which removes the file at the path.
binlog_create ==
  [ cache          |-> <<>>,  alloc         |-> FALSE,
    read_index     |-> 0,     mem_size      |-> 0,
    file_size      |-> 0,     file_entries  |-> 0,
    file_read_pos  |-> 0,     file_write_pos |-> 0,
    fd             |-> FALSE, is_valid      |-> TRUE,
    save_path      |-> TRUE,  file          |-> EmptyFile ]

-----------------------------------------------------------------------------
(* Helpers on the two halves of the queue.                                 *)

FileHasUnread(bl) == bl.file_read_pos < bl.file_size

\* Mutant: the file is left out of the count.
binlog_num_entries_MemoryOnly(bl) == Len(bl.cache)

\* Unsigned in the code: a number below zero stands for one that has wrapped.
binlog_num_entries(bl) ==
  (IF FileHasUnread(bl) THEN bl.file_entries ELSE 0)
    + Len(bl.cache)

binlog_close(bl) == [bl EXCEPT !.fd = FALSE]

binlog_invalidate(bl) ==
  [bl EXCEPT !.fd = FALSE, !.is_valid = FALSE, !.file = EmptyFile]

\* O_APPEND | O_CREAT on a valid binlog, O_TRUNC on an invalid one.
binlog_open(bl) ==
  IF bl.fd THEN bl
  ELSE IF bl.is_valid THEN [bl EXCEPT !.fd = TRUE]
  ELSE [bl EXCEPT !.fd = TRUE, !.file = EmptyFile, !.file_read_pos = 0,
                  !.file_write_pos = 0, !.file_size = 0]

-----------------------------------------------------------------------------
(* Adding.  Each operator returns [bl, ret]; ret = "ok" is the C value 0.  *)

binlog_mem_add(bl, e) ==
  [ ret |-> "ok",
    bl  |-> [bl EXCEPT !.cache = Append(bl.cache, e),
                       !.alloc = TRUE,
                       !.mem_size = bl.mem_size + e.len + EntrySize] ]

\* The record goes to the end of the file whatever file_size says.
AppendRecord(file, e) ==
  [ recs |-> file.recs \cup {[at |-> file.end, id |-> e.id, len |-> e.len]},
    end  |-> file.end + Prefix + e.len ]

\* Mutant: the size without the prefix.
binlog_file_add_NoPrefix(bl, e, w) ==
  IF bl.file_size + e.len > MaxFile THEN [ret |-> "enospc", bl |-> bl]
  ELSE [ ret |-> "ok",
         bl  |-> [binlog_open(bl) EXCEPT
                    !.file = AppendRecord(bl.file, e),
                    !.file_write_pos = bl.file.end + Prefix + e.len,
                    !.file_size = bl.file_size + e.len,
                    !.file_entries = bl.file_entries + 1] ]

binlog_file_add(bl, e, w) ==
  LET o == binlog_open(bl) IN
  IF bl.file_size + e.len > MaxFile THEN [ret |-> "enospc", bl |-> bl]
  ELSE IF w = "prefix_fails" THEN [ret |-> "error", bl |-> o]
  ELSE IF w = "data_fails"
  THEN [ ret |-> "error",
         bl  |-> [o EXCEPT !.file.end = o.file.end + Prefix,
                           !.file_write_pos = o.file.end + Prefix,
                           !.file_size = o.file_size + e.len + Prefix,
                           !.file_entries = o.file_entries + 1] ]
  ELSE [ ret |-> "ok",
         bl  |-> [o EXCEPT !.file = AppendRecord(o.file, e),
                           !.file_write_pos = o.file.end + Prefix + e.len,
                           !.file_size = o.file_size + e.len + Prefix,
                           !.file_entries = o.file_entries + 1] ]

\* Mutant: the memory is used while the file is open.
FitsInMemory_IgnoresFile(bl, e) == bl.mem_size + e.len < MaxMem

FitsInMemory(bl, e) == ~bl.fd /\ bl.mem_size + e.len < MaxMem

binlog_add(bl, e, w) ==
  IF ~bl.is_valid THEN [ret |-> "einvalid", bl |-> bl]
  ELSE IF FitsInMemory(bl, e) THEN binlog_mem_add(bl, e)
  ELSE binlog_file_add(bl, e, w)

-----------------------------------------------------------------------------
(* Reading.  [bl, ret, e]; "garbage" is a successful return whose buffer   *)
(* is not a record that was ever written.                                  *)

\* The indices restart at 0 once the last event has been taken.
binlog_mem_read(bl) ==
  [ ret |-> "ok",
    e   |-> Head(bl.cache),
    bl  |-> [bl EXCEPT
               !.cache = Tail(bl.cache),
               !.read_index = IF Len(bl.cache) = 1 THEN 0
                              ELSE bl.read_index + 1] ]

\* A file that has been read to its end is closed and removed.
FileDrained(bl) ==
  [bl EXCEPT !.fd = FALSE, !.file = EmptyFile, !.file_read_pos = 0,
             !.file_write_pos = 0, !.file_size = 0, !.file_entries = 0]

\* Mutant: the entry count stays.
binlog_file_read_KeepsCount(bl) ==
  LET here == {r \in bl.file.recs : r.at = bl.file_read_pos}
      r    == CHOOSE x \in here : TRUE
  IN
  IF ~FileHasUnread(bl) \/ here = {}
  THEN [ret |-> "empty", e |-> NoEvent, bl |-> FileDrained(bl)]
  ELSE [ ret |-> "ok", e |-> [id |-> r.id, len |-> r.len],
         bl  |-> [bl EXCEPT !.file_read_pos = r.at + Prefix + r.len] ]

binlog_file_read(bl) ==
  LET here == {r \in bl.file.recs : r.at = bl.file_read_pos}
      r    == CHOOSE x \in here : TRUE
  IN
  IF ~FileHasUnread(bl)
  THEN [ret |-> "empty", e |-> NoEvent, bl |-> FileDrained(bl)]
  ELSE IF ~bl.fd
  THEN [ret |-> "error", e |-> NoEvent, bl |-> bl]
  ELSE IF here = {}
  THEN [ ret |-> "garbage", e |-> NoEvent,
         bl  |-> [bl EXCEPT !.file_read_pos = bl.file.end,
                            !.file_entries = bl.file_entries - 1] ]
  ELSE [ ret |-> "ok", e |-> [id |-> r.id, len |-> r.len],
         bl  |-> [bl EXCEPT !.file_read_pos = r.at + Prefix + r.len,
                            !.file_entries = bl.file_entries - 1] ]

\* Mutant: the file is read before the memory.
binlog_read_FileFirst(bl) ==
  IF ~bl.is_valid THEN [ret |-> "einvalid", e |-> NoEvent, bl |-> bl]
  ELSE IF FileHasUnread(bl) \/ bl.cache = <<>> THEN binlog_file_read(bl)
  ELSE binlog_mem_read(bl)

binlog_read(bl) ==
  IF ~bl.is_valid THEN [ret |-> "einvalid", e |-> NoEvent, bl |-> bl]
  ELSE IF bl.cache # <<>> THEN binlog_mem_read(bl)
  ELSE binlog_file_read(bl)

-----------------------------------------------------------------------------
(* Putting an event back.                                                  *)

binlog_file_unread(bl, e) ==
  [bl EXCEPT !.file_read_pos = bl.file_read_pos - e.len,
             !.file_entries = bl.file_entries + 1]

binlog_mem_unread(bl, e) ==
  IF ~bl.alloc \/ ~bl.is_valid \/ (bl.read_index = 0 /\ Len(bl.cache) = 1)
  THEN [ret |-> "edropped", bl |-> bl]
  ELSE IF bl.read_index = 0
  THEN [ret |-> "ok", bl |-> [bl EXCEPT !.cache = <<e>>]]
  ELSE [ret |-> "ok", bl |-> [bl EXCEPT !.cache = <<e>> \o bl.cache,
                                        !.read_index = bl.read_index - 1]]

binlog_unread(bl, e, w) ==
  IF binlog_num_entries(bl) = 0 THEN binlog_add(bl, e, w)
  ELSE binlog_mem_unread(IF bl.file_read_pos >= e.len
                         THEN binlog_file_unread(bl, e) ELSE bl, e)

-----------------------------------------------------------------------------
(* Flushing, wiping, saving and restoring.                                 *)

\* Mutant: the last event is written first.
binlog_flush_Reversed(bl) ==
  LET last == Len(bl.cache)
      after[n \in 0 .. last] ==
        IF n = 0 THEN bl
        ELSE binlog_file_add(after[n - 1], bl.cache[last + 1 - n], "ok").bl
  IN  [after[last] EXCEPT !.cache = <<>>, !.alloc = FALSE,
                          !.mem_size = 0, !.read_index = 0]

\* The flush loop writes the events to the file and ignores the results;
\* after[n] is the binlog after n rounds.
binlog_flush(bl) ==
  LET after[n \in 0 .. Len(bl.cache)] ==
        IF n = 0 THEN bl
        ELSE binlog_file_add(after[n - 1], bl.cache[n], "ok").bl
  IN  [after[Len(bl.cache)] EXCEPT !.cache = <<>>, !.alloc = FALSE,
                                   !.mem_size = 0, !.read_index = 0]

\* Everything but the limits and the path is zeroed, so the paths of the
\* metadata and save files are gone as well.  With BINLOG_UNLINK the file is
\* removed only when it has been read to its end.
binlog_wipe(bl, unlink) ==
  LET f == IF unlink THEN bl ELSE binlog_flush(bl) IN
  [binlog_create EXCEPT
     !.save_path = FALSE,
     !.file = IF ~unlink \/ f.file_read_pos = f.file_write_pos
              THEN EmptyFile ELSE f.file]

\* The struct as it was dumped, with the save file in place of the binlog
\* file and the descriptor opened anew.
binlog_get_saved(meta, savefile) ==
  binlog_open([binlog_close(meta) EXCEPT !.file = savefile])

-----------------------------------------------------------------------------
(* The queue a binlog stands for.                                          *)

\* The records that reading can still reach.
Unread(bl) ==
  {r \in bl.file.recs : bl.file_read_pos <= r.at /\ r.at < bl.file_size}

\* The identities of the events the binlog holds.
Contents(bl) ==
  {bl.cache[i].id : i \in DOMAIN bl.cache} \cup {r.id : r \in Unread(bl)}

\* Events are numbered in the order they are added.  Reading the memory and
\* then the file returns them in that order, each of them once.
Sequential(bl) ==
  /\ \A i, j \in DOMAIN bl.cache : i < j => bl.cache[i].id < bl.cache[j].id
  /\ \A r, s \in Unread(bl) : r.at < s.at => r.id < s.id
  /\ \A i \in DOMAIN bl.cache, r \in Unread(bl) : bl.cache[i].id < r.id

\* The byte counters describe the file: file_size is what is there, every
\* record starts where the one before it ends, and reading is at a start.
FileConsistent(bl) ==
  LET starts == {r.at : r \in bl.file.recs} \cup {bl.file.end} IN
  /\ bl.file_size = bl.file.end
  /\ bl.file_write_pos = bl.file.end
  /\ bl.file_read_pos \in starts
  /\ \A r \in bl.file.recs :
       r.at + Prefix + r.len \in starts /\ r.at + Prefix + r.len <= bl.file.end
  /\ \A r, s \in bl.file.recs :
       r.at < s.at \/ r = s \/ s.at + Prefix + s.len <= r.at
  /\ ~bl.fd => bl.file = EmptyFile

BinlogType ==
  [ cache : Seq(Event), alloc : BOOLEAN, read_index : Nat, mem_size : Nat,
    file_size : Nat, file_entries : Int, file_read_pos : Int,
    file_write_pos : Nat, fd : BOOLEAN, is_valid : BOOLEAN,
    save_path : BOOLEAN, file : [recs : SUBSET Record, end : Nat] ]
=============================================================================
