---------------------------- MODULE BinlogProofs ----------------------------
(***************************************************************************)
(* Proofs about the backlog, for limits, event lengths and numbers of      *)
(* events of any size.  First lemmas about the functions of                *)
(* shared/binlog.c: each keeps a binlog well formed, and what it does to   *)
(* Contents.  Then what node_send_event promises in NodeSend, with any     *)
(* outcomes of writes, and what BinlogQueue states.                        *)
(*                                                                         *)
(* The numbers of the events are d apart: with d = 1 they grow, and with   *)
(* d = 0 an event may be there twice, as it is after node_send_binlog has  *)
(* failed to send a stored event.  BinlogQueue takes d = 1, and relates    *)
(* the backlog to the events added so far and to the one the caller holds. *)
(* NodeSend needs both: d = 1 until a send of a stored event fails, d = 0  *)
(* from then on.                                                           *)
(***************************************************************************)
EXTENDS BinlogQueue, NodeSend, FiniteSetTheorems, TLAPS

Ordered(b, d) ==
  /\ \A i, j \in DOMAIN b.cache : i < j => b.cache[i].id + d <= b.cache[j].id
  /\ \A r, s \in Unread(b) : r.at < s.at => r.id + d <= s.id
  /\ \A i \in DOMAIN b.cache, r \in Unread(b) : b.cache[i].id + d <= r.id

WellFormed(b, d) ==
  /\ b \in BinlogType
  /\ b.is_valid
  /\ Ordered(b, d)
  /\ FileConsistent(b)
  /\ IsFiniteSet(b.file.recs)
  /\ b.file_entries = Cardinality(Unread(b))
  /\ b.cache # <<>> => b.file_read_pos = 0

\* What may be in the binlog beside the event e that is about to be added.
OlderThan(b, e, d) == \A n \in Contents(b) : n + d <= e.id

\* The identities in the memory half.
CacheIds(b) == {b.cache[i].id : i \in DOMAIN b.cache}

FileIds(b) == {r.id : r \in Unread(b)}

\* The entries that the memory and the file count.
Entries(b) == Len(b.cache) + b.file_entries

\* What adding the event e to b, or putting it back, comes to: it is held, or
\* it is refused and nothing changes, or a write() to the file has failed.
Holds(b, e, r, d) ==
  \/ r.ret = "ok" /\ WellFormed(r.bl, d) /\ Contents(r.bl) = Contents(b) \cup {e.id}
  \/ r.ret \in {"enospc", "edropped"} /\ r.bl = b
  \/ r.ret = "error"

\* What a read returns: the oldest event, or nothing from an empty binlog.
\* An event that is older than a file nothing has been read from came from
\* the memory, where binlog_mem_unread finds a free slot in front.
ReadsOldest(b, c, e, d) ==
  \/ e = NoEvent /\ Contents(b) = {} /\ Contents(c) = {}
  \/ /\ e \in Event
     /\ Contents(b) = Contents(c) \cup {e.id}
     /\ \A n \in Contents(c) : e.id + d <= n
     /\ c.file_read_pos = 0 => (c.read_index >= 1 \/ c.cache = <<>>)

\* An event that can be put back has a free slot in front of the memory, or
\* finds the memory empty.
HeldFitsBack ==
  (held # NoEvent /\ log.file_read_pos = 0) => (log.read_index >= 1 \/ log.cache = <<>>)

HeldWasAdded == held # NoEvent => held.id \in 1 .. added

QueueInv ==
  /\ QueueTypeOK
  /\ WellFormed(log, 1)
  /\ Bounds
  /\ HeldFitsBack
  /\ HeldWasAdded

-----------------------------------------------------------------------------
(* The functions of binlog.c                                               *)

\* A memory half without entries, and one with a single entry.
LEMMA EmptyCache == \A s \in Seq(Event) : Len(s) = 0 <=> s = <<>>
OBVIOUS

LEMMA OneEntry == \A e \in Event : <<e>> \o <<>> = <<e>>
OBVIOUS

LEMMA RangeInt == \A n : 1 .. n \subseteq Int
OBVIOUS

LEMMA StartsBefore == \A at, len, end \in Nat : at + Prefix + len <= end => at < end
BY LimitsAreSizes

\* Contents is made of the identities in memory and in the file.
LEMMA ContentsSplit == ASSUME NEW b PROVE Contents(b) = CacheIds(b) \cup FileIds(b)
BY DEF Contents, CacheIds, FileIds

\* Unread depends on the file and the two offsets only, so an operation on
\* the memory leaves the file half of WellFormed alone.
LEMMA SameFile ==
  ASSUME NEW b, NEW c,
         c.file = b.file, c.file_read_pos = b.file_read_pos,
         c.file_size = b.file_size
  PROVE  Unread(c) = Unread(b)
BY DEF Unread

\* binlog_mem_add appends the newest event and touches no file.
LEMMA MemAdd ==
  ASSUME NEW d \in Nat, NEW b, WellFormed(b, d), NEW e \in Event, OlderThan(b, e, d), ~b.fd
  PROVE  /\ WellFormed(binlog_mem_add(b, e).bl, d)
         /\ Contents(binlog_mem_add(b, e).bl) = Contents(b) \cup {e.id}
<1> DEFINE c == binlog_mem_add(b, e).bl
<1>t. c \in BinlogType
  <2>1. Append(b.cache, e) \in Seq(Event)
    BY DEF WellFormed, BinlogType
  <2>2. b.mem_size + e.len + EntrySize \in Nat
    BY LimitsAreSizes, SMTT(30) DEF WellFormed, BinlogType, Event
  <2> QED BY <2>1, <2>2, Zenon DEF WellFormed, BinlogType, binlog_mem_add
<1>f. /\ c.file = b.file /\ c.file_read_pos = b.file_read_pos
      /\ c.file_size = b.file_size /\ c.file_write_pos = b.file_write_pos
      /\ c.fd = b.fd /\ c.file_entries = b.file_entries /\ c.is_valid = b.is_valid
  BY Zenon DEF WellFormed, BinlogType, binlog_mem_add
<1>u. Unread(c) = Unread(b)
  BY <1>f, SameFile
<1>e. Unread(b) = {} /\ b.file_read_pos = 0
  BY DEF WellFormed, FileConsistent, EmptyFile, Unread
<1>a. c.cache = Append(b.cache, e) /\ b.cache \in Seq(Event)
  BY Zenon DEF WellFormed, BinlogType, binlog_mem_add
<1>i. CacheIds(c) = CacheIds(b) \cup {e.id}
  <2>1. DOMAIN c.cache = DOMAIN b.cache \cup {Len(b.cache) + 1}
    BY <1>a
  <2>2. c.cache[Len(b.cache) + 1] = e /\ \A i \in DOMAIN b.cache : c.cache[i] = b.cache[i]
    BY <1>a
  <2> QED BY <2>1, <2>2 DEF CacheIds
<1>s. Ordered(c, d)
  <2>1. \A i, j \in DOMAIN c.cache : i < j => c.cache[i].id + d <= c.cache[j].id
    <3> SUFFICES ASSUME NEW i \in DOMAIN c.cache, NEW j \in DOMAIN c.cache, i < j
                 PROVE  c.cache[i].id + d <= c.cache[j].id
      OBVIOUS
    <3>1. i \in DOMAIN b.cache /\ c.cache[i] = b.cache[i]
      BY <1>a
    <3>2. CASE j \in DOMAIN b.cache
      BY <3>1, <3>2, <1>a DEF WellFormed, Ordered
    <3>3. CASE j = Len(b.cache) + 1
      BY <3>1, <3>3, <1>a, ContentsSplit DEF OlderThan, CacheIds
    <3> QED BY <3>2, <3>3, <1>a
  <2> QED BY <2>1, <1>u, <1>e DEF Ordered
<1>c. FileConsistent(c)
  BY <1>f DEF WellFormed, FileConsistent
<1> QED BY <1>t, <1>f, <1>u, <1>e, <1>i, <1>s, <1>c, ContentsSplit DEF WellFormed, FileIds

-----------------------------------------------------------------------------
(* The file.                                                               *)

\* Values of the right kind in the fields about the file give a binlog again.
LEMMA FileFieldsTyped ==
  ASSUME NEW b \in BinlogType, NEW f \in [recs : SUBSET Record, end : Nat],
         NEW d \in BOOLEAN, NEW rp \in Int, NEW wp \in Nat, NEW sz \in Nat, NEW k \in Int
  PROVE  [b EXCEPT !.fd = d, !.file = f, !.file_read_pos = rp, !.file_write_pos = wp,
                   !.file_size = sz, !.file_entries = k] \in BinlogType
BY Zenon DEF BinlogType

\* Adding a record at the end of the file makes it the last unread one.
LEMMA FileAdd ==
  ASSUME NEW d \in Nat, NEW b, WellFormed(b, d), NEW e \in Event, OlderThan(b, e, d),
         b.file_size + e.len <= MaxFile
  PROVE  /\ WellFormed(binlog_file_add(b, e, "ok").bl, d)
         /\ Contents(binlog_file_add(b, e, "ok").bl) = Contents(b) \cup {e.id}
<1> DEFINE c == binlog_file_add(b, e, "ok").bl
           n == [at |-> b.file.end, id |-> e.id, len |-> e.len]
           stop == b.file.end + Prefix + e.len
<1>b. /\ b.file.end \in Nat /\ b.file.recs \subseteq Record /\ b.file_size = b.file.end
      /\ b.file_read_pos \in Int /\ b.file_entries \in Int /\ b.cache \in Seq(Event)
      /\ b.file_write_pos = b.file.end /\ MaxFile \in Nat /\ b.is_valid = TRUE
  BY LimitsAreSizes DEF WellFormed, BinlogType, FileConsistent
<1>e. e.len \in Nat \ {0} /\ e.id \in Nat /\ Prefix \in Nat \ {0}
  BY LimitsAreSizes DEF Event
<1> DEFINE o == [b EXCEPT !.fd = TRUE]
<1>o. /\ binlog_open(b) = o /\ o \in BinlogType
      /\ o.file = b.file /\ o.file_size = b.file_size /\ o.file_entries = b.file_entries
      /\ o.cache = b.cache /\ o.file_read_pos = b.file_read_pos /\ o.is_valid = TRUE
      /\ o.fd = TRUE
  BY <1>b, Zenon DEF binlog_open, WellFormed, BinlogType
<1>c. c = [o EXCEPT !.file = AppendRecord(b.file, e), !.file_write_pos = stop,
                    !.file_size = stop, !.file_entries = b.file_entries + 1]
  <2>1. ~(b.file_size + e.len > MaxFile)
    BY <1>b, <1>e
  <2>2. o.file_size + e.len + Prefix = stop
    BY <1>o, <1>b, <1>e
  <2> HIDE DEF o
  <2> QED BY <2>1, <2>2, <1>o, Zenon DEF binlog_file_add
<1>a. AppendRecord(b.file, e) = [recs |-> b.file.recs \cup {n}, end |-> stop]
  BY DEF AppendRecord
<1>y. /\ stop \in Nat /\ n \in Record
      /\ AppendRecord(b.file, e) \in [recs : SUBSET Record, end : Nat]
  BY <1>a, <1>b, <1>e, SMTT(30) DEF Record
<1>m. n.at = b.file.end /\ n.id = e.id /\ n.len = e.len /\ stop = b.file.end + Prefix + e.len
  OBVIOUS
<1> DEFINE f == AppendRecord(b.file, e)
<1> HIDE DEF o, n, stop, c
<1>x. /\ c.file = f /\ c.file_write_pos = stop /\ c.file_size = stop
      /\ c.file_entries = b.file_entries + 1 /\ c.cache = o.cache
      /\ c.file_read_pos = o.file_read_pos /\ c.fd = o.fd /\ c.is_valid = o.is_valid
      /\ c \in BinlogType
  <2>1. b.file_entries + 1 \in Int
    BY <1>b
  <2> HIDE DEF f
  <2> QED BY <1>c, <1>o, <1>y, <2>1, Zenon DEF BinlogType, f
<1>f. /\ c.file.recs = b.file.recs \cup {n} /\ c.file.end = stop
      /\ c.file_write_pos = stop /\ c.file_size = stop
      /\ c.file_entries = b.file_entries + 1 /\ c.fd = TRUE
      /\ c.cache = b.cache /\ c.file_read_pos = b.file_read_pos /\ c.is_valid = TRUE
  BY <1>x, <1>o, <1>a
<1>l. \A r \in b.file.recs : /\ r.at \in Nat /\ r.len \in Nat \ {0}
                             /\ r.at + Prefix + r.len <= b.file.end /\ r.at < b.file.end
  <2> SUFFICES ASSUME NEW r \in b.file.recs
               PROVE  /\ r.at \in Nat /\ r.len \in Nat \ {0}
                      /\ r.at + Prefix + r.len <= b.file.end /\ r.at < b.file.end
    OBVIOUS
  <2>1. r.at \in Nat /\ r.len \in Nat \ {0}
    BY <1>b DEF Record
  <2>2. r.at + Prefix + r.len <= b.file.end
    BY DEF WellFormed, FileConsistent
  <2>3. b.file.end \in Nat
    BY Zenon, <1>b
  <2>4. r.len \in Nat
    BY <2>1
  <2> QED BY Zenon, <2>1, <2>2, <2>3, <2>4, StartsBefore
<1>p. b.file_read_pos <= b.file.end
  <2>1. b.file_read_pos \in {r.at : r \in b.file.recs} \cup {b.file.end}
    BY Zenon DEF WellFormed, FileConsistent
  <2>2. b.file.end \in Nat
    BY Zenon, <1>b
  <2>3. CASE b.file_read_pos = b.file.end
    BY <2>2, <2>3
  <2>4. ASSUME NEW r \in b.file.recs, b.file_read_pos = r.at PROVE b.file_read_pos <= b.file.end
    <3>1. r.at \in Nat /\ r.at < b.file.end
      BY Zenon, <1>l
    <3> QED BY <3>1, <2>2, <2>4
  <2> QED BY Zenon, <2>1, <2>3, <2>4
<1>u. Unread(c) = Unread(b) \cup {n} /\ n \notin Unread(b)
  <2>1. b.file_size = b.file.end /\ b.file_size < c.file_size
    BY <1>f, <1>b, <1>e, <1>m
  <2>2. c.file_read_pos <= n.at /\ n.at < c.file_size /\ ~(n.at < b.file_size)
    BY <2>1, <1>f, <1>b, <1>m, <1>p
  <2>3. \A r \in b.file.recs : r.at < b.file_size /\ r.at < c.file_size
    <3> SUFFICES ASSUME NEW r \in b.file.recs
                 PROVE  r.at < b.file_size /\ r.at < c.file_size
      OBVIOUS
    <3>1. r.at \in Nat /\ r.at < b.file.end
      BY <1>l
    <3>2. b.file_size \in Nat /\ c.file_size \in Nat
      BY <1>b, <1>f, <1>y
    <3> QED BY <3>1, <3>2, <2>1
  <2>4. n \notin Unread(b)
    BY <2>2, Zenon DEF Unread
  <2>5. Unread(b) = {r \in b.file.recs : b.file_read_pos <= r.at}
    BY <2>3, Zenon DEF Unread
  <2>6. Unread(c) = {r \in b.file.recs \cup {n} : b.file_read_pos <= r.at}
    BY <2>2, <2>3, <1>f, Zenon DEF Unread
  <2> QED BY <2>2, <2>4, <2>5, <2>6, <1>f, Zenon
<1>i. Contents(c) = Contents(b) \cup {e.id}
  BY <1>u, <1>f, <1>m DEF Contents
<1>s. Ordered(c, d)
  <2>1. \A r \in Unread(b) : r.id \in Contents(b)
    BY DEF Contents
  <2>2. \A i \in DOMAIN b.cache : b.cache[i].id \in Contents(b)
    BY DEF Contents
  <2>3. \A r \in Unread(b) : r.at < n.at /\ r.id + d <= n.id
    BY <2>1, <1>l, <1>m DEF OlderThan, Unread
  <2>4. \A r, s \in Unread(c) : r.at < s.at => r.id + d <= s.id
    <3>1. /\ n.at \in Nat /\ \A r \in Unread(b) : r.at \in Nat
          /\ \A r, s \in Unread(b) : r.at < s.at => r.id + d <= s.id
      BY <1>l, <1>m, <1>b DEF WellFormed, Ordered, Unread
    <3> QED BY <3>1, <2>3, <1>u
  <2>5. \A i \in DOMAIN c.cache, r \in Unread(c) : c.cache[i].id + d <= r.id
    BY <2>2, <1>u, <1>f, <1>m, SMTT(30) DEF WellFormed, Ordered, OlderThan
  <2> QED BY <2>4, <2>5, <1>f DEF WellFormed, Ordered
<1>g. FileConsistent(c)
  <2>1. c.file.recs = b.file.recs \cup {n} /\ c.file.end = stop
    BY <1>f
  <2>2. c.file_read_pos \in {r.at : r \in c.file.recs} \cup {c.file.end}
    BY <2>1, <1>f, <1>m DEF WellFormed, FileConsistent
  <2>3. \A r \in c.file.recs :
           r.at + Prefix + r.len \in {s.at : s \in c.file.recs} \cup {c.file.end}
    <3>1. n.at + Prefix + n.len = c.file.end /\ n \in c.file.recs /\ n.at = b.file.end
      BY <2>1, <1>m, <1>b, <1>e
    <3>2. \A r \in b.file.recs :
             r.at + Prefix + r.len \in {s.at : s \in b.file.recs} \cup {b.file.end}
      BY DEF WellFormed, FileConsistent
    <3> QED BY <3>1, <3>2, <2>1, Zenon
  <2>5. \A r \in c.file.recs : r.at + Prefix + r.len <= c.file.end
    <3>1. n.at + Prefix + n.len = c.file.end /\ b.file.end <= c.file.end
      BY <2>1, <1>m, <1>b, <1>e, SMTT(30)
    <3>2. ASSUME NEW r \in b.file.recs PROVE r.at + Prefix + r.len <= c.file.end
      <4>1. r.at \in Nat /\ r.len \in Nat /\ r.at + Prefix + r.len <= b.file.end
        BY <1>l
      <4>2. c.file.end \in Nat /\ b.file.end \in Nat /\ Prefix \in Nat
        BY <2>1, <1>b, <1>e, <1>y
      <4>3. b.file.end <= c.file.end
        BY <3>1
      <4> QED BY <4>1, <4>2, <4>3
    <3> QED BY <3>1, <3>2, <2>1, <1>y
  <2>4. \A r, s \in c.file.recs : r.at < s.at \/ r = s \/ s.at + Prefix + s.len <= r.at
    BY <2>1, <1>l, <1>b, <1>m DEF WellFormed, FileConsistent
  <2> QED BY <1>f, <2>1, <2>2, <2>3, <2>4, <2>5 DEF FileConsistent
<1>h. IsFiniteSet(c.file.recs)
  <2>1. IsFiniteSet(b.file.recs)
    BY DEF WellFormed
  <2> QED BY <2>1, <1>f, FS_AddElement
<1>k. c.file_entries = Cardinality(Unread(c))
  <2>1. IsFiniteSet(Unread(b))
    BY FS_Subset DEF WellFormed, Unread
  <2>2. Cardinality(Unread(b) \cup {n}) = Cardinality(Unread(b)) + 1
    BY <2>1, <1>u, FS_AddElement, Zenon
  <2> QED BY <2>2, <1>u, <1>f DEF WellFormed
<1> QED BY <1>x, <1>f, <1>i, <1>s, <1>g, <1>h, <1>k DEF WellFormed, c

\* binlog_add puts the newest event into the memory or the file, or refuses it.
LEMMA Added ==
  ASSUME NEW d \in Nat, NEW b, WellFormed(b, d), NEW e \in Event, OlderThan(b, e, d),
         NEW w
  PROVE  /\ Holds(b, e, binlog_add(b, e, w), d)
         /\ w = "ok" => binlog_add(b, e, w).ret # "error"
<1> DEFINE r == binlog_add(b, e, w)
<1>1. CASE FitsInMemory(b, e)
  <2>1. r = binlog_mem_add(b, e) /\ ~b.fd
    BY <1>1 DEF binlog_add, FitsInMemory, WellFormed
  <2>2. r.ret = "ok"
    BY <2>1 DEF binlog_mem_add
  <2> QED BY <2>1, <2>2, MemAdd DEF Holds
<1>2. CASE ~FitsInMemory(b, e)
  <2>1. r = binlog_file_add(b, e, w)
    BY <1>2 DEF binlog_add, WellFormed
  <2>2. CASE ~(b.file_size + e.len <= MaxFile)
    <3>1. b.file_size + e.len > MaxFile
      BY <2>2, LimitsAreSizes, SMTT(30) DEF WellFormed, BinlogType, Event
    <3>2. r.ret = "enospc" /\ r.bl = b
      BY <3>1, <2>1 DEF binlog_file_add
    <3> QED BY <3>2 DEF Holds
  <2>3. CASE b.file_size + e.len <= MaxFile /\ w \in {"prefix_fails", "data_fails"}
    <3>1. ~(b.file_size + e.len > MaxFile)
      BY <2>3, LimitsAreSizes, SMTT(30) DEF WellFormed, BinlogType, Event
    <3>2. r.ret = "error" /\ w # "ok"
      BY <3>1, <2>1, <2>3 DEF binlog_file_add
    <3> QED BY <3>2 DEF Holds
  <2>4. CASE b.file_size + e.len <= MaxFile /\ w \notin {"prefix_fails", "data_fails"}
    <3>1. ~(b.file_size + e.len > MaxFile)
      BY <2>4, LimitsAreSizes, SMTT(30) DEF WellFormed, BinlogType, Event
    <3>2. r = binlog_file_add(b, e, "ok") /\ r.ret = "ok"
      BY <3>1, <2>1, <2>4 DEF binlog_file_add
    <3> QED BY <3>2, <2>4, FileAdd DEF Holds
  <2> QED BY <2>2, <2>3, <2>4
<1> QED BY <1>1, <1>2

-----------------------------------------------------------------------------
(* Reading.                                                                *)

\* binlog_mem_read takes the head of the memory.
LEMMA MemRead ==
  ASSUME NEW d \in Nat, NEW b, WellFormed(b, d), b.cache # <<>>
  PROVE  /\ WellFormed(binlog_mem_read(b).bl, d)
         /\ ReadsOldest(b, binlog_mem_read(b).bl, binlog_mem_read(b).e, d)
<1> DEFINE c == binlog_mem_read(b).bl
           e == binlog_mem_read(b).e
           ri == IF Len(b.cache) = 1 THEN 0 ELSE b.read_index + 1
<1>b. b \in BinlogType /\ b.cache \in Seq(Event) /\ b.read_index \in Nat
  BY DEF WellFormed, BinlogType
<1>a. /\ e = b.cache[1] /\ e \in Event /\ Len(b.cache) \in Nat \ {0}
      /\ Tail(b.cache) \in Seq(Event) /\ ri \in Nat /\ Len(Tail(b.cache)) = Len(b.cache) - 1
      /\ \A i \in 1 .. Len(b.cache) - 1 : Tail(b.cache)[i] = b.cache[i + 1]
  BY <1>b DEF binlog_mem_read
<1>c. c = [b EXCEPT !.cache = Tail(b.cache), !.read_index = ri]
  BY DEF binlog_mem_read
<1> HIDE DEF c, e, ri
<1>x. /\ c.cache = Tail(b.cache) /\ c.read_index = ri
      /\ c.file = b.file /\ c.file_read_pos = b.file_read_pos
      /\ c.file_size = b.file_size /\ c.file_write_pos = b.file_write_pos
      /\ c.fd = b.fd /\ c.file_entries = b.file_entries /\ c.is_valid = b.is_valid
      /\ c \in BinlogType
  BY <1>a, <1>b, <1>c, Zenon DEF BinlogType
<1>u. Unread(c) = Unread(b)
  BY <1>x, SameFile
<1>i. /\ CacheIds(b) = CacheIds(c) \cup {e.id}
      /\ \A n \in CacheIds(c) : e.id + d <= n
  <2>1. \A i \in DOMAIN b.cache : i # 1 => i - 1 \in DOMAIN c.cache /\ c.cache[i - 1] = b.cache[i]
    BY <1>a, <1>b, <1>x, SMTT(30)
  <2>2. \A i \in DOMAIN c.cache : /\ i + 1 \in DOMAIN b.cache /\ c.cache[i] = b.cache[i + 1]
                                   /\ e.id + d <= c.cache[i].id
    BY <1>a, <1>b, <1>x DEF WellFormed, Ordered
  <2>3. 1 \in DOMAIN b.cache
    BY <1>a, <1>b
  <2> QED BY <2>1, <2>2, <2>3, <1>a DEF CacheIds
<1>j. \A n \in FileIds(b) : e.id + d <= n
  BY <1>a, <1>b DEF FileIds, WellFormed, Ordered
<1>s. Ordered(c, d)
  <2>1. \A i \in DOMAIN c.cache : i + 1 \in DOMAIN b.cache /\ c.cache[i] = b.cache[i + 1]
    BY <1>a, <1>b, <1>x
  <2>2. DOMAIN c.cache \subseteq Int
    BY <1>a, <1>x
  <2> QED BY <2>1, <2>2, <1>u DEF WellFormed, Ordered
<1>g. FileConsistent(c)
  BY <1>x DEF WellFormed, FileConsistent
<1>w. WellFormed(c, d)
  BY <1>x, <1>u, <1>s, <1>g DEF WellFormed
<1>r. c.read_index >= 1 \/ c.cache = <<>>
  <2>1. CASE Len(b.cache) = 1
    <3>1. Tail(b.cache) \in Seq(Event) /\ Len(Tail(b.cache)) = 0
      BY <2>1, <1>a
    <3> QED BY <3>1, <1>x, EmptyCache, Zenon
  <2>2. CASE Len(b.cache) # 1
    BY <2>2, <1>b, <1>x DEF ri
  <2> QED BY <2>1, <2>2
<1>n. Contents(b) = Contents(c) \cup {e.id}
  <2>1. FileIds(c) = FileIds(b)
    BY <1>u DEF FileIds
  <2> QED BY <2>1, <1>i, ContentsSplit
<1>o. \A n \in Contents(c) : e.id + d <= n
  BY <1>i, <1>j, <1>u, ContentsSplit DEF FileIds
<1> QED BY <1>w, <1>a, <1>n, <1>o, <1>r DEF ReadsOldest, c, e

\* The unread records are exactly none when file_read_pos has reached
\* file_size, and reading is at the start of the first of them otherwise.
LEMMA NextRecord ==
  ASSUME NEW d \in Nat, NEW b, WellFormed(b, d)
  PROVE  /\ ~FileHasUnread(b) => Unread(b) = {}
         /\ FileHasUnread(b) =>
              /\ b.fd
              /\ \E r \in Unread(b) : r.at = b.file_read_pos
<1>b. /\ b.file_size = b.file.end /\ b.file_size \in Nat /\ b.file_read_pos \in Int
      /\ b.file.recs \subseteq Record
  BY DEF WellFormed, FileConsistent, BinlogType
<1>1. ~FileHasUnread(b) => Unread(b) = {}
  BY <1>b DEF FileHasUnread, Unread, Record
<1>2. ASSUME FileHasUnread(b) PROVE \E r \in Unread(b) : r.at = b.file_read_pos
  <2>1. b.file_read_pos < b.file.end
    BY <1>2, <1>b DEF FileHasUnread
  <2>2. PICK r \in b.file.recs : r.at = b.file_read_pos
    BY <2>1, <1>b DEF WellFormed, FileConsistent
  <2> QED BY <2>1, <2>2, <1>b DEF Unread
<1>3. ASSUME FileHasUnread(b) PROVE b.fd
  <2>1. b.file.recs # {}
    BY <1>2, <1>3 DEF Unread
  <2> QED BY <2>1 DEF WellFormed, FileConsistent, EmptyFile
<1> QED BY <1>1, <1>2, <1>3

\* Reading a file that has nothing more removes it.
LEMMA Drained ==
  ASSUME NEW d \in Nat, NEW b, WellFormed(b, d), b.cache = <<>>
  PROVE  WellFormed(FileDrained(b), d) /\ Contents(FileDrained(b)) = {}
<1> DEFINE c == FileDrained(b)
<1>b. b \in BinlogType /\ EmptyFile \in [recs : SUBSET Record, end : Nat]
  BY DEF WellFormed, BinlogType, EmptyFile
<1>x. /\ c.file = EmptyFile /\ c.file_read_pos = 0 /\ c.file_write_pos = 0
      /\ c.file_size = 0 /\ c.file_entries = 0 /\ c.cache = <<>>
      /\ c.is_valid = b.is_valid /\ c \in BinlogType
  <2>1. c = [b EXCEPT !.fd = FALSE, !.file = EmptyFile, !.file_read_pos = 0,
                      !.file_write_pos = 0, !.file_size = 0, !.file_entries = 0]
    BY SMTT(30) DEF FileDrained
  <2> HIDE DEF c
  <2>2. c \in BinlogType
    <3>1. FALSE \in BOOLEAN /\ 0 \in Nat /\ 0 \in Int
      OBVIOUS
    <3> QED BY <3>1, <2>1, <1>b, FileFieldsTyped, Zenon
  <2> QED BY <2>1, <2>2, <1>b DEF BinlogType
<1>u. Unread(c) = {} /\ c.file.recs = {} /\ c.file.end = 0
  BY <1>x DEF EmptyFile, Unread
<1> HIDE DEF c
<1>i. Contents(c) = {}
  BY <1>x, <1>u DEF Contents
<1>s. Ordered(c, d) /\ FileConsistent(c)
  BY <1>x, <1>u DEF Ordered, FileConsistent
<1>k. IsFiniteSet(c.file.recs) /\ c.file_entries = Cardinality(Unread(c))
  BY <1>x, <1>u, FS_EmptySet
<1> QED BY <1>x, <1>i, <1>s, <1>k DEF WellFormed, c

\* binlog_file_read takes the first unread record and moves to the next one.
LEMMA FileRead ==
  ASSUME NEW d \in Nat, NEW b, WellFormed(b, d), b.cache = <<>>, FileHasUnread(b)
  PROVE  /\ WellFormed(binlog_file_read(b).bl, d)
         /\ ReadsOldest(b, binlog_file_read(b).bl, binlog_file_read(b).e, d)
<1> DEFINE here == {x \in b.file.recs : x.at = b.file_read_pos}
           r == CHOOSE x \in here : TRUE
           c == binlog_file_read(b).bl
           e == binlog_file_read(b).e
           stop == r.at + Prefix + r.len
<1>1. b.fd /\ \E x \in Unread(b) : x.at = b.file_read_pos
  BY NextRecord
<1>2. r \in here /\ here # {}
  BY <1>1 DEF Unread
<1>3. r \in b.file.recs /\ r.at = b.file_read_pos
  BY <1>2
<1>e. e = [id |-> r.id, len |-> r.len]
  BY <1>1, <1>2 DEF binlog_file_read
<1>c. c = [b EXCEPT !.file_read_pos = stop, !.file_entries = b.file_entries - 1]
  BY <1>1, <1>2 DEF binlog_file_read
<1> HIDE DEF c, e, r, stop
<1>b. /\ b \in BinlogType /\ b.file.recs \subseteq Record /\ b.file_entries \in Int
      /\ b.file_size = b.file.end /\ b.file.end \in Nat /\ Prefix \in Nat \ {0}
      /\ b.file_read_pos \in Int
  BY LimitsAreSizes DEF WellFormed, BinlogType, FileConsistent
<1>r. r.at \in Nat /\ r.len \in Nat \ {0} /\ r.id \in Nat /\ stop = r.at + Prefix + r.len
  BY <1>3, <1>b DEF Record, stop
<1>t. stop \in Nat \ {0} /\ stop > r.at
  BY <1>r, <1>b, SMTT(30)
<1>x. /\ c.file_read_pos = stop /\ c.file_entries = b.file_entries - 1
      /\ c.cache = b.cache /\ c.file = b.file /\ c.file_size = b.file_size
      /\ c.file_write_pos = b.file_write_pos /\ c.fd = b.fd /\ c.is_valid = b.is_valid
      /\ c \in BinlogType
  <2>1. stop \in Int /\ b.file_entries - 1 \in Int
    BY <1>b, <1>t
  <2> QED BY <2>1, <1>b, <1>c, Zenon DEF BinlogType
<1>o. \A s \in b.file.recs : s # r => (s.at < r.at \/ stop <= s.at)
  BY <1>3, <1>r DEF WellFormed, FileConsistent
<1>u. Unread(c) = Unread(b) \ {r} /\ r \in Unread(b)
  <2>1. r \in Unread(b)
    BY <1>1, <1>3, <1>b, <1>r DEF Unread, FileHasUnread
  <2>2. \A s \in b.file.recs : s.at \in Nat
    BY <1>b DEF Record
  <2>3. \A s \in b.file.recs : (stop <= s.at) <=> (r.at <= s.at /\ s # r)
    BY <1>o, <1>r, <1>t, <2>2
  <2> QED BY Zenon, <2>1, <2>3, <1>3, <1>x DEF Unread
<1>d. \A s \in Unread(c) : r.id + d <= s.id
  <2>1. \A s \in Unread(c) : s \in Unread(b) /\ r.at < s.at
    BY <1>x, <1>u, <1>r, <1>t, <1>b, SMTT(30) DEF Unread, Record
  <2> QED BY <2>1, <1>u DEF WellFormed, Ordered
<1>n. Contents(b) = {s.id : s \in Unread(b)} /\ Contents(c) = {s.id : s \in Unread(c)}
  BY <1>x DEF Contents
<1>m. Contents(b) = Contents(c) \cup {e.id} /\ e.id = r.id
  <2>1. e.id = r.id
    BY <1>e
  <2> QED BY <2>1, <1>n, <1>u
<1>s. Ordered(c, d)
  BY Zenon, <1>u, <1>x DEF WellFormed, Ordered
<1>g. FileConsistent(c)
  <2>1. stop \in {s.at : s \in b.file.recs} \cup {b.file.end}
    BY <1>3, <1>r DEF WellFormed, FileConsistent
  <2> QED BY <2>1, <1>x DEF WellFormed, FileConsistent
<1>k. c.file_entries = Cardinality(Unread(c))
  <2>1. IsFiniteSet(Unread(b))
    BY FS_Subset DEF WellFormed, Unread
  <2>2. Cardinality(Unread(b) \ {r}) = Cardinality(Unread(b)) - 1
    BY <2>1, <1>u, FS_RemoveElement, Zenon
  <2> QED BY <2>2, <1>u, <1>x DEF WellFormed
<1>w. WellFormed(c, d)
  BY <1>x, <1>s, <1>g, <1>k DEF WellFormed
<1>v. e \in Event /\ c.file_read_pos # 0 /\ \A m \in Contents(c) : e.id + d <= m
  <2>1. e \in Event
    BY <1>e, <1>r DEF Event
  <2>2. c.file_read_pos # 0
    BY <1>t, <1>x
  <2>3. \A m \in Contents(c) : e.id + d <= m
    BY <1>m, <1>d, <1>n, Zenon
  <2> QED BY <2>1, <2>2, <2>3
<1> QED BY <1>w, <1>m, <1>v DEF ReadsOldest, c, e

\* binlog_read tries the memory first, which holds the older events.  It fails
\* on an empty binlog only.
LEMMA ReadOk ==
  ASSUME NEW d \in Nat, NEW b, WellFormed(b, d)
  PROVE  /\ WellFormed(binlog_read(b).bl, d)
         /\ ReadsOldest(b, binlog_read(b).bl, binlog_read(b).e, d)
         /\ binlog_read(b).ret = (IF binlog_read(b).e = NoEvent THEN "empty" ELSE "ok")
<1>e. NoEvent \notin Event
  BY DEF NoEvent, Event
<1>1. CASE b.cache # <<>>
  <2>1. binlog_read(b) = binlog_mem_read(b)
    BY <1>1 DEF binlog_read, WellFormed
  <2>2. binlog_mem_read(b).ret = "ok" /\ binlog_mem_read(b).e \in Event
    BY <1>1 DEF binlog_mem_read, WellFormed, BinlogType
  <2> QED BY <2>1, <2>2, <1>1, <1>e, MemRead
<1>2. CASE b.cache = <<>>
  <2>1. binlog_read(b) = binlog_file_read(b)
    BY <1>2 DEF binlog_read, WellFormed
  <2>2. CASE FileHasUnread(b)
    <3>1. b.fd /\ \E x \in Unread(b) : x.at = b.file_read_pos
      BY <2>2, NextRecord
    <3>2. binlog_file_read(b).ret = "ok"
      BY <2>2, <3>1 DEF binlog_file_read, Unread
    <3>3. Contents(b) # {}
      BY <3>1 DEF Contents
    <3> QED BY <2>1, <2>2, <1>2, <1>e, <3>2, <3>3, FileRead DEF ReadsOldest
  <2>3. CASE ~FileHasUnread(b)
    <3>1. /\ binlog_file_read(b).bl = FileDrained(b) /\ binlog_file_read(b).e = NoEvent
          /\ binlog_file_read(b).ret = "empty"
      BY <2>3 DEF binlog_file_read
    <3>2. Contents(b) = {}
      BY <2>3, <1>2, NextRecord DEF Contents
    <3> QED BY <3>1, <3>2, <2>1, <1>2, Drained DEF ReadsOldest
  <2> QED BY <2>2, <2>3
<1> QED BY <1>1, <1>2

\* Reading the memory leaves the place in the file where it is.
LEMMA ReadFromMemory ==
  ASSUME NEW d \in Nat, NEW b, WellFormed(b, d), b.cache # <<>>
  PROVE  binlog_read(b).bl.file_read_pos = 0
<1>1. binlog_read(b) = binlog_mem_read(b)
  BY DEF binlog_read, WellFormed
<1>2. binlog_mem_read(b).bl.file_read_pos = b.file_read_pos
  BY Zenon DEF binlog_mem_read, WellFormed, BinlogType
<1> QED BY <1>1, <1>2 DEF WellFormed

-----------------------------------------------------------------------------
(* Putting an event back.                                                  *)

\* A binlog with no entries holds nothing.
LEMMA NoEntries ==
  ASSUME NEW d \in Nat, NEW b, WellFormed(b, d), binlog_num_entries(b) = 0
  PROVE  b.cache = <<>> /\ Contents(b) = {}
<1>1. IsFiniteSet(Unread(b))
  BY FS_Subset DEF WellFormed, Unread
<1>2. b.file_entries \in Nat /\ Len(b.cache) \in Nat /\ b.cache \in Seq(Event)
  BY <1>1, FS_CardinalityType DEF WellFormed, BinlogType
<1>3. Len(b.cache) = 0 /\ (FileHasUnread(b) => b.file_entries = 0)
  BY <1>2 DEF binlog_num_entries
<1>4. b.cache = <<>>
  BY Zenon, <1>2, <1>3, EmptyCache
<1>5. Unread(b) = {}
  BY <1>1, <1>3, NextRecord, FS_EmptySet DEF WellFormed
<1> QED BY <1>4, <1>5 DEF Contents

\* The number of entries is the number of events that can be read.
LEMMA EntriesAreUnread ==
  ASSUME NEW d \in Nat, NEW b, WellFormed(b, d)
  PROVE  binlog_num_entries(b) = Len(b.cache) + Cardinality(Unread(b))
<1>1. Len(b.cache) \in Nat /\ b.file_entries \in Int
  BY DEF WellFormed, BinlogType
<1>2. CASE FileHasUnread(b)
  BY <1>1, <1>2 DEF binlog_num_entries, WellFormed
<1>3. CASE ~FileHasUnread(b)
  <2>1. Cardinality(Unread(b)) = 0
    BY <1>3, NextRecord, FS_EmptySet
  <2> QED BY <2>1, <1>1, <1>3 DEF binlog_num_entries
<1> QED BY <1>2, <1>3

\* binlog_mem_unread puts the oldest event in front of the memory.
LEMMA MemUnread ==
  ASSUME NEW d \in Nat, NEW b, WellFormed(b, d), NEW e \in Event,
         \A n \in Contents(b) : e.id + d <= n,
         b.read_index >= 1 \/ b.cache = <<>>, b.file_read_pos = 0
  PROVE  /\ Holds(b, e, binlog_mem_unread(b, e), d)
         /\ binlog_mem_unread(b, e).ret # "error"
<1> DEFINE q == <<e>> \o b.cache
           ri == IF b.read_index = 0 THEN 0 ELSE b.read_index - 1
           c == [b EXCEPT !.cache = q, !.read_index = ri]
<1>b. b \in BinlogType /\ b.cache \in Seq(Event) /\ b.read_index \in Nat
  BY DEF WellFormed, BinlogType
<1>1. LET r == binlog_mem_unread(b, e) IN
        \/ r.ret = "edropped" /\ r.bl = b
        \/ r.ret = "ok" /\ r.bl = c
  <2>1. CASE b.read_index = 0
    <3>1. b.cache = <<>> /\ ri = b.read_index
      BY <2>1, <1>b
    <3>3. q = <<e>>
      BY <3>1, OneEntry
    <3>2. c = [b EXCEPT !.cache = <<e>>]
      BY <3>1, <3>3, <1>b, Zenon DEF BinlogType
    <3> HIDE DEF c
    <3> QED BY <3>2, <2>1 DEF binlog_mem_unread
  <2>2. CASE b.read_index # 0
    BY <2>2 DEF binlog_mem_unread
  <2> QED BY <2>1, <2>2
<1>q. /\ q \in Seq(Event) /\ Len(q) = Len(b.cache) + 1 /\ q[1] = e
      /\ \A i \in 1 .. Len(b.cache) : q[i + 1] = b.cache[i]
      /\ ri \in Nat /\ DOMAIN q = 1 .. Len(q) /\ Len(b.cache) \in Nat
      /\ DOMAIN b.cache = 1 .. Len(b.cache)
  BY <1>b
<1> HIDE DEF q, ri
<1>x. /\ c.cache = q
      /\ c.file = b.file /\ c.file_read_pos = b.file_read_pos
      /\ c.file_size = b.file_size /\ c.file_write_pos = b.file_write_pos
      /\ c.fd = b.fd /\ c.file_entries = b.file_entries /\ c.is_valid = b.is_valid
      /\ c \in BinlogType
  BY <1>b, <1>q, Zenon DEF BinlogType
<1> HIDE DEF c
<1>u. Unread(c) = Unread(b)
  BY <1>x, SameFile
<1>d. \A i \in DOMAIN q : \/ i = 1 /\ q[i] = e
                          \/ /\ i - 1 \in DOMAIN b.cache /\ q[i] = b.cache[i - 1]
                             /\ q[i].id \in CacheIds(b)
  <2> SUFFICES ASSUME NEW i \in DOMAIN q, i # 1
               PROVE  i - 1 \in DOMAIN b.cache /\ q[i] = b.cache[i - 1]
    BY <1>q DEF CacheIds
  <2>1. i - 1 \in 1 .. Len(b.cache) /\ (i - 1) + 1 = i
    BY <1>q
  <2> QED BY <2>1, <1>q
<1>i. CacheIds(c) = CacheIds(b) \cup {e.id}
  <2>1. \A i \in DOMAIN b.cache : i + 1 \in DOMAIN q /\ q[i + 1] = b.cache[i]
    BY <1>q
  <2>2. 1 \in DOMAIN q
    BY <1>q
  <2>3. CacheIds(c) = {q[i].id : i \in DOMAIN q} /\ q[1] = e
    BY <1>q, <1>x DEF CacheIds
  <2>4. CacheIds(b) \cup {e.id} \subseteq CacheIds(c)
    <3>1. \A i \in DOMAIN b.cache : b.cache[i].id \in CacheIds(c)
      BY <2>1, <2>3, Zenon
    <3>2. e.id \in CacheIds(c)
      BY <2>2, <2>3, Zenon
    <3> QED BY <3>1, <3>2 DEF CacheIds
  <2>5. CacheIds(c) \subseteq CacheIds(b) \cup {e.id}
    BY <2>3, <1>d
  <2> QED BY <2>4, <2>5
<1>n. Contents(c) = Contents(b) \cup {e.id}
  BY Zenon, <1>i, <1>u, ContentsSplit DEF FileIds
<1>s. Ordered(c, d)
  <2>1. ASSUME NEW i \in DOMAIN q, NEW j \in DOMAIN q, i < j PROVE q[i].id + d <= q[j].id
    <3>1. i \in Int /\ j \in Int /\ j # 1
      BY <2>1, <1>q
    <3>2. j - 1 \in DOMAIN b.cache /\ q[j] = b.cache[j - 1] /\ q[j].id \in Contents(b)
      BY <3>1, <1>d, ContentsSplit
    <3>3. CASE i = 1
      BY Zenon, <3>2, <3>3, <1>q
    <3>4. CASE i # 1
      <4>1. i - 1 \in DOMAIN b.cache /\ q[i] = b.cache[i - 1] /\ i - 1 < j - 1
        BY <3>1, <3>4, <1>d, <2>1
      <4> QED BY <4>1, <3>2 DEF WellFormed, Ordered
    <3> QED BY <3>3, <3>4
  <2>2. ASSUME NEW i \in DOMAIN q, NEW r \in Unread(b) PROVE q[i].id + d <= r.id
    <3>1. r.id \in Contents(b)
      <4>1. r.id \in FileIds(b)
        BY Zenon DEF FileIds
      <4> QED BY Zenon, <4>1, ContentsSplit
    <3> QED BY <3>1, <1>d DEF WellFormed, Ordered
  <2> QED BY <2>1, <2>2, <1>x, <1>u DEF WellFormed, Ordered
<1>g. FileConsistent(c)
  BY <1>x DEF WellFormed, FileConsistent
<1>w. WellFormed(c, d)
  BY Zenon, <1>x, <1>u, <1>s, <1>g DEF WellFormed
<1> QED BY <1>1, <1>w, <1>n DEF Holds

\* binlog_unread of an event that came from memory.
LEMMA UnreadOk ==
  ASSUME NEW d \in Nat, NEW b, WellFormed(b, d), NEW e \in Event,
         \A n \in Contents(b) : e.id + d <= n,
         b.read_index >= 1 \/ b.cache = <<>>, b.file_read_pos = 0, NEW w
  PROVE  /\ Holds(b, e, binlog_unread(b, e, w), d)
         /\ w = "ok" => binlog_unread(b, e, w).ret # "error"
<1>1. CASE binlog_num_entries(b) = 0
  <2>1. OlderThan(b, e, d)
    BY <1>1, NoEntries DEF OlderThan
  <2>2. binlog_unread(b, e, w) = binlog_add(b, e, w)
    BY <1>1 DEF binlog_unread
  <2> QED BY <2>1, <2>2, Added
<1>2. CASE binlog_num_entries(b) # 0
  <2>1. ~(b.file_read_pos >= e.len)
    BY DEF Event
  <2>2. binlog_unread(b, e, w) = binlog_mem_unread(b, e)
    BY <1>2, <2>1 DEF binlog_unread
  <2> QED BY <2>2, MemUnread
<1> QED BY <1>1, <1>2

\* A new binlog, and one that was wiped, is empty and well formed.
LEMMA EmptyOk ==
  ASSUME NEW d \in Nat, NEW b,
         \/ b = binlog_create
         \/ b = [binlog_create EXCEPT !.save_path = FALSE, !.file = EmptyFile]
  PROVE  WellFormed(b, d) /\ Contents(b) = {}
<1> DEFINE z == binlog_create
<1>c. /\ z.cache = <<>> /\ z.file = EmptyFile /\ z.file_read_pos = 0 /\ z.file_write_pos = 0
      /\ z.file_size = 0 /\ z.file_entries = 0 /\ z.is_valid = TRUE
  BY DEF binlog_create
<1>e. EmptyFile \in [recs : SUBSET Record, end : Nat] /\ <<>> \in Seq(Event)
  BY DEF EmptyFile
<1>t. z \in BinlogType
  BY <1>e DEF binlog_create, BinlogType
<1>1. /\ b.cache = <<>> /\ b.file = EmptyFile /\ b.file_read_pos = 0 /\ b.file_write_pos = 0
      /\ b.file_size = 0 /\ b.file_entries = 0 /\ b.is_valid = TRUE
  BY <1>c, <1>t, <1>e, Zenon DEF BinlogType
<1>2. b \in BinlogType
  BY <1>t, <1>e, ZenonT(30) DEF BinlogType
<1>3. Unread(b) = {} /\ b.file.recs = {} /\ b.file.end = 0
  BY <1>1 DEF EmptyFile, Unread
<1>4. Ordered(b, d) /\ FileConsistent(b)
  BY <1>1, <1>3 DEF Ordered, FileConsistent
<1>5. IsFiniteSet(b.file.recs) /\ b.file_entries = Cardinality(Unread(b))
  BY <1>1, <1>3, FS_EmptySet
<1>6. Contents(b) = {}
  BY <1>1, <1>3 DEF Contents
<1> QED BY <1>1, <1>2, <1>4, <1>5, <1>6 DEF WellFormed

-----------------------------------------------------------------------------
(* Counting.                                                               *)

\* binlog_num_entries of a well-formed binlog.
LEMMA EntriesExact ==
  ASSUME NEW d \in Nat, NEW b, WellFormed(b, d)
  PROVE  binlog_num_entries(b) = Entries(b) /\ Entries(b) \in Int
<1>1. binlog_num_entries(b) = Len(b.cache) + Cardinality(Unread(b))
  BY Zenon, EntriesAreUnread
<1>2. /\ b.file_entries = Cardinality(Unread(b)) /\ b.file_entries \in Int
      /\ b.cache \in Seq(Event)
  BY Zenon DEF WellFormed, BinlogType
<1> QED BY <1>1, <1>2 DEF Entries

\* A well-formed binlog without contents counts none.
LEMMA NoContents ==
  ASSUME NEW d \in Nat, NEW b, WellFormed(b, d), Contents(b) = {}
  PROVE  Entries(b) = 0
<1>1. DOMAIN b.cache = {} /\ Unread(b) = {}
  BY Zenon DEF Contents
<1>2. b.cache \in Seq(Event) /\ b.file_entries = Cardinality(Unread(b))
  BY Zenon DEF WellFormed, BinlogType
<1>3. Len(b.cache) = 0
  <2>1. Len(b.cache) \in Nat /\ DOMAIN b.cache = 1 .. Len(b.cache)
    BY <1>2
  <2>2. 1 \notin 1 .. Len(b.cache)
    BY Zenon, <1>1, <2>1
  <2> QED BY <2>1, <2>2
<1>4. b.file_entries = 0
  BY Zenon, <1>1, <1>2, FS_EmptySet
<1> QED BY <1>3, <1>4 DEF Entries

\* binlog_open touches neither the memory nor the count of the file.
LEMMA OpenKeeps ==
  ASSUME NEW b \in BinlogType
  PROVE  LET o == binlog_open(b) IN
         o.cache = b.cache /\ o.file_entries = b.file_entries /\ o \in BinlogType
<1> DEFINE o == binlog_open(b)
<1>e. EmptyFile \in [recs : SUBSET Record, end : Nat]
  BY DEF EmptyFile
<1>1. CASE b.fd
  BY Zenon, <1>1 DEF binlog_open
<1>2. CASE ~b.fd /\ b.is_valid
  <2> DEFINE c == [b EXCEPT !.fd = TRUE]
  <2>1. o = c
    BY Zenon, <1>2 DEF binlog_open
  <2>2. c.cache = b.cache /\ c.file_entries = b.file_entries /\ c \in BinlogType
    BY Zenon DEF BinlogType
  <2> QED BY Zenon, <2>1, <2>2
<1>3. CASE ~b.fd /\ ~b.is_valid
  <2> DEFINE c == [b EXCEPT !.fd = TRUE, !.file = EmptyFile, !.file_read_pos = 0,
                            !.file_write_pos = 0, !.file_size = 0]
  <2>1. o = c
    BY Zenon, <1>3 DEF binlog_open
  <2>2. 0 \in Nat /\ 0 \in Int
    OBVIOUS
  <2>3. c.cache = b.cache /\ c.file_entries = b.file_entries /\ c \in BinlogType
    BY Zenon, <1>e, <2>2 DEF BinlogType
  <2> QED BY Zenon, <2>1, <2>3
<1> QED BY Zenon, <1>1, <1>2, <1>3

\* An event that is added counts one more, in the memory or in the file.
LEMMA AddCounts ==
  ASSUME NEW b \in BinlogType, NEW e \in Event, NEW w, binlog_add(b, e, w).ret = "ok"
  PROVE  Entries(binlog_add(b, e, w).bl) = Entries(b) + 1
<1> DEFINE r == binlog_add(b, e, w)
           o == binlog_open(b)
<1>b. b.cache \in Seq(Event) /\ b.file_entries \in Int
  BY Zenon DEF BinlogType
<1>1. CASE r = binlog_mem_add(b, e)
  <2> DEFINE m == binlog_mem_add(b, e).bl
  <2>1. m.cache = Append(b.cache, e) /\ m.file_entries = b.file_entries
    BY Zenon DEF binlog_mem_add, BinlogType
  <2>2. Len(Append(b.cache, e)) = Len(b.cache) + 1 /\ Len(b.cache) \in Nat
    BY <1>b
  <2> HIDE DEF m
  <2>3. Entries(m) = Entries(b) + 1
    BY <2>1, <2>2, <1>b DEF Entries
  <2> QED BY Zenon, <2>3, <1>1 DEF m
<1>2. CASE r = binlog_file_add(b, e, w)
  <2>1. o.cache = b.cache /\ o.file_entries = b.file_entries /\ o \in BinlogType
    BY Zenon, OpenKeeps
  <2> DEFINE f == binlog_file_add(b, e, w)
             k == [o EXCEPT !.file = AppendRecord(o.file, e),
                            !.file_write_pos = o.file.end + Prefix + e.len,
                            !.file_size = o.file_size + e.len + Prefix,
                            !.file_entries = o.file_entries + 1]
  <2> HIDE DEF o
  <2>2. f.ret = "ok" => f.bl = k
    BY DEF binlog_file_add, o
  <2>3. k.cache = o.cache /\ k.file_entries = o.file_entries + 1
    BY Zenon, <2>1 DEF BinlogType
  <2>4. Len(b.cache) \in Nat
    BY <1>b
  <2> HIDE DEF f, k
  <2>5. Entries(k) = Entries(b) + 1
    BY <2>1, <2>3, <2>4, <1>b DEF Entries
  <2> QED BY Zenon, <2>2, <2>5, <1>2 DEF f
<1>3. r = binlog_mem_add(b, e) \/ r = binlog_file_add(b, e, w)
  <2>1. b.is_valid
    BY DEF binlog_add
  <2> QED BY Zenon, <2>1 DEF binlog_add
<1> QED BY Zenon, <1>1, <1>2, <1>3

\* An event that is read counts one less, and a read that returns none changes
\* no count.
LEMMA ReadCounts ==
  ASSUME NEW d \in Nat, NEW b, WellFormed(b, d)
  PROVE  /\ binlog_read(b).ret = "ok" => Entries(binlog_read(b).bl) = Entries(b) - 1
         /\ binlog_read(b).ret # "ok" => Entries(binlog_read(b).bl) = Entries(b)
<1>b. b \in BinlogType /\ b.is_valid /\ b.cache \in Seq(Event) /\ b.file_entries \in Int
  BY Zenon DEF WellFormed, BinlogType
<1> DEFINE r == binlog_read(b)
<1>1. ASSUME r.ret # "ok" PROVE Entries(r.bl) = Entries(b)
  <2>1. /\ WellFormed(r.bl, d) /\ ReadsOldest(b, r.bl, r.e, d)
        /\ r.ret = (IF r.e = NoEvent THEN "empty" ELSE "ok")
    BY Zenon, ReadOk
  <2> HIDE DEF r
  <2>2. r.e = NoEvent /\ NoEvent \notin Event
    BY <1>1, <2>1 DEF NoEvent, Event
  <2>3. Contents(b) = {} /\ Contents(r.bl) = {}
    BY Zenon, <2>1, <2>2 DEF ReadsOldest
  <2> QED BY Zenon, <2>1, <2>3, NoContents
<1>2. CASE b.cache # <<>>
  <2>1. r = binlog_mem_read(b)
    BY Zenon, <1>2, <1>b DEF binlog_read
  <2> DEFINE m == binlog_mem_read(b).bl
  <2>2. m.cache = Tail(b.cache) /\ m.file_entries = b.file_entries
    BY Zenon, <1>b DEF binlog_mem_read, BinlogType
  <2>3. Len(Tail(b.cache)) = Len(b.cache) - 1 /\ Len(b.cache) \in Nat
    BY <1>b, <1>2
  <2> HIDE DEF m
  <2>4. Entries(m) = Entries(b) - 1
    BY <2>2, <2>3, <1>b DEF Entries
  <2> QED BY Zenon, <1>1, <2>1, <2>4 DEF m
<1>3. CASE b.cache = <<>>
  <2>1. r = binlog_file_read(b)
    BY Zenon, <1>3, <1>b DEF binlog_read
  <2> DEFINE f == binlog_file_read(b)
             at == (CHOOSE x \in {y \in b.file.recs : y.at = b.file_read_pos} : TRUE)
             k == [b EXCEPT !.file_read_pos = at.at + Prefix + at.len,
                            !.file_entries = b.file_entries - 1]
  <2>2. f.ret = "ok" => f.bl = k
    BY DEF binlog_file_read
  <2> HIDE DEF at
  <2>3. k.cache = b.cache /\ k.file_entries = b.file_entries - 1
    BY Zenon, <1>b DEF BinlogType
  <2>4. Len(b.cache) \in Nat
    BY <1>b
  <2> HIDE DEF f, k
  <2>5. Entries(k) = Entries(b) - 1
    BY <2>3, <2>4, <1>b DEF Entries
  <2> QED BY Zenon, <1>1, <2>1, <2>2, <2>5 DEF f
<1> QED BY Zenon, <1>2, <1>3

\* An event that is put back counts one more.
LEMMA UnreadCounts ==
  ASSUME NEW d \in Nat, NEW b, WellFormed(b, d), NEW e \in Event, NEW w,
         b.read_index >= 1 \/ b.cache = <<>>, b.file_read_pos = 0,
         binlog_unread(b, e, w).ret = "ok"
  PROVE  Entries(binlog_unread(b, e, w).bl) = Entries(b) + 1
<1>b. b \in BinlogType /\ b.cache \in Seq(Event) /\ b.file_entries \in Int
  BY Zenon DEF WellFormed, BinlogType
<1> DEFINE r == binlog_unread(b, e, w)
<1>1. CASE binlog_num_entries(b) = 0
  <2>1. r = binlog_add(b, e, w)
    BY Zenon, <1>1 DEF binlog_unread
  <2> QED BY Zenon, <2>1, <1>b, AddCounts
<1>2. CASE binlog_num_entries(b) # 0
  <2>1. ~(b.file_read_pos >= e.len)
    BY DEF Event
  <2>2. r = binlog_mem_unread(b, e)
    BY Zenon, <1>2, <2>1 DEF binlog_unread
  <2> DEFINE u == binlog_mem_unread(b, e)
             k == [b EXCEPT !.cache = <<e>>]
             m == [b EXCEPT !.cache = <<e>> \o b.cache, !.read_index = b.read_index - 1]
  <2>3. u.ret = "ok" => (b.read_index = 0 /\ u.bl = k) \/ u.bl = m
    BY DEF binlog_mem_unread
  <2>4. /\ k.file_entries = b.file_entries /\ k.cache = <<e>>
        /\ m.file_entries = b.file_entries /\ m.cache = <<e>> \o b.cache
    BY Zenon, <1>b DEF BinlogType
  <2>5. Len(<<e>>) = 1 /\ Len(<<e>> \o b.cache) = Len(b.cache) + 1 /\ Len(b.cache) \in Nat
    BY <1>b
  <2>6. b.read_index = 0 => Len(b.cache) = 0
    <3>1. b.read_index = 0 => b.cache = <<>>
      OBVIOUS
    <3> QED BY <3>1
  <2> HIDE DEF u, k, m
  <2>7. Entries(m) = Entries(b) + 1 /\ (b.read_index = 0 => Entries(k) = Entries(b) + 1)
    <3> DEFINE f == b.file_entries
               l == Len(b.cache)
    <3>1. /\ Entries(m) = (l + 1) + f /\ Entries(k) = 1 + f /\ Entries(b) = l + f
      BY Zenon, <2>4, <2>5 DEF Entries
    <3>2. l \in Int /\ f \in Int /\ (b.read_index = 0 => l = 0)
      BY <2>5, <2>6, <1>b
    <3> HIDE DEF f, l
    <3> QED BY <3>1, <3>2
  <2> QED BY Zenon, <2>2, <2>3, <2>7 DEF u
<1> QED BY Zenon, <1>1, <1>2

-----------------------------------------------------------------------------
(* node_send_event.                                                        *)


\* Where the call of node_send_event is, and the event it handles.
CallOk ==
  /\ calls \in Nat
  /\ pc \in {"idle", "drain", "send"}
  /\ pc = "idle" => pkt = NoEvent
  /\ pc # "idle" => pkt \in Event /\ pkt.id = calls /\ calls # 0

\* The newest event that may be sent or stored.
Newest(d) == IF pc = "idle" THEN calls ELSE calls - d

\* The events that were sent, and then the stored ones, are d apart.
Queued(d) ==
  /\ WellFormed(bl, d)
  /\ sent \in Seq(Nat)
  /\ Contents(bl) \subseteq 1 .. Newest(d)
  /\ \A i \in DOMAIN sent : sent[i] \in 1 .. Newest(d)
  /\ \A i, j \in DOMAIN sent : i < j => sent[i] + d <= sent[j]
  /\ \A i \in DOMAIN sent, n \in Contents(bl) : sent[i] + d <= n

\* What ends the order with distance d.
Excuses(d) ==
  IF d = 0 THEN {"file_resend", "write"} ELSE {"resend", "file_resend", "write"}

AllAccounted == \A n \in 1 .. calls : Accounted(n)

IInv ==
  /\ CallOk
  /\ \A d \in {0, 1} : Without(Excuses(d)) => Queued(d)
  /\ Without({"file_resend", "write", "full"}) => AllAccounted

\* What a step has to show.
StepKeeps(d) ==
  /\ Queued(d)'
  /\ AllAccounted /\ "full" \notin faults' => AllAccounted'

-----------------------------------------------------------------------------
(* Storing.                                                                *)

\* node_binlog_add stores the event, finds the file full, or loses a write.
LEMMA Stored ==
  ASSUME NEW d \in Nat, NEW b, WellFormed(b, d), NEW e \in Event, OlderThan(b, e, d),
         NEW s, NEW w
  PROVE  LET a == node_binlog_add(b, s, e, w) IN
         \/ a.fault = {"write"}
         \/ a.fault = {"full"} /\ a.bl = b
         \/ a.fault = {} /\ WellFormed(a.bl, d) /\ Contents(a.bl) = Contents(b) \cup {e.id}
<1>1. Holds(b, e, binlog_add(b, e, w), d)
  BY Zenon, Added
<1> DEFINE r == binlog_add(b, e, w)
<1> HIDE DEF r
<1>2. CASE r.ret = "ok" /\ WellFormed(r.bl, d) /\ Contents(r.bl) = Contents(b) \cup {e.id}
  <2>1. node_binlog_add(b, s, e, w).fault = {} /\ node_binlog_add(b, s, e, w).bl = r.bl
    BY Zenon, <1>2 DEF node_binlog_add, r
  <2> QED BY <2>1, <1>2
<1>3. CASE r.ret = "enospc" /\ r.bl = b
  <2>1. node_binlog_add(b, s, e, w).fault = {"full"} /\ node_binlog_add(b, s, e, w).bl = b
    BY <1>3 DEF node_binlog_add, r
  <2> QED BY <2>1
<1>4. CASE r.ret \in {"edropped", "error"}
  <2>1. node_binlog_add(b, s, e, w).fault = {"write"}
    BY <1>4 DEF node_binlog_add, r
  <2> QED BY <2>1
<1> QED BY Zenon, <1>1, <1>2, <1>3, <1>4 DEF Holds, r

\* A call that stores its event, which is newer than what was sent and stored.
LEMMA StoreStep ==
  ASSUME NEW d \in {0, 1}, CallOk, Queued(d), NEW e \in Event,
         e.id = calls', calls' \in {calls, calls + 1}, e.id # 0, pkt.id \in {0, e.id},
         \A n \in 1 .. Newest(d) : n + d <= e.id,
         StoreAndReturn(bl, stats, e), sent' = sent, Without(Excuses(d))'
  PROVE  StepKeeps(d)
<1> DEFINE top == Newest(d)
<1>t. top \in Int /\ d \in Nat /\ calls \in Nat /\ calls' \in Nat /\ top + d <= calls'
  <2>1. calls \in Nat /\ e.id \in Nat /\ calls' \in Nat /\ d \in Nat
    BY DEF CallOk, Event
  <2>2. top \in Int
    BY <2>1 DEF Newest
  <2>3. CASE top \in 1 .. top
    BY <2>1, <2>2, <2>3
  <2>4. CASE top < 1
    BY <2>1, <2>2, <2>4
  <2> QED BY <2>2, <2>3, <2>4, <2>1
<1>q. /\ WellFormed(bl, d) /\ sent \in Seq(Nat) /\ Contents(bl) \subseteq 1 .. top
      /\ \A i \in DOMAIN sent : sent[i] \in 1 .. top
      /\ \A i, j \in DOMAIN sent : i < j => sent[i] + d <= sent[j]
      /\ \A i \in DOMAIN sent, n \in Contents(bl) : sent[i] + d <= n
  BY DEF Queued
<1>n. \A n \in 1 .. top : n + d <= e.id
  OBVIOUS
<1> HIDE DEF top
<1>o. OlderThan(bl, e, d)
  BY Zenon, <1>n, <1>q DEF OlderThan
<1>w. PICK w \in Writes :
        /\ bl' = node_binlog_add(bl, stats, e, w).bl
        /\ faults' = faults \cup node_binlog_add(bl, stats, e, w).fault
        /\ pc' = "idle" /\ pkt' = NoEvent
  BY Zenon DEF StoreAndReturn
<1> DEFINE a == node_binlog_add(bl, stats, e, w)
<1>1. \/ a.fault = {"write"}
      \/ a.fault = {"full"} /\ a.bl = bl
      \/ a.fault = {} /\ WellFormed(a.bl, d) /\ Contents(a.bl) = Contents(bl) \cup {e.id}
  BY Zenon, <1>o, <1>q, <1>t, Stored
<1>2. bl' = a.bl /\ faults' = faults \cup a.fault
  BY <1>w
<1> HIDE DEF a
<1>3. "write" \notin faults'
  BY DEF Without, Excuses
<1>4. Newest(d)' = calls'
  BY Zenon, <1>w DEF Newest
<1>5. Queued(d)'
  <2>1. WellFormed(bl', d) /\ Contents(bl') \subseteq Contents(bl) \cup {e.id}
    BY Zenon, <1>1, <1>2, <1>3, <1>q
  <2>2. Contents(bl') \subseteq 1 .. calls' /\ \A i \in DOMAIN sent : sent[i] \in 1 .. calls'
    BY <2>1, <1>q, <1>t DEF Event
  <2>3. \A i \in DOMAIN sent, n \in Contents(bl') : sent[i] + d <= n
    BY <2>1, <1>q, <1>n
  <2> QED BY Zenon, <2>1, <2>2, <2>3, <1>4, <1>q DEF Queued
<1>6. ASSUME AllAccounted, "full" \notin faults' PROVE AllAccounted'
  <2>1. Contents(bl') = Contents(bl) \cup {e.id}
    BY <1>1, <1>2, <1>3, <1>6
  <2>2. ASSUME NEW n \in 1 .. calls' PROVE Accounted(n)'
    <3>1. n = e.id \/ (n \in 1 .. calls /\ n # 0)
      BY <1>t
    <3>2. CASE n = e.id
      BY Zenon, <3>2, <2>1 DEF Accounted
    <3>3. CASE n # e.id
      BY <3>1, <3>3, <2>1, <1>6 DEF AllAccounted, Accounted
    <3> QED BY <3>2, <3>3
  <2> QED BY Zenon, <2>2 DEF AllAccounted
<1> QED BY <1>5, <1>6 DEF StepKeeps

-----------------------------------------------------------------------------
(* The loop of node_send_binlog.                                           *)

\* binlog_wipe with BINLOG_UNLINK removes the file of an empty binlog.
LEMMA WipedEmpty ==
  ASSUME NEW d \in Nat, NEW b, WellFormed(b, d), binlog_num_entries(b) = 0
  PROVE  /\ WellFormed(binlog_wipe(b, TRUE), d) /\ Contents(binlog_wipe(b, TRUE)) = {}
         /\ binlog_wipe(b, TRUE).cache = <<>> /\ binlog_wipe(b, TRUE).file_read_pos = 0
<1>1. Unread(b) = {}
  BY Zenon, NoEntries DEF Contents
<1>2. ~FileHasUnread(b)
  BY Zenon, <1>1, NextRecord
<1>3. b.file_read_pos = b.file_write_pos
  <2>1. /\ b.file_size = b.file.end /\ b.file_write_pos = b.file.end /\ b.file.end \in Nat
        /\ b.file_read_pos \in {r.at : r \in b.file.recs} \cup {b.file.end}
        /\ \A r \in b.file.recs : r \in Record /\ r.at + Prefix + r.len <= b.file.end
    BY DEF WellFormed, FileConsistent, BinlogType
  <2>2. ASSUME NEW r \in b.file.recs PROVE b.file_read_pos # r.at
    <3>1. r.at \in Nat /\ r.len \in Nat /\ Prefix \in Nat \ {0}
      BY <2>1, LimitsAreSizes DEF Record
    <3>2. r.at < b.file_size
      BY <2>1, <3>1
    <3> QED BY Zenon, <3>2, <1>2 DEF FileHasUnread
  <2> QED BY Zenon, <2>1, <2>2
<1>4. binlog_wipe(b, TRUE) = [binlog_create EXCEPT !.save_path = FALSE, !.file = EmptyFile]
  BY <1>3 DEF binlog_wipe
<1>5. WellFormed(binlog_wipe(b, TRUE), d) /\ Contents(binlog_wipe(b, TRUE)) = {}
  BY Zenon, <1>4, EmptyOk
<1>6. binlog_wipe(b, TRUE).cache = <<>> /\ binlog_wipe(b, TRUE).file_read_pos = 0
  BY Zenon, <1>4 DEF binlog_create
<1> QED BY Zenon, <1>5, <1>6

\* An event that was read from the memory and could not be sent is put back:
\* the binlog holds again what it held, or the whole is given up.
LEMMA PutBack ==
  ASSUME NEW b, WellFormed(b, 0), b.cache # <<>>, binlog_read(b).ret = "ok", NEW w
  PROVE  LET r == binlog_read(b)
             c == IF binlog_num_entries(r.bl) = 0 THEN binlog_wipe(r.bl, TRUE) ELSE r.bl
             u == binlog_unread(c, r.e, w)
         IN  u.ret = "ok" => WellFormed(u.bl, 0) /\ Contents(u.bl) = Contents(b)
<1> DEFINE r == binlog_read(b)
           c == IF binlog_num_entries(r.bl) = 0 THEN binlog_wipe(r.bl, TRUE) ELSE r.bl
           u == binlog_unread(c, r.e, w)
<1>0. 0 \in Nat
  OBVIOUS
<1>1. /\ WellFormed(r.bl, 0) /\ ReadsOldest(b, r.bl, r.e, 0) /\ r.e # NoEvent
      /\ r.bl.file_read_pos = 0
  BY Zenon, <1>0, ReadOk, ReadFromMemory
<1>2. /\ r.e \in Event /\ Contents(b) = Contents(r.bl) \cup {r.e.id}
      /\ \A n \in Contents(r.bl) : r.e.id + 0 <= n
      /\ r.bl.read_index >= 1 \/ r.bl.cache = <<>>
  BY <1>1 DEF ReadsOldest
<1> HIDE DEF r
<1>3. /\ WellFormed(c, 0) /\ Contents(c) = Contents(r.bl) /\ c.file_read_pos = 0
      /\ c.read_index >= 1 \/ c.cache = <<>>
  <2>1. CASE binlog_num_entries(r.bl) = 0
    BY Zenon, <2>1, <1>0, <1>1, NoEntries, WipedEmpty
  <2>2. CASE binlog_num_entries(r.bl) # 0
    BY <2>2, <1>1, <1>2
  <2> QED BY Zenon, <2>1, <2>2
<1> HIDE DEF c
<1>4. Holds(c, r.e, u, 0)
  BY Zenon, <1>0, <1>2, <1>3, UnreadOk
<1> HIDE DEF u
<1>5. u.ret = "ok" => WellFormed(u.bl, 0) /\ Contents(u.bl) = Contents(b)
  BY <1>2, <1>3, <1>4 DEF Holds
<1> QED BY Zenon, <1>5 DEF r, c, u

\* The end of the loop: what could be read is still there.
LEMMA DrainEndsOk ==
  ASSUME NEW d \in {0, 1}, CallOk, Queued(d), DrainEnds
  PROVE  StepKeeps(d)
<1>1. d \in Nat /\ WellFormed(bl, d)
  BY DEF Queued
<1>2. WellFormed(bl', d) /\ Contents(bl') = Contents(bl)
  <2>1. CASE bl' = bl
    BY <2>1, <1>1
  <2>2. CASE bl' = binlog_read(bl).bl /\ binlog_read(bl).ret # "ok"
    <3>1. NoEvent \notin Event
      BY DEF NoEvent, Event
    <3>2. /\ WellFormed(binlog_read(bl).bl, d) /\ binlog_read(bl).e = NoEvent
          /\ ReadsOldest(bl, binlog_read(bl).bl, binlog_read(bl).e, d)
      BY <1>1, <2>2, ReadOk
    <3> QED BY Zenon, <2>2, <3>1, <3>2 DEF ReadsOldest
  <2> QED BY <2>1, <2>2 DEF DrainEnds
<1>3. /\ calls' = calls /\ sent' = sent /\ pkt' = pkt /\ pc # "idle" /\ pc' # "idle"
  BY DEF DrainEnds
<1>4. Newest(d)' = Newest(d)
  BY <1>3 DEF Newest
<1>5. Queued(d)'
  BY Zenon, <1>2, <1>3, <1>4 DEF Queued
<1>6. AllAccounted => AllAccounted'
  BY <1>2, <1>3 DEF AllAccounted, Accounted
<1> QED BY <1>5, <1>6 DEF StepKeeps

\* The events the socket took, with one more that is newer.
LEMMA SentOneMore ==
  ASSUME NEW d \in Nat, NEW s \in Seq(Nat), NEW x \in Nat,
         \A i, j \in DOMAIN s : i < j => s[i] + d <= s[j],
         \A i \in DOMAIN s : s[i] + d <= x
  PROVE  LET t == Append(s, x) IN
         /\ t \in Seq(Nat)
         /\ {t[i] : i \in DOMAIN t} = {s[i] : i \in DOMAIN s} \cup {x}
         /\ \A i, j \in DOMAIN t : i < j => t[i] + d <= t[j]
<1> DEFINE t == Append(s, x)
<1>1. /\ t \in Seq(Nat) /\ DOMAIN t = 1 .. Len(s) + 1 /\ t[Len(s) + 1] = x
      /\ \A i \in 1 .. Len(s) : t[i] = s[i]
      /\ DOMAIN s = 1 .. Len(s) /\ Len(s) \in Nat
  OBVIOUS
<1> HIDE DEF t
<1>2. \A i \in DOMAIN t : (i \in DOMAIN s /\ t[i] = s[i]) \/ (i = Len(s) + 1 /\ t[i] = x)
  BY <1>1
<1>3. DOMAIN s \subseteq DOMAIN t /\ Len(s) + 1 \in DOMAIN t
  BY <1>1
<1>4. {t[i] : i \in DOMAIN t} = {s[i] : i \in DOMAIN s} \cup {x}
  BY <1>1, <1>2, <1>3
<1>5. ASSUME NEW i \in DOMAIN t, NEW j \in DOMAIN t, i < j PROVE t[i] + d <= t[j]
  <2>1. i \in DOMAIN s /\ t[i] = s[i]
    BY <1>1, <1>5
  <2> QED BY <2>1, <1>2, <1>5
<1> QED BY Zenon, <1>1, <1>4, <1>5 DEF t

\* The order goes on when an event is sent that is newer than what was sent
\* and older than what is stored.
LEMMA SentOk ==
  ASSUME NEW d \in {0, 1}, Queued(d), NEW x \in Nat, sent' = Append(sent, x),
         \A i \in DOMAIN sent : sent[i] + d <= x, x \in 1 .. Newest(d)',
         Newest(d) <= Newest(d)', Newest(d) \in Int, Newest(d)' \in Int,
         WellFormed(bl', d), Contents(bl') \subseteq Contents(bl),
         \A n \in Contents(bl') : x + d <= n
  PROVE  Queued(d)' /\ {sent'[i] : i \in DOMAIN sent'} = {sent[i] : i \in DOMAIN sent} \cup {x}
<1> DEFINE old == {sent[i] : i \in DOMAIN sent}
           new == {sent'[i] : i \in DOMAIN sent'}
<1>1. /\ sent' \in Seq(Nat) /\ new = old \cup {x}
      /\ \A i, j \in DOMAIN sent' : i < j => sent'[i] + d <= sent'[j]
  <2>1. /\ d \in Nat /\ sent \in Seq(Nat)
        /\ \A i, j \in DOMAIN sent : i < j => sent[i] + d <= sent[j]
    BY DEF Queued
  <2> DEFINE q == Append(sent, x)
  <2>2. /\ q \in Seq(Nat)
        /\ {q[i] : i \in DOMAIN q} = {sent[i] : i \in DOMAIN sent} \cup {x}
        /\ \A i, j \in DOMAIN q : i < j => q[i] + d <= q[j]
    BY Zenon, <2>1, SentOneMore
  <2>3. sent' = q
    OBVIOUS
  <2> HIDE DEF q
  <2> QED BY Zenon, <2>2, <2>3
<1>2. /\ \A m \in old : m \in 1 .. Newest(d) /\ \A n \in Contents(bl) : m + d <= n
      /\ Contents(bl) \subseteq 1 .. Newest(d)
  BY DEF Queued
<1>3. 1 .. Newest(d) \subseteq 1 .. Newest(d)'
  OBVIOUS
<1>4. \A m \in new : m \in 1 .. Newest(d)' /\ \A n \in Contents(bl') : m + d <= n
  BY Zenon, <1>1, <1>2, <1>3
<1>5. \A i \in DOMAIN sent' : sent'[i] \in new
  OBVIOUS
<1>6. Contents(bl') \subseteq 1 .. Newest(d)'
  BY Zenon, <1>2, <1>3
<1> HIDE DEF new, old
<1>7. /\ \A i \in DOMAIN sent' : sent'[i] \in 1 .. Newest(d)'
      /\ \A i \in DOMAIN sent', n \in Contents(bl') : sent'[i] + d <= n
  BY Zenon, <1>4, <1>5
<1> QED BY Zenon, <1>1, <1>6, <1>7 DEF Queued, new, old

\* A stored event goes out: it is the oldest one, and newer than all that went
\* before.
LEMMA DrainSendsOk ==
  ASSUME NEW d \in {0, 1}, CallOk, Queued(d), DrainSends
  PROVE  StepKeeps(d)
<1> DEFINE e == binlog_read(bl).e
<1>q. /\ WellFormed(bl, d) /\ d \in Nat /\ Contents(bl) \subseteq 1 .. Newest(d)
      /\ \A i \in DOMAIN sent, n \in Contents(bl) : sent[i] + d <= n
  BY DEF Queued
<1>1. /\ calls' = calls /\ sent' = Append(sent, e.id) /\ pkt' = pkt /\ pc' = pc
      /\ bl' = binlog_read(bl).bl /\ binlog_read(bl).ret = "ok"
  BY Zenon DEF DrainSends
<1>2. /\ WellFormed(bl', d) /\ e \in Event /\ Contents(bl) = Contents(bl') \cup {e.id}
      /\ \A n \in Contents(bl') : e.id + d <= n
  BY Zenon, <1>q, <1>1, ReadOk DEF ReadsOldest
<1>3. Newest(d)' = Newest(d) /\ Newest(d) \in Int
  BY <1>1 DEF Newest, CallOk
<1> HIDE DEF e
<1>4. e.id \in Nat /\ e.id \in Contents(bl)
  BY Zenon, <1>2 DEF Event
<1>5. /\ Queued(d)'
      /\ {sent'[i] : i \in DOMAIN sent'} = {sent[i] : i \in DOMAIN sent} \cup {e.id}
  <2>1. \A i \in DOMAIN sent : sent[i] + d <= e.id
    BY <1>4, <1>q
  <2>2. e.id \in 1 .. Newest(d)' /\ Newest(d) <= Newest(d)' /\ Newest(d)' \in Int
    BY <1>3, <1>4, <1>q
  <2>3. Contents(bl') \subseteq Contents(bl)
    BY <1>2
  <2> QED BY Zenon, <2>1, <2>2, <2>3, <1>1, <1>2, <1>3, <1>4, SentOk
<1>6. AllAccounted => AllAccounted'
  BY Zenon, <1>5, <1>2, <1>1 DEF AllAccounted, Accounted
<1> QED BY <1>5, <1>6 DEF StepKeeps

\* A send of a stored event fails: the event goes back to the front and the
\* event of the call to the end, where it will be stored once more.
LEMMA DrainFailsOk ==
  ASSUME NEW d \in {0, 1}, CallOk, Queued(d), DrainFails, Without(Excuses(d))'
  PROVE  StepKeeps(d)
<1>w. PICK w \in Writes :
       LET r == binlog_read(bl)
           b == IF binlog_num_entries(r.bl) = 0 THEN binlog_wipe(r.bl, TRUE)
                ELSE r.bl
           u == binlog_unread(b, r.e, w)
           a == node_binlog_add(u.bl, stats, pkt, w)
           resend == {IF bl.cache = <<>> THEN "file_resend" ELSE "resend"}
       IN  \/ u.ret = "ok" /\ bl' = a.bl /\ faults' = faults \cup resend \cup a.fault
           \/ u.ret # "ok" /\ faults' = faults \cup resend \cup {"write"}
  BY Zenon DEF DrainFails
<1> DEFINE r == binlog_read(bl)
           b == IF binlog_num_entries(r.bl) = 0 THEN binlog_wipe(r.bl, TRUE) ELSE r.bl
           u == binlog_unread(b, r.e, w)
           a == node_binlog_add(u.bl, stats, pkt, w)
           resend == {IF bl.cache = <<>> THEN "file_resend" ELSE "resend"}
<1>1. \/ u.ret = "ok" /\ bl' = a.bl /\ faults' = faults \cup resend \cup a.fault
      \/ u.ret # "ok" /\ faults' = faults \cup resend \cup {"write"}
  BY Zenon, <1>w
<1>2. /\ calls' = calls /\ sent' = sent /\ pkt' = pkt /\ pc = "drain" /\ pc' = "send"
      /\ r.ret = "ok"
  BY DEF DrainFails
<1> HIDE DEF a, u
<1>3. /\ "file_resend" \notin faults' /\ "write" \notin faults'
      /\ d = 1 => "resend" \notin faults'
  BY DEF Without, Excuses
<1>4. bl.cache # <<>> /\ d = 0
  BY <1>1, <1>3
<1>5. u.ret = "ok" /\ bl' = a.bl /\ faults' = faults \cup resend \cup a.fault
  BY Zenon, <1>1, <1>3
<1>6. WellFormed(u.bl, 0) /\ Contents(u.bl) = Contents(bl)
  BY Zenon, <1>2, <1>4, <1>5, PutBack DEF Queued, u
<1>7. pkt \in Event /\ pkt.id = calls /\ calls \in Nat \ {0}
  BY <1>2 DEF CallOk
<1>8. Newest(d) = calls /\ Newest(d)' = calls
  BY <1>2, <1>4, <1>7 DEF Newest
<1>9. OlderThan(u.bl, pkt, 0)
  BY <1>6, <1>7, <1>8 DEF Queued, OlderThan
<1>10. \/ a.fault = {"full"} /\ bl' = u.bl
       \/ a.fault = {} /\ WellFormed(bl', 0) /\ Contents(bl') = Contents(bl) \cup {pkt.id}
  <2>1. 0 \in Nat
    BY Zenon
  <2>2. \/ a.fault = {"write"}
        \/ a.fault = {"full"} /\ a.bl = u.bl
        \/ a.fault = {} /\ WellFormed(a.bl, 0) /\ Contents(a.bl) = Contents(u.bl) \cup {pkt.id}
    BY Zenon, <2>1, <1>6, <1>7, <1>9, Stored DEF a
  <2> QED BY <2>2, <1>3, <1>5, <1>6
<1>11. Queued(d)'
  <2>1. WellFormed(bl', d) /\ Contents(bl') \subseteq Contents(bl) \cup {calls}
    BY Zenon, <1>4, <1>6, <1>7, <1>10
  <2>2. /\ sent \in Seq(Nat) /\ Contents(bl) \subseteq 1 .. calls
        /\ \A i \in DOMAIN sent : sent[i] \in 1 .. calls
        /\ \A i, j \in DOMAIN sent : i < j => sent[i] + d <= sent[j]
        /\ \A i \in DOMAIN sent, n \in Contents(bl) : sent[i] + d <= n
    BY <1>8 DEF Queued
  <2>3. Contents(bl') \subseteq 1 .. calls
    BY <2>1, <2>2, <1>7
  <2>4. \A i \in DOMAIN sent, n \in Contents(bl') : sent[i] + d <= n
    BY <2>1, <2>2, <1>4, <1>7
  <2> QED BY Zenon, <2>1, <2>2, <2>3, <2>4, <1>2, <1>8 DEF Queued
<1>12. AllAccounted => AllAccounted'
  <2>1. Contents(bl) \subseteq Contents(bl')
    BY <1>6, <1>10
  <2> QED BY <2>1, <1>2 DEF AllAccounted, Accounted
<1> QED BY <1>11, <1>12 DEF StepKeeps

-----------------------------------------------------------------------------
(* Every step.                                                             *)

\* The event of the call goes out when the count of entries says that nothing
\* is stored, and then nothing is.
LEMMA SendSucceedsOk ==
  ASSUME NEW d \in {0, 1}, CallOk, Queued(d), SendSucceeds
  PROVE  StepKeeps(d)
<1>1. /\ calls' = calls /\ sent' = Append(sent, pkt.id) /\ bl' = bl /\ pc = "send"
      /\ pc' = "idle" /\ pkt' = NoEvent /\ binlog_num_entries(bl) = 0
  BY DEF SendSucceeds
<1>2. WellFormed(bl, d) /\ d \in Nat /\ Contents(bl) = {}
  BY <1>1, NoEntries DEF Queued
<1>3. pkt.id = calls /\ calls \in Nat \ {0}
  BY <1>1 DEF CallOk
<1>4. Newest(d) = calls - d /\ Newest(d)' = calls
  BY Zenon, <1>1 DEF Newest
<1>5. /\ Queued(d)'
      /\ {sent'[i] : i \in DOMAIN sent'} = {sent[i] : i \in DOMAIN sent} \cup {calls}
  <2>1. \A i \in DOMAIN sent : sent[i] + d <= calls
    BY <1>2, <1>3, <1>4 DEF Queued
  <2>2. /\ calls \in 1 .. Newest(d)' /\ Newest(d) <= Newest(d)' /\ Newest(d)' \in Int
        /\ Newest(d) \in Int /\ calls \in Nat
    BY <1>2, <1>3, <1>4
  <2>3. /\ WellFormed(bl', d) /\ Contents(bl') \subseteq Contents(bl)
        /\ \A n \in Contents(bl') : calls + d <= n
    BY <1>1, <1>2
  <2>4. sent' = Append(sent, calls)
    BY <1>1, <1>3
  <2> QED BY Zenon, <2>1, <2>2, <2>3, <2>4, SentOk
<1>6. AllAccounted => AllAccounted'
  BY <1>5, <1>1, <1>3 DEF AllAccounted, Accounted
<1> QED BY <1>5, <1>6 DEF StepKeeps

\* A new call: its event is stored, or the stored events are sent first.
LEMMA NewCallOk ==
  ASSUME NEW d \in {0, 1}, CallOk, Queued(d), NEW len \in Lens,
         SendEventStores(len) \/ SendEventDrains(len), Without(Excuses(d))'
  PROVE  StepKeeps(d)
<1> DEFINE e == [id |-> calls + 1, len |-> len]
<1>1. /\ pc = "idle" /\ calls' = calls + 1 /\ sent' = sent /\ calls \in Nat
      /\ pkt = NoEvent /\ d \in Nat
  BY DEF SendEventStores, SendEventDrains, NewCall, CallOk
<1>2. e \in Event /\ e.id = calls + 1
  BY <1>1, SendAssumption DEF Event
<1>3. Newest(d) = calls /\ NoEvent.id = 0
  BY <1>1 DEF Newest, NoEvent
<1>4. CASE SendEventStores(len)
  <2>1. StoreAndReturn(bl, stats, e)
    BY <1>4 DEF SendEventStores
  <2>2. \A n \in 1 .. Newest(d) : n + d <= e.id
    BY <1>1, <1>2, <1>3
  <2>3. e.id = calls' /\ calls' \in {calls, calls + 1} /\ e.id # 0 /\ pkt.id \in {0, e.id}
    BY <1>1, <1>2, <1>3
  <2> HIDE DEF e
  <2> QED BY Zenon, <2>1, <2>2, <2>3, <1>1, <1>2, StoreStep
<1>5. CASE SendEventDrains(len)
  <2>1. bl' = bl /\ pkt' = e /\ pc' # "idle"
    BY <1>5 DEF SendEventDrains
  <2>2. Newest(d)' = calls + 1 - d /\ 1 .. calls \subseteq 1 .. (calls + 1 - d)
    BY <2>1, <1>1 DEF Newest
  <2>3. Queued(d)'
    BY Zenon, <2>1, <2>2, <1>1, <1>3 DEF Queued
  <2>4. AllAccounted => AllAccounted'
    <3>1. \A n \in 1 .. calls' : n = calls + 1 \/ (n \in 1 .. calls /\ n # 0)
      BY <1>1
    <3>2. pkt'.id = calls + 1 /\ pkt.id = 0
      BY <2>1, <1>1, <1>2, <1>3
    <3> QED BY <3>1, <3>2, <2>1, <1>1 DEF AllAccounted, Accounted
  <2> QED BY <2>3, <2>4 DEF StepKeeps
<1> QED BY Zenon, <1>4, <1>5

\* The call stores its event after what is stored, or after a failed send.
LEMMA CallStoresOk ==
  ASSUME NEW d \in {0, 1}, CallOk, Queued(d), SendAppends \/ SendFails, Without(Excuses(d))'
  PROVE  StepKeeps(d)
<1>1. /\ pc = "send" /\ calls' = calls /\ sent' = sent /\ StoreAndReturn(bl, stats, pkt)
  BY DEF SendAppends, SendFails
<1>2. pkt \in Event /\ pkt.id = calls /\ calls \in Nat \ {0}
  BY <1>1 DEF CallOk
<1>3. \A n \in 1 .. Newest(d) : n + d <= pkt.id
  BY <1>1, <1>2 DEF Newest
<1>4. pkt.id = calls' /\ calls' \in {calls, calls + 1} /\ pkt.id # 0 /\ pkt.id \in {0, pkt.id}
  BY <1>1, <1>2
<1> QED BY <1>1, <1>2, <1>3, <1>4, StoreStep

\* DrainCorrupt does not happen: reading never ends up between two records.
LEMMA NeverCorrupt ==
  ASSUME NEW d \in {0, 1}, Queued(d), DrainCorrupt
  PROVE  FALSE
<1>1. WellFormed(bl, d) /\ d \in Nat /\ binlog_read(bl).ret = "garbage"
  BY DEF Queued, DrainCorrupt
<1> QED BY <1>1, ReadOk

\* A step keeps the order with distance d, unless it brings one of its excuses.
LEMMA QueuedStep ==
  ASSUME NEW d \in {0, 1}, CallOk, Queued(d), [Next]_vars, Without(Excuses(d))'
  PROVE  StepKeeps(d)
<1>1. CASE Connect \/ node_disconnect \/ UNCHANGED vars
  <2>1. bl' = bl /\ pc' = pc /\ pkt' = pkt /\ calls' = calls /\ sent' = sent
    BY <1>1 DEF Connect, node_disconnect, vars
  <2>2. Newest(d)' = Newest(d)
    BY <2>1 DEF Newest
  <2>3. Queued(d)'
    BY Zenon, <2>1, <2>2 DEF Queued
  <2>4. AllAccounted => AllAccounted'
    BY <2>1 DEF AllAccounted, Accounted
  <2> QED BY <2>3, <2>4 DEF StepKeeps
<1>2. CASE \E len \in Lens : SendEventStores(len) \/ SendEventDrains(len)
  BY <1>2, NewCallOk
<1>3. CASE DrainEnds
  BY <1>3, DrainEndsOk
<1>4. CASE DrainCorrupt
  BY <1>4, NeverCorrupt
<1>5. CASE DrainSends
  BY <1>5, DrainSendsOk
<1>6. CASE DrainFails
  BY <1>6, DrainFailsOk
<1>7. CASE SendAppends \/ SendFails
  BY Zenon, <1>7, CallStoresOk
<1>8. CASE SendSucceeds
  BY <1>8, SendSucceedsOk
<1> QED BY <1>1, <1>2, <1>3, <1>4, <1>5, <1>6, <1>7, <1>8, Zenon DEF Next

\* The call goes through its places in order, and keeps its event.
LEMMA CallStep ==
  ASSUME CallOk, [Next]_vars
  PROVE  CallOk' /\ faults \subseteq faults'
<1>1. ASSUME NEW len \in Lens, SendEventStores(len) PROVE CallOk' /\ faults \subseteq faults'
  BY <1>1 DEF SendEventStores, StoreAndReturn, NewCall, CallOk
<1>2. ASSUME NEW len \in Lens, SendEventDrains(len) PROVE CallOk' /\ faults \subseteq faults'
  <2>1. /\ calls' = calls + 1 /\ pkt' = [id |-> calls + 1, len |-> len]
        /\ pc' \in {"drain", "send"} /\ faults' = faults
    BY <1>2 DEF SendEventDrains, NewCall
  <2> QED BY <2>1, SendAssumption DEF CallOk, Event
<1>3. CASE DrainEnds \/ DrainCorrupt
  BY Zenon, <1>3 DEF DrainEnds, DrainCorrupt, CallOk
<1>8. CASE DrainSends
  <2>1. pc = "drain" /\ pc' = pc /\ pkt' = pkt /\ calls' = calls /\ faults \subseteq faults'
    BY Zenon, <1>8 DEF DrainSends
  <2> QED BY Zenon, <2>1 DEF CallOk
<1>4. CASE DrainFails
  <2>1. pc = "drain" /\ pc' = "send" /\ pkt' = pkt /\ calls' = calls /\ faults \subseteq faults'
    BY <1>4, Zenon DEF DrainFails
  <2> QED BY <2>1 DEF CallOk
<1>5. CASE SendAppends \/ SendFails
  BY <1>5 DEF SendAppends, SendFails, StoreAndReturn, CallOk
<1>6. CASE SendSucceeds
  BY <1>6 DEF SendSucceeds, CallOk
<1>7. CASE Connect \/ node_disconnect \/ UNCHANGED vars
  BY <1>7 DEF Connect, node_disconnect, vars, CallOk
<1> QED BY Zenon, <1>1, <1>2, <1>3, <1>4, <1>5, <1>6, <1>7, <1>8 DEF Next

-----------------------------------------------------------------------------
(* The theorems.                                                           *)

\* The invariant holds at first, when nothing was sent or stored.
LEMMA InitOk == Init => IInv
<1> SUFFICES ASSUME Init PROVE IInv
  OBVIOUS
<1>1. CallOk
  BY DEF Init, CallOk
<1>2. ASSUME NEW d \in {0, 1} PROVE Queued(d)
  <2>1. WellFormed(bl, d) /\ Contents(bl) = {}
    BY Zenon, EmptyOk DEF Init
  <2>2. sent \in Seq(Nat) /\ DOMAIN sent = {}
    BY DEF Init
  <2> QED BY <2>1, <2>2 DEF Queued
<1>3. AllAccounted
  BY DEF Init, AllAccounted
<1> QED BY <1>1, <1>2, <1>3 DEF IInv

\* Every step keeps the invariant.
LEMMA StepOk == IInv /\ [Next]_vars => IInv'
<1> SUFFICES ASSUME IInv, [Next]_vars PROVE IInv'
  OBVIOUS
<1>1. CallOk /\ CallOk' /\ faults \subseteq faults'
  BY CallStep DEF IInv
<1>2. ASSUME NEW d \in {0, 1}, Without(Excuses(d))' PROVE StepKeeps(d)
  <2>1. Without(Excuses(d))
    BY <1>1, <1>2 DEF Without, Excuses
  <2>2. Queued(d)
    BY <2>1 DEF IInv
  <2> QED BY <2>2, <1>1, <1>2, QueuedStep
<1>3. ASSUME Without({"file_resend", "write", "full"})' PROVE AllAccounted'
  <2>1. AllAccounted
    BY <1>1, <1>3 DEF IInv, Without
  <2>2. Without(Excuses(0))' /\ "full" \notin faults'
    BY <1>3 DEF Without, Excuses
  <2> QED BY <2>1, <2>2, <1>2 DEF StepKeeps
<1> QED BY <1>1, <1>2, <1>3 DEF IInv, StepKeeps

\* The inductive invariant holds throughout.
THEOREM Invariance == Spec => []IInv
<1> QED BY InitOk, StepOk, PTL DEF Spec

\* node_send_event sends the events in the order of the calls, stored events
\* first, whatever sends fail, until an event from the file is put back or a
\* write() fails.
THEOREM OrderOnTheWire == Spec => []SentInOrder
<1>1. IInv => SentInOrder
  <2> SUFFICES ASSUME IInv, Without({"file_resend", "write"})
               PROVE  /\ \A i, j \in DOMAIN sent : i < j => sent[i] <= sent[j]
                      /\ \A i \in DOMAIN sent, n \in Contents(bl) : sent[i] <= n
    BY DEF SentInOrder
  <2>1. Queued(0)
    BY DEF IInv, Excuses
  <2>2. /\ \A i \in DOMAIN sent : sent[i] \in Nat
        /\ \A i, j \in DOMAIN sent : i < j => sent[i] + 0 <= sent[j]
        /\ \A i \in DOMAIN sent, n \in Contents(bl) : sent[i] + 0 <= n
    BY <2>1 DEF Queued
  <2> QED BY <2>2
<1> QED BY <1>1, Invariance, PTL

\* Every event node_send_event was called with is sent, stored or being handled,
\* and it is so once until a send of a stored event fails.
THEOREM NothingLost == Spec => []KeptOnce
<1>1. IInv => KeptOnce
  <2> SUFFICES ASSUME IInv, Without({"resend", "file_resend", "write"}) PROVE SentOnce
    BY DEF IInv, KeptOnce, AllAccounted
  <2>1. Queued(1)
    BY DEF IInv, Excuses
  <2>2. /\ sent \in Seq(Nat) /\ \A i \in DOMAIN sent : sent[i] \in Nat /\ i \in Nat
        /\ \A i, j \in DOMAIN sent : i < j => sent[i] + 1 <= sent[j]
        /\ \A i \in DOMAIN sent, n \in Contents(bl) : sent[i] + 1 <= n
    BY <2>1 DEF Queued
  <2> QED BY <2>2 DEF SentOnce
<1> QED BY <1>1, Invariance, PTL

-----------------------------------------------------------------------------
(* The counters.                                                           *)

\* logged is the length of the backlog, during a call as well.
Logged == Without(Excuses(0)) => stats.logged = Entries(bl)

\* Every event is in a counter.  The event of a call under way may be in none,
\* and in two after a failed drain.
InCounters ==
  /\ \E S : sent \in Seq(S)
  /\ calls \in Nat
  /\ stats \in [logged : Int, dropped : Int]
  /\ Without({"wrap"}) => stats.logged >= 0
  /\ Without({"full", "wrap"}) =>
       calls <= Len(sent) + stats.logged + stats.dropped + (IF pc = "idle" THEN 0 ELSE 1)

\* One more is counted as logged or dropped, and what it does for the sum.
LEMMA SumGrows ==
  ASSUME NEW c \in Int, NEW n \in Int, NEW x \in Int, NEW y \in Int, NEW u \in Int,
         NEW v \in Int, u + v = x + y + 1, c <= n + x + y + 1
  PROVE  c <= n + u + v /\ c <= n + u + v + 0 /\ c <= n + u + v + 1
OBVIOUS

\* What the result a of node_binlog_add makes of the counters s.
OneMore(s, a) ==
  /\ a.stats \in [logged : Int, dropped : Int]
  /\ s.logged >= 0 => a.stats.logged >= 0
  /\ \/ a.fault = {"full"}
     \/ a.stats.logged + a.stats.dropped = s.logged + s.dropped + 1

\* node_binlog_add counts the event that it stores, or all that it throws away.
LEMMA StoreCounted ==
  ASSUME NEW b, NEW s \in [logged : Int, dropped : Int], NEW e, NEW w
  PROVE  OneMore(s, node_binlog_add(b, s, e, w))
<1> DEFINE a == node_binlog_add(b, s, e, w)
           up == [s EXCEPT !.logged = s.logged + 1]
           lost == [logged |-> 0, dropped |-> s.dropped + s.logged + 1]
<1>s. s.logged \in Int /\ s.dropped \in Int
  OBVIOUS
<1>1. \/ a.fault = {"full"} /\ a.stats = s
      \/ a.stats = up
      \/ a.stats = lost
  BY DEF node_binlog_add
<1>2. /\ up.logged = s.logged + 1 /\ up.dropped = s.dropped
      /\ up \in [logged : Int, dropped : Int]
  BY <1>s
<1>3. /\ lost.logged = 0 /\ lost.dropped = s.dropped + s.logged + 1
      /\ lost \in [logged : Int, dropped : Int]
  BY <1>s
<1> HIDE DEF a, up, lost
<1>4. /\ s.logged >= 0 => up.logged >= 0 /\ lost.logged >= 0
      /\ up.logged + up.dropped = s.logged + s.dropped + 1
      /\ lost.logged + lost.dropped = s.logged + s.dropped + 1
  BY <1>s, <1>2, <1>3
<1> QED BY Zenon, <1>1, <1>2, <1>3, <1>4 DEF OneMore, a

\* The call that stores its event and returns has counted it.
LEMMA ReturnCounted ==
  ASSUME InCounters, NEW e, StoreAndReturn(bl, stats, e), sent' = sent,
         \/ pc # "idle" /\ calls' = calls
         \/ pc = "idle" /\ calls' = calls + 1
  PROVE  InCounters'
<1>w. PICK w \in Writes :
        /\ stats' = node_binlog_add(bl, stats, e, w).stats
        /\ faults' = faults \cup node_binlog_add(bl, stats, e, w).fault
        /\ pc' = "idle"
  BY Zenon DEF StoreAndReturn
<1>s. PICK S : sent \in Seq(S)
  BY Zenon DEF InCounters
<1>t. /\ stats \in [logged : Int, dropped : Int] /\ calls \in Nat
      /\ Without({"wrap"}) => stats.logged >= 0
      /\ Without({"full", "wrap"}) =>
           calls <= Len(sent) + stats.logged + stats.dropped + (IF pc = "idle" THEN 0 ELSE 1)
  BY Zenon DEF InCounters
<1> DEFINE a == node_binlog_add(bl, stats, e, w)
<1>1. /\ a.stats \in [logged : Int, dropped : Int]
      /\ stats.logged >= 0 => a.stats.logged >= 0
      /\ \/ a.fault = {"full"}
         \/ a.stats.logged + a.stats.dropped = stats.logged + stats.dropped + 1
  <2>1. OneMore(stats, a)
    BY Zenon, <1>t, StoreCounted
  <2> QED BY Zenon, <2>1 DEF OneMore
<1>2. stats' = a.stats /\ faults' = faults \cup a.fault
  BY Zenon, <1>w
<1> HIDE DEF a
<1>3. Without({"wrap"})' => stats'.logged >= 0
  <2>1. Without({"wrap"})' => Without({"wrap"})
    BY Zenon, <1>2 DEF Without
  <2> QED BY Zenon, <2>1, <1>1, <1>2, <1>t
<1>4. ASSUME Without({"full", "wrap"})'
      PROVE  calls' <= Len(sent) + stats'.logged + stats'.dropped
  <2>1. Without({"full", "wrap"}) /\ a.fault # {"full"}
    BY Zenon, <1>2, <1>4 DEF Without
  <2>2. stats'.logged + stats'.dropped = stats.logged + stats.dropped + 1
    BY Zenon, <2>1, <1>1, <1>2
  <2>3. calls' <= Len(sent) + stats.logged + stats.dropped + 1
    <3>1. Len(sent) \in Nat /\ stats.logged \in Int /\ stats.dropped \in Int
      BY <1>s, <1>t
    <3>2. CASE pc # "idle" /\ calls' = calls
      BY Zenon, <3>2, <2>1, <1>t
    <3>3. CASE pc = "idle" /\ calls' = calls + 1
      <4>1. calls <= Len(sent) + stats.logged + stats.dropped + 0
        BY Zenon, <3>3, <2>1, <1>t
      <4> QED BY <4>1, <3>1, <3>3, <1>t
    <3> QED BY Zenon, <3>2, <3>3
  <2>4. /\ Len(sent) \in Nat /\ stats.logged \in Int /\ stats.dropped \in Int
        /\ stats'.logged \in Int /\ stats'.dropped \in Int /\ calls' \in Int
    BY <1>s, <1>t, <1>1, <1>2
  <2>5. Len(sent) \in Int
    BY <2>4
  <2> QED BY Zenon, <2>2, <2>3, <2>4, <2>5, SumGrows
<1>5. calls' \in Nat
  BY <1>t
<1>6. ASSUME Without({"full", "wrap"})'
      PROVE  calls' <= Len(sent') + stats'.logged + stats'.dropped + (IF pc' = "idle" THEN 0 ELSE 1)
  <2>1. /\ Len(sent') \in Nat /\ stats'.logged \in Int /\ stats'.dropped \in Int
        /\ pc' = "idle"
    BY <1>s, <1>w, <1>1, <1>2
  <2> QED BY <2>1, <1>4, <1>5, <1>6
<1> QED BY Zenon, <1>s, <1>1, <1>2, <1>3, <1>5, <1>6 DEF InCounters

\* A send moves an event from one counter to another, or to the socket.
LEMMA SendCounted ==
  ASSUME InCounters, DrainSends \/ SendSucceeds
  PROVE  InCounters'
<1>s. PICK S : sent \in Seq(S)
  BY Zenon DEF InCounters
<1>t. /\ stats \in [logged : Int, dropped : Int] /\ calls \in Nat
      /\ stats.logged \in Int /\ stats.dropped \in Int
      /\ Without({"wrap"}) => stats.logged >= 0
      /\ Without({"full", "wrap"}) =>
           calls <= Len(sent) + stats.logged + stats.dropped + (IF pc = "idle" THEN 0 ELSE 1)
  BY Zenon DEF InCounters
<1>1. ASSUME NEW x, sent' = Append(sent, x)
      PROVE  Len(sent) \in Nat /\ Len(sent') = Len(sent) + 1 /\ \E T : sent' \in Seq(T)
  <2>1. sent \in Seq(S \cup {x})
    BY <1>s
  <2> DEFINE T == S \cup {x}
             q == Append(sent, x)
  <2>2. x \in T
    OBVIOUS
  <2> HIDE DEF T
  <2>3. q \in Seq(T) /\ Len(q) = Len(sent) + 1 /\ Len(sent) \in Nat
    BY <2>1, <2>2 DEF T
  <2> QED BY Zenon, <1>1, <2>3
<1>2. CASE DrainSends
  <2>1. /\ pc = "drain" /\ pc' = pc /\ calls' = calls /\ faults \subseteq faults'
        /\ stats' = [stats EXCEPT !.logged = stats.logged - 1]
        /\ stats.logged = 0 => "wrap" \in faults'
        /\ sent' = Append(sent, binlog_read(bl).e.id)
    BY Zenon, <1>2 DEF DrainSends
  <2>2. /\ stats' \in [logged : Int, dropped : Int]
        /\ stats'.logged = stats.logged - 1 /\ stats'.dropped = stats.dropped
    BY <2>1, <1>t
  <2>3. Len(sent) \in Nat /\ Len(sent') = Len(sent) + 1 /\ \E T : sent' \in Seq(T)
    BY Zenon, <2>1, <1>1
  <2>4. ASSUME Without({"wrap"})' PROVE stats'.logged >= 0
    <3>1. stats.logged >= 0 /\ stats.logged # 0
      BY Zenon, <2>1, <2>4, <1>t DEF Without
    <3> QED BY <3>1, <2>2, <1>t
  <2>5. ASSUME Without({"full", "wrap"})'
        PROVE  calls' <= Len(sent') + stats'.logged + stats'.dropped + 1
    <3>1. Without({"full", "wrap"}) /\ pc # "idle"
      BY Zenon, <2>1, <2>5 DEF Without
    <3>2. calls <= Len(sent) + stats.logged + stats.dropped + 1
      BY Zenon, <3>1, <1>t
    <3> QED BY <3>2, <2>1, <2>2, <2>3, <1>t
  <2>6. pc' # "idle"
    BY <2>1
  <2> QED BY Zenon, <2>1, <2>2, <2>3, <2>4, <2>5, <2>6, <1>t DEF InCounters
<1>3. CASE SendSucceeds
  <2>1. /\ pc = "send" /\ pc' = "idle" /\ calls' = calls /\ faults' = faults /\ stats' = stats
        /\ sent' = Append(sent, pkt.id)
    BY Zenon, <1>3 DEF SendSucceeds
  <2>2. Len(sent) \in Nat /\ Len(sent') = Len(sent) + 1 /\ \E T : sent' \in Seq(T)
    BY Zenon, <2>1, <1>1
  <2>3. ASSUME Without({"full", "wrap"})
        PROVE  calls' <= Len(sent') + stats'.logged + stats'.dropped + 0
    <3>1. pc # "idle"
      BY <2>1
    <3>2. calls <= Len(sent) + stats.logged + stats.dropped + 1
      BY Zenon, <3>1, <2>3, <1>t
    <3> QED BY <3>2, <2>1, <2>2, <1>t
  <2> QED BY Zenon, <2>1, <2>2, <2>3, <1>t DEF InCounters, Without
<1> QED BY Zenon, <1>2, <1>3

\* A failed drain counts the event of the call, which is then stored again, or
\* adds all that was logged to what was dropped.
LEMMA DrainFailsCounted ==
  ASSUME InCounters, DrainFails
  PROVE  InCounters'
<1>s. PICK S : sent \in Seq(S)
  BY Zenon DEF InCounters
<1>t. /\ stats \in [logged : Int, dropped : Int] /\ calls \in Nat
      /\ stats.logged \in Int /\ stats.dropped \in Int
      /\ Without({"wrap"}) => stats.logged >= 0
      /\ Without({"full", "wrap"}) =>
           calls <= Len(sent) + stats.logged + stats.dropped + (IF pc = "idle" THEN 0 ELSE 1)
  BY Zenon DEF InCounters
<1> DEFINE lost == [stats EXCEPT !.dropped = stats.dropped + stats.logged + 1]
<1>1. PICK w, b :
        /\ w \in Writes
        /\ \/ /\ stats' = node_binlog_add(b, stats, pkt, w).stats
              /\ node_binlog_add(b, stats, pkt, w).fault \subseteq faults'
           \/ stats' = lost
  BY Zenon DEF DrainFails
<1> DEFINE a == node_binlog_add(b, stats, pkt, w)
<1>2. /\ a.stats \in [logged : Int, dropped : Int]
      /\ stats.logged >= 0 => a.stats.logged >= 0
      /\ \/ a.fault = {"full"}
         \/ a.stats.logged + a.stats.dropped = stats.logged + stats.dropped + 1
  <2>1. OneMore(stats, a)
    BY Zenon, <1>1, <1>t, StoreCounted
  <2> QED BY Zenon, <2>1 DEF OneMore
<1>3. /\ lost \in [logged : Int, dropped : Int] /\ lost.logged = stats.logged
      /\ lost.dropped = stats.dropped + stats.logged + 1
  BY <1>t
<1>4. (stats' = a.stats /\ a.fault \subseteq faults') \/ stats' = lost
  BY Zenon, <1>1
<1> HIDE DEF a, lost
<1>5. /\ pc = "drain" /\ pc' = "send" /\ calls' = calls /\ sent' = sent
      /\ faults \subseteq faults'
  BY Zenon DEF DrainFails
<1>6. /\ stats' \in [logged : Int, dropped : Int]
      /\ Without({"wrap"})' => stats'.logged >= 0
  BY Zenon, <1>2, <1>3, <1>4, <1>5, <1>t DEF Without
<1>7. ASSUME Without({"full", "wrap"})'
      PROVE  calls' <= Len(sent') + stats'.logged + stats'.dropped + 1
  <2>1. (Without({"full", "wrap"}) /\ Without({"wrap"}) /\ a.fault # {"full"}) \/ stats' = lost
    BY Zenon, <1>4, <1>5, <1>7 DEF Without
  <2>2. Without({"full", "wrap"}) /\ stats.logged >= 0
    BY Zenon, <1>5, <1>7, <1>t DEF Without
  <2>3. calls <= Len(sent) + stats.logged + stats.dropped + 1
    <3>1. pc # "idle"
      BY <1>5
    <3> QED BY Zenon, <3>1, <2>2, <1>t
  <2>4. Len(sent) \in Nat
    BY <1>s
  <2>5. CASE stats' = lost
    <3>1. stats'.logged = stats.logged /\ stats'.dropped = stats.dropped + stats.logged + 1
      BY Zenon, <2>5, <1>3
    <3>2. calls' = calls /\ Len(sent') = Len(sent) /\ calls \in Nat
      BY Zenon, <1>5, <1>t
    <3>3. stats.logged \in Int /\ stats.dropped \in Int
      BY Zenon, <1>t
    <3> QED BY <3>1, <3>2, <3>3, <2>2, <2>3, <2>4
  <2>6. CASE stats' = a.stats /\ a.stats.logged + a.stats.dropped = stats.logged + stats.dropped + 1
    <3>1. stats'.logged + stats'.dropped = stats.logged + stats.dropped + 1
      BY Zenon, <2>6
    <3>2. stats'.logged \in Int /\ stats'.dropped \in Int
      BY Zenon, <1>6
    <3>3. stats.logged \in Int /\ stats.dropped \in Int /\ calls' = calls /\ sent' = sent
      BY Zenon, <1>5, <1>t
    <3>4. calls \in Int /\ Len(sent) \in Int
      BY <2>4, <1>t
    <3>5. calls <= Len(sent) + stats'.logged + stats'.dropped + 1
      BY ZenonT(30), <3>1, <3>2, <3>3, <3>4, <2>3, SumGrows
    <3> QED BY Zenon, <3>3, <3>5
  <2> QED BY Zenon, <2>1, <2>5, <2>6, <1>2, <1>4
<1>8. pc' # "idle" /\ \E T : sent' \in Seq(T)
  BY <1>5, <1>s
<1> QED BY Zenon, <1>5, <1>6, <1>7, <1>8, <1>t DEF InCounters

LEMMA CountersStep == InCounters /\ [Next]_vars => InCounters'
<1> SUFFICES ASSUME InCounters, [Next]_vars PROVE InCounters'
  OBVIOUS
<1>1. CASE Connect \/ node_disconnect \/ UNCHANGED vars
  <2>1. pc' = pc /\ calls' = calls /\ sent' = sent /\ stats' = stats /\ faults' = faults
    BY Zenon, <1>1 DEF Connect, node_disconnect, vars
  <2> QED BY Zenon, <2>1 DEF InCounters, Without
<1>2. CASE DrainEnds \/ DrainCorrupt
  <2>1. /\ pc = "drain" /\ pc' = "send" /\ calls' = calls /\ sent' = sent /\ stats' = stats
        /\ faults' = faults
    BY Zenon, <1>2 DEF DrainEnds, DrainCorrupt
  <2>2. pc # "idle" /\ pc' # "idle"
    BY <2>1
  <2> QED BY Zenon, <2>1, <2>2 DEF InCounters, Without
<1>3. ASSUME NEW len \in Lens, SendEventStores(len) PROVE InCounters'
  <2> DEFINE e == [id |-> calls + 1, len |-> len]
  <2>1. pc = "idle" /\ calls' = calls + 1 /\ sent' = sent /\ StoreAndReturn(bl, stats, e)
    BY Zenon, <1>3 DEF SendEventStores, NewCall
  <2> HIDE DEF e
  <2> QED BY Zenon, <2>1, ReturnCounted
<1>4. ASSUME NEW len \in Lens, SendEventDrains(len) PROVE InCounters'
  <2>1. /\ pc = "idle" /\ calls' = calls + 1 /\ sent' = sent /\ stats' = stats /\ faults' = faults
        /\ pc' \in {"drain", "send"}
    BY <1>4 DEF SendEventDrains, NewCall
  <2>2. PICK S : sent \in Seq(S)
    BY Zenon DEF InCounters
  <2>3. pc' # "idle"
    BY <2>1
  <2>4. /\ Len(sent) \in Nat /\ stats.logged \in Int /\ stats.dropped \in Int
        /\ calls \in Nat /\ calls' \in Nat
    BY <2>1, <2>2 DEF InCounters
  <2>5. Without({"full", "wrap"}) => calls' <= Len(sent) + stats.logged + stats.dropped + 1
    BY <2>1, <2>4 DEF InCounters
  <2> QED BY Zenon, <2>1, <2>3, <2>4, <2>5 DEF InCounters, Without
<1>5. CASE SendAppends \/ SendFails
  <2>1. pc = "send" /\ calls' = calls /\ sent' = sent /\ StoreAndReturn(bl, stats, pkt)
    BY Zenon, <1>5 DEF SendAppends, SendFails
  <2>2. pc # "idle"
    BY <2>1
  <2> QED BY Zenon, <2>1, <2>2, ReturnCounted
<1>6. CASE DrainSends \/ SendSucceeds
  BY Zenon, <1>6, SendCounted
<1>7. CASE DrainFails
  BY Zenon, <1>7, DrainFailsCounted
<1> QED BY Zenon, <1>1, <1>2, <1>3, <1>4, <1>5, <1>6, <1>7 DEF Next

\* An event that was read from the memory and is put back is counted as before.
LEMMA PutBackCounts ==
  ASSUME NEW b, WellFormed(b, 0), b.cache # <<>>, binlog_read(b).ret = "ok", NEW w
  PROVE  LET r == binlog_read(b)
             c == IF binlog_num_entries(r.bl) = 0 THEN binlog_wipe(r.bl, TRUE) ELSE r.bl
             u == binlog_unread(c, r.e, w)
         IN  u.ret = "ok" => Entries(u.bl) = Entries(b)
<1> DEFINE r == binlog_read(b)
           c == IF binlog_num_entries(r.bl) = 0 THEN binlog_wipe(r.bl, TRUE) ELSE r.bl
           u == binlog_unread(c, r.e, w)
<1>0. 0 \in Nat
  OBVIOUS
<1>1. /\ WellFormed(r.bl, 0) /\ ReadsOldest(b, r.bl, r.e, 0) /\ r.e # NoEvent
      /\ r.bl.file_read_pos = 0
  BY Zenon, <1>0, ReadOk, ReadFromMemory
<1>2. Entries(r.bl) = Entries(b) - 1 /\ Entries(b) \in Int
  BY Zenon, <1>0, ReadCounts, EntriesExact
<1>3. r.e \in Event /\ (r.bl.read_index >= 1 \/ r.bl.cache = <<>>)
  BY Zenon, <1>1 DEF ReadsOldest
<1> HIDE DEF r
<1>4. /\ WellFormed(c, 0) /\ c.file_read_pos = 0 /\ Entries(c) = Entries(r.bl)
      /\ c.read_index >= 1 \/ c.cache = <<>>
  <2>1. CASE binlog_num_entries(r.bl) = 0
    <3>1. Contents(r.bl) = {}
      BY Zenon, <2>1, <1>0, <1>1, NoEntries
    <3>2. /\ WellFormed(c, 0) /\ Contents(c) = {} /\ c.cache = <<>> /\ c.file_read_pos = 0
      BY Zenon, <2>1, <1>0, <1>1, WipedEmpty
    <3> HIDE DEF c
    <3>3. Entries(r.bl) = 0 /\ Entries(c) = 0
      BY Zenon, <3>1, <3>2, <1>0, <1>1, NoContents
    <3> QED BY Zenon, <3>2, <3>3
  <2>2. CASE binlog_num_entries(r.bl) # 0
    BY Zenon, <2>2, <1>1, <1>3
  <2> QED BY Zenon, <2>1, <2>2
<1> HIDE DEF c
<1>5. ASSUME u.ret = "ok" PROVE Entries(u.bl) = Entries(c) + 1
  BY Zenon, <1>0, <1>3, <1>4, <1>5, UnreadCounts
<1> HIDE DEF u
<1>6. u.ret = "ok" => Entries(u.bl) = Entries(b)
  BY <1>2, <1>4, <1>5
<1> QED BY Zenon, <1>6 DEF r, c, u

\* logged is the length of the backlog in the result a of node_binlog_add, unless a
\* write() has failed.
Tallies(a) == a.fault # {"write"} => a.stats.logged = Entries(a.bl)

\* node_binlog_add counts what it stores, unless a write fails.
LEMMA StoreLogged ==
  ASSUME NEW b, b \in BinlogType, NEW s \in [logged : Int, dropped : Int], NEW e \in Event,
         NEW w, s.logged = Entries(b), WellFormed(b, 0), OlderThan(b, e, 0)
  PROVE  Tallies(node_binlog_add(b, s, e, w))
<1> DEFINE r == binlog_add(b, e, w)
           a == node_binlog_add(b, s, e, w)
<1>1. r.ret = "ok" => Entries(r.bl) = Entries(b) + 1
  BY Zenon, AddCounts
<1>2. r.ret = "enospc" => r.bl = b
  <2>1. Holds(b, e, r, 0)
    BY Zenon, Added
  <2> HIDE DEF r
  <2> QED BY <2>1 DEF Holds
<1> HIDE DEF r
<1>3. CASE r.ret = "ok"
  <2>1. a.bl = r.bl /\ a.stats = [s EXCEPT !.logged = s.logged + 1]
    BY <1>3 DEF node_binlog_add, r
  <2>2. a.stats.logged = s.logged + 1
    BY <2>1
  <2> HIDE DEF a
  <2> QED BY Zenon, <2>1, <2>2, <1>1, <1>3 DEF Tallies, a
<1>4. CASE r.ret = "enospc"
  <2>1. a.bl = r.bl /\ a.stats = s
    BY <1>4 DEF node_binlog_add, r
  <2> HIDE DEF a
  <2> QED BY Zenon, <2>1, <1>2, <1>4 DEF Tallies, a
<1>5. CASE r.ret # "ok" /\ r.ret # "enospc"
  <2>1. a.fault = {"write"}
    BY <1>5 DEF node_binlog_add, r
  <2> HIDE DEF a
  <2> QED BY Zenon, <2>1 DEF Tallies, a
<1> QED BY Zenon, <1>3, <1>4, <1>5

\* The call that stores its event brings logged up with the backlog.
LEMMA ReturnLogged ==
  ASSUME Queued(0), Logged, Without(Excuses(0)), Without(Excuses(0))',
         stats \in [logged : Int, dropped : Int], NEW e \in Event, OlderThan(bl, e, 0),
         StoreAndReturn(bl, stats, e)
  PROVE  Logged'
<1>w. PICK w \in Writes :
        /\ bl' = node_binlog_add(bl, stats, e, w).bl
        /\ stats' = node_binlog_add(bl, stats, e, w).stats
        /\ faults' = faults \cup node_binlog_add(bl, stats, e, w).fault
  BY Zenon DEF StoreAndReturn
<1> DEFINE a == node_binlog_add(bl, stats, e, w)
<1>1. a.fault # {"write"} => a.stats.logged = Entries(a.bl)
  <2>1. WellFormed(bl, 0) /\ bl \in BinlogType /\ stats.logged = Entries(bl)
    BY Zenon DEF Queued, WellFormed, Logged
  <2>2. Tallies(a)
    BY Zenon, <2>1, StoreLogged
  <2> QED BY Zenon, <2>2 DEF Tallies
<1>2. bl' = a.bl /\ stats' = a.stats /\ faults' = faults \cup a.fault
  BY Zenon, <1>w
<1> HIDE DEF a
<1>3. a.fault # {"write"}
  BY Zenon, <1>2 DEF Without, Excuses
<1> QED BY Zenon, <1>1, <1>2, <1>3 DEF Logged

\* A failed drain puts the event back, which was not counted off yet, and stores
\* that of the call.
LEMMA DrainFailsLogged ==
  ASSUME CallOk, Queued(0), Logged, Without(Excuses(0)), Without(Excuses(0))',
         stats \in [logged : Int, dropped : Int], DrainFails
  PROVE  Logged'
<1>w. PICK w \in Writes :
       LET r == binlog_read(bl)
           b == IF binlog_num_entries(r.bl) = 0 THEN binlog_wipe(r.bl, TRUE)
                ELSE r.bl
           u == binlog_unread(b, r.e, w)
           a == node_binlog_add(u.bl, stats, pkt, w)
           resend == {IF bl.cache = <<>> THEN "file_resend" ELSE "resend"}
       IN  \/ /\ u.ret = "ok" /\ bl' = a.bl /\ stats' = a.stats
              /\ faults' = faults \cup resend \cup a.fault
           \/ u.ret # "ok" /\ faults' = faults \cup resend \cup {"write"}
  BY Zenon DEF DrainFails
<1> DEFINE r == binlog_read(bl)
           b == IF binlog_num_entries(r.bl) = 0 THEN binlog_wipe(r.bl, TRUE) ELSE r.bl
           u == binlog_unread(b, r.e, w)
           a == node_binlog_add(u.bl, stats, pkt, w)
           resend == {IF bl.cache = <<>> THEN "file_resend" ELSE "resend"}
<1>1. \/ /\ u.ret = "ok" /\ bl' = a.bl /\ stats' = a.stats
         /\ faults' = faults \cup resend \cup a.fault
      \/ u.ret # "ok" /\ faults' = faults \cup resend \cup {"write"}
  BY Zenon, <1>w
<1>2. pc = "drain" /\ r.ret = "ok"
  BY Zenon DEF DrainFails
<1> HIDE DEF a, u
<1>3. "file_resend" \notin faults' /\ "write" \notin faults'
  BY Zenon DEF Without, Excuses
<1>4. bl.cache # <<>>
  BY Zenon, <1>1, <1>3
<1>5. /\ u.ret = "ok" /\ bl' = a.bl /\ stats' = a.stats
      /\ faults' = faults \cup resend \cup a.fault
  BY Zenon, <1>1, <1>3
<1>6. /\ WellFormed(u.bl, 0) /\ Contents(u.bl) = Contents(bl) /\ Entries(u.bl) = Entries(bl)
  <2>1. WellFormed(bl, 0)
    BY Zenon DEF Queued
  <2>2. WellFormed(u.bl, 0) /\ Contents(u.bl) = Contents(bl)
    BY Zenon, <2>1, <1>2, <1>4, <1>5, PutBack DEF u
  <2>3. Entries(u.bl) = Entries(bl)
    BY Zenon, <2>1, <1>2, <1>4, <1>5, PutBackCounts DEF u
  <2> QED BY Zenon, <2>2, <2>3
<1>7. pkt \in Event /\ OlderThan(u.bl, pkt, 0)
  <2>1. pkt \in Event /\ pkt.id = calls /\ calls \in Nat /\ pc # "idle"
    BY <1>2 DEF CallOk
  <2>2. Newest(0) = calls
    BY <2>1 DEF Newest
  <2> QED BY <2>1, <2>2, <1>6 DEF Queued, OlderThan
<1>8. u.bl \in BinlogType /\ stats.logged = Entries(u.bl)
  BY Zenon, <1>6 DEF WellFormed, Logged
<1>9. a.fault # {"write"} => a.stats.logged = Entries(a.bl)
  <2> DEFINE c == u.bl
  <2>1. a = node_binlog_add(c, stats, pkt, w)
    BY Zenon DEF a
  <2>2. /\ c \in BinlogType /\ stats.logged = Entries(c) /\ WellFormed(c, 0)
        /\ OlderThan(c, pkt, 0) /\ pkt \in Event
    BY Zenon, <1>6, <1>7, <1>8
  <2> HIDE DEF c
  <2>3. Tallies(a)
    BY Zenon, <2>1, <2>2, StoreLogged
  <2> QED BY Zenon, <2>3 DEF Tallies
<1>10. a.fault # {"write"}
  BY Zenon, <1>3, <1>5
<1> QED BY Zenon, <1>5, <1>9, <1>10 DEF Logged

LEMMA LoggedStep ==
  ASSUME IInv, InCounters, Logged, [Next]_vars
  PROVE  Logged'
<1> SUFFICES ASSUME Without(Excuses(0))' PROVE Logged'
  BY Zenon DEF Logged
<1>1. CallOk /\ Queued(0) /\ Without(Excuses(0)) /\ stats \in [logged : Int, dropped : Int]
  <2>1. CallOk /\ faults \subseteq faults' /\ stats \in [logged : Int, dropped : Int]
    BY Zenon, CallStep DEF IInv, InCounters
  <2>2. Without(Excuses(0))
    BY Zenon, <2>1 DEF Without
  <2> QED BY <2>1, <2>2 DEF IInv
<1>2. WellFormed(bl, 0) /\ stats.logged = Entries(bl) /\ Entries(bl) \in Int
  <2>1. 0 \in Nat
    OBVIOUS
  <2> QED BY Zenon, <2>1, <1>1, EntriesExact DEF Queued, Logged
<1>3. CASE Connect \/ node_disconnect \/ SendSucceeds \/ UNCHANGED vars
  <2>1. bl' = bl /\ stats' = stats
    BY Zenon, <1>3 DEF Connect, node_disconnect, SendSucceeds, vars
  <2> QED BY Zenon, <2>1, <1>2 DEF Logged
<1>4. ASSUME NEW len \in Lens, SendEventStores(len) PROVE Logged'
  <2> DEFINE e == [id |-> calls + 1, len |-> len]
  <2>1. pc = "idle" /\ StoreAndReturn(bl, stats, e)
    BY Zenon, <1>4 DEF SendEventStores, NewCall
  <2>2. e \in Event /\ e.id = calls + 1 /\ calls \in Nat
    BY <1>1, SendAssumption DEF Event, CallOk
  <2> HIDE DEF e
  <2>3. OlderThan(bl, e, 0)
    <3>1. Contents(bl) \subseteq 1 .. calls
      BY Zenon, <2>1, <1>1 DEF Queued, Newest
    <3> QED BY <3>1, <2>2 DEF OlderThan
  <2> QED BY Zenon, <2>1, <2>2, <2>3, <1>1, ReturnLogged
<1>5. ASSUME NEW len \in Lens, SendEventDrains(len) PROVE Logged'
  <2>1. bl' = bl /\ stats' = stats
    BY Zenon, <1>5 DEF SendEventDrains
  <2> QED BY Zenon, <2>1, <1>2 DEF Logged
<1>6. CASE SendAppends \/ SendFails
  <2>1. pc = "send" /\ StoreAndReturn(bl, stats, pkt)
    BY Zenon, <1>6 DEF SendAppends, SendFails
  <2>2. pkt \in Event /\ pkt.id = calls /\ calls \in Nat /\ pc # "idle"
    BY <2>1, <1>1 DEF CallOk
  <2>3. OlderThan(bl, pkt, 0)
    <3>1. Newest(0) = calls
      BY <2>2 DEF Newest
    <3>2. Contents(bl) \subseteq 1 .. calls
      BY Zenon, <3>1, <1>1 DEF Queued
    <3> QED BY <3>2, <2>2 DEF OlderThan
  <2> QED BY Zenon, <2>1, <2>2, <2>3, <1>1, ReturnLogged
<1>7. CASE DrainEnds
  <2>1. stats' = stats /\ (bl' = bl \/ (bl' = binlog_read(bl).bl /\ binlog_read(bl).ret # "ok"))
    BY Zenon, <1>7 DEF DrainEnds
  <2>2. 0 \in Nat
    OBVIOUS
  <2>3. Entries(bl') = Entries(bl)
    BY Zenon, <2>1, <2>2, <1>2, ReadCounts
  <2> QED BY Zenon, <2>1, <2>3, <1>2 DEF Logged
<1>8. CASE DrainCorrupt
  <2>1. 0 \in {0, 1}
    OBVIOUS
  <2> QED BY Zenon, <2>1, <1>1, <1>8, NeverCorrupt
<1>9. CASE DrainSends
  <2>1. /\ stats' = [stats EXCEPT !.logged = stats.logged - 1] /\ bl' = binlog_read(bl).bl
        /\ binlog_read(bl).ret = "ok"
    BY Zenon, <1>9 DEF DrainSends
  <2>2. 0 \in Nat
    OBVIOUS
  <2>3. Entries(bl') = Entries(bl) - 1
    BY Zenon, <2>1, <2>2, <1>2, ReadCounts
  <2>4. stats'.logged = stats.logged - 1
    BY Zenon, <2>1, <1>1
  <2> QED BY Zenon, <2>3, <2>4, <1>2 DEF Logged
<1>10. CASE DrainFails
  BY Zenon, <1>1, <1>10, DrainFailsLogged
<1> QED BY Zenon, <1>3, <1>4, <1>5, <1>6, <1>7, <1>8, <1>9, <1>10 DEF Next

\* The counters that the query handler reports are right between the calls of
\* node_send_event: logged is the length of the backlog until an event from the
\* file is put back or a write() fails, and every event of a call is counted until
\* the file is full or logged wraps.
THEOREM CountersRight == Spec => []EventsCounted
<1>1. Init => InCounters /\ Logged
  <2> SUFFICES ASSUME Init PROVE InCounters /\ Logged
    OBVIOUS
  <2>1. /\ sent \in Seq(Nat) /\ Len(sent) = 0 /\ calls = 0 /\ pc = "idle"
        /\ stats.logged = 0 /\ stats.dropped = 0 /\ stats \in [logged : Int, dropped : Int]
    BY DEF Init
  <2>2. InCounters
    BY <2>1 DEF InCounters
  <2>3. Entries(bl) = 0
    <3>1. 0 \in Nat
      OBVIOUS
    <3>2. WellFormed(bl, 0) /\ Contents(bl) = {}
      BY Zenon, <3>1, EmptyOk DEF Init
    <3> QED BY Zenon, <3>1, <3>2, NoContents
  <2> QED BY Zenon, <2>1, <2>2, <2>3 DEF Logged
<1>2. IInv /\ InCounters /\ Logged /\ [Next]_vars => (InCounters /\ Logged)'
  BY Zenon, CountersStep, LoggedStep
<1>3. IInv /\ InCounters /\ Logged => EventsCounted
  <2> SUFFICES ASSUME IInv, InCounters, Logged, pc = "idle"
               PROVE  /\ Without({"file_resend", "write"}) => stats.logged = binlog_num_entries(bl)
                      /\ Without({"full", "wrap"}) =>
                           calls <= Len(sent) + stats.logged + stats.dropped
    BY Zenon DEF EventsCounted
  <2>1. ASSUME Without({"file_resend", "write"}) PROVE stats.logged = binlog_num_entries(bl)
    <3>1. Without(Excuses(0)) /\ 0 \in Nat /\ 0 \in {0, 1}
      BY <2>1 DEF Excuses
    <3>2. stats.logged = Entries(bl) /\ WellFormed(bl, 0)
      BY Zenon, <3>1 DEF Logged, IInv, Queued
    <3> QED BY Zenon, <3>1, <3>2, EntriesExact
  <2>2. ASSUME Without({"full", "wrap"}) PROVE calls <= Len(sent) + stats.logged + stats.dropped
    <3>1. calls <= Len(sent) + stats.logged + stats.dropped + 0
      BY Zenon, <2>2 DEF InCounters
    <3>2. PICK S : sent \in Seq(S)
      BY Zenon DEF InCounters
    <3>3. Len(sent) \in Int /\ stats.logged \in Int /\ stats.dropped \in Int
      BY <3>2 DEF InCounters
    <3> QED BY <3>1, <3>3
  <2> QED BY Zenon, <2>1, <2>2
<1> QED BY <1>1, <1>2, <1>3, Invariance, PTL DEF Spec

\* When node_send_event sends the event of its call, nothing is stored that it
\* would overtake: binlog_num_entries is zero for an empty backlog only.
THEOREM NoneOvertaken == Spec => NoOvertaking
<1> DEFINE Goes == sent' # sent /\ pc = "send" /\ Without({"file_resend", "write"})
                     => Contents(bl) = {}
<1>1. IInv /\ [Next]_vars => [Goes]_vars
  <2> SUFFICES ASSUME IInv, [Next]_vars, sent' # sent, pc = "send",
                      Without({"file_resend", "write"})
               PROVE  Contents(bl) = {}
    OBVIOUS
  <2>1. binlog_num_entries(bl) = 0
    <3>1. pc # "drain" /\ pc # "idle"
      OBVIOUS
    <3> QED BY Zenon, <3>1 DEF Next, vars, SendEventStores, SendEventDrains, DrainEnds, DrainCorrupt,
                       DrainSends, DrainFails, SendAppends, SendSucceeds, SendFails, Connect,
                       node_disconnect
  <2>2. Without(Excuses(0)) /\ 0 \in Nat /\ 0 \in {0, 1}
    BY DEF Excuses
  <2>3. WellFormed(bl, 0)
    BY Zenon, <2>2 DEF IInv, Queued
  <2> QED BY Zenon, <2>1, <2>2, <2>3, NoEntries
<1> QED BY <1>1, Invariance, PTL DEF Spec, NoOvertaking

-----------------------------------------------------------------------------
(* BinlogQueue                                                             *)

\* The initial state satisfies the invariant, with nothing in the binlog.
LEMMA QueueInitOk == QueueInit => QueueInv /\ Contents(log) = {}
<1> SUFFICES ASSUME QueueInit PROVE QueueInv /\ Contents(log) = {}
  OBVIOUS
<1>2. WellFormed(log, 1) /\ Contents(log) = {}
  BY Zenon, EmptyOk DEF QueueInit
<1> QED BY <1>2 DEF QueueInit, QueueInv, QueueTypeOK, WellFormed, Bounds, HeldFitsBack, HeldWasAdded

\* Every step keeps the invariant and is a step of the abstract queue.
LEMMA QueueStepOk == QueueInv /\ [QueueNext]_queueVars => QueueInv' /\ [Queue!Next]_(Queue!vars)
<1> SUFFICES ASSUME QueueInv, [QueueNext]_queueVars PROVE QueueInv' /\ [Queue!Next]_(Queue!vars)
  OBVIOUS
<1> USE DEF Queue!vars
<1>i. WellFormed(log, 1) /\ added \in Nat /\ held \in Event \cup {NoEvent} /\ Bounds
  BY DEF QueueInv, QueueTypeOK
<1>0. 0 \in Nat /\ 1 \in Nat /\ NoEvent.id = 0
  BY DEF NoEvent
<1>1. ASSUME NEW len \in AddLens, Add(len) PROVE QueueInv' /\ [Queue!Next]_(Queue!vars)
  <2> DEFINE e == [id |-> added + 1, len |-> len]
  <2>1. e \in Event /\ e.id = added + 1
    BY <1>i, QueueAssumption DEF Event
  <2>2. OlderThan(log, e, 1)
    BY <1>i, <2>1 DEF OlderThan, Bounds
  <2>3. log' = binlog_add(log, e, "ok").bl /\ added' = added + 1 /\ held' = NoEvent
    BY <1>1 DEF Add
  <2>4. WellFormed(log', 1) /\ Contents(log') \in {Contents(log), Contents(log) \cup {added + 1}}
    <3>1. /\ Holds(log, e, binlog_add(log, e, "ok"), 1)
          /\ binlog_add(log, e, "ok").ret # "error"
      BY Zenon, <2>1, <2>2, <1>i, <1>0, Added
    <3> QED BY <3>1, <2>1, <2>3, <1>i DEF Holds
  <2>5. QueueInv'
    <3>1. added' \in Nat
      BY <2>3, <1>i
    <3>2. Bounds'
      BY <2>3, <2>4, <1>i, <1>0 DEF Bounds
    <3> QED BY Zenon, <2>3, <2>4, <3>1, <3>2 DEF QueueInv, QueueTypeOK, WellFormed, HeldFitsBack, HeldWasAdded
  <2>6. Queue!Put \/ Queue!Refuse
    BY Zenon, <2>3, <2>4, <1>0 DEF Queue!Put, Queue!Refuse
  <2> QED BY <2>5, <2>6 DEF Queue!Next
<1>2. ASSUME Read PROVE QueueInv' /\ [Queue!Next]_(Queue!vars)
  <2>1. log' = binlog_read(log).bl /\ held' = binlog_read(log).e /\ added' = added
    BY <1>2 DEF Read
  <2>2. WellFormed(log', 1) /\ ReadsOldest(log, log', held', 1)
    BY Zenon, <2>1, <1>i, ReadOk
  <2>3. CASE held' = NoEvent /\ Contents(log) = {} /\ Contents(log') = {}
    <3>1. QueueInv'
      BY Zenon, <2>1, <2>2, <2>3, <1>i DEF QueueInv, QueueTypeOK, WellFormed, HeldFitsBack, HeldWasAdded, Bounds
    <3>2. Queue!GetNothing
      BY Zenon, <2>1, <2>3, <1>0 DEF Queue!GetNothing
    <3> QED BY Zenon, <3>1, <3>2 DEF Queue!Next
  <2>4. CASE /\ held' \in Event
             /\ Contents(log) = Contents(log') \cup {held'.id}
             /\ \A n \in Contents(log') : held'.id + 1 <= n
             /\ log'.file_read_pos = 0 => (log'.read_index >= 1 \/ log'.cache = <<>>)
    <3>0. held'.id \in 1 .. added /\ \A n \in Contents(log') : n \in 1 .. added /\ held'.id < n
      <4> DEFINE x == held'.id
      <4>1. /\ x \in Contents(log) /\ Contents(log') \subseteq Contents(log)
            /\ \A n \in Contents(log') : x + 1 <= n
        BY Zenon, <2>4
      <4>2. Contents(log) \subseteq 1 .. added
        BY Zenon, <1>i DEF Bounds
      <4> HIDE DEF x
      <4>3. x \in Int /\ \A n \in Contents(log') : n \in Int /\ x + 1 <= n
        BY Zenon, <4>1, <4>2, RangeInt
      <4>4. \A n \in Contents(log') : x < n
        BY <4>3
      <4> QED BY Zenon, <4>1, <4>2, <4>4 DEF x
    <3>1. QueueInv'
      BY Zenon, <2>1, <2>2, <2>4, <3>0, <1>i
         DEF QueueInv, QueueTypeOK, WellFormed, HeldFitsBack, HeldWasAdded, Bounds
    <3>2. held'.id \in Contents(log) /\ \A m \in Contents(log) : held'.id <= m
      BY <2>4, <3>0
    <3>4. Contents(log') = Contents(log) \ {held'.id}
      BY <2>4, <3>0
    <3>3. Queue!Get
      BY <2>1, <3>2, <3>4 DEF Queue!Get
    <3> QED BY <3>1, <3>3, SMTT(30) DEF Queue!Next
  <2> QED BY <2>2, <2>3, <2>4 DEF ReadsOldest
<1>3. ASSUME UnreadHeld PROVE QueueInv' /\ [Queue!Next]_(Queue!vars)
  <2>1. /\ log' = binlog_unread(log, held, "ok").bl /\ held' = NoEvent /\ added' = added
        /\ held # NoEvent /\ log.file_read_pos = 0 /\ held \in Event
    BY <1>3, <1>i DEF UnreadHeld
  <2>2. log.read_index >= 1 \/ log.cache = <<>>
    BY <2>1 DEF QueueInv, HeldFitsBack
  <2>3. WellFormed(log', 1) /\ Contents(log') \in {Contents(log), Contents(log) \cup {held.id}}
    <3>1. \A n \in Contents(log) : held.id + 1 <= n
      BY <2>1, <1>i, SMTT(30) DEF Bounds, Event
    <3>2. /\ Holds(log, held, binlog_unread(log, held, "ok"), 1)
          /\ binlog_unread(log, held, "ok").ret # "error"
      BY Zenon, <2>1, <2>2, <3>1, <1>i, <1>0, UnreadOk
    <3> QED BY <3>2, <2>1, <1>i DEF Holds
  <2>4. held.id \in 1 .. added
    BY Zenon, <2>1 DEF QueueInv, HeldWasAdded
  <2>5. QueueInv'
    <3>1. Bounds'
      BY <2>1, <2>3, <2>4, <1>i, <1>0 DEF Bounds
    <3> QED BY Zenon, <2>1, <2>3, <3>1, <1>i DEF QueueInv, QueueTypeOK, WellFormed, HeldFitsBack, HeldWasAdded
  <2>6. Queue!PutBack
    <3>1. held.id # 0
      BY <2>4
    <3>2. held'.id = 0
      BY Zenon, <2>1, <1>0
    <3> QED BY Zenon, <2>1, <2>3, <3>1, <3>2 DEF Queue!PutBack
  <2> QED BY <2>5, <2>6 DEF Queue!Next
<1>4. ASSUME Wipe PROVE QueueInv' /\ [Queue!Next]_(Queue!vars)
  <2>1. /\ log' = [binlog_create EXCEPT !.save_path = FALSE, !.file = EmptyFile]
        /\ held' = NoEvent /\ added' = added
    BY <1>4 DEF Wipe, binlog_wipe
  <2>2. WellFormed(log', 1) /\ Contents(log') = {}
    BY <2>1, EmptyOk
  <2>3. QueueInv'
    BY Zenon, <2>1, <2>2, <1>i DEF QueueInv, QueueTypeOK, WellFormed, HeldFitsBack, HeldWasAdded, Bounds
  <2>4. Queue!Clear
    BY Zenon, <2>1, <2>2, <1>0 DEF Queue!Clear
  <2> QED BY <2>3, <2>4 DEF Queue!Next
<1>5. CASE UNCHANGED queueVars
  BY <1>5 DEF queueVars, QueueInv, QueueTypeOK, WellFormed, HeldFitsBack, HeldWasAdded, Bounds
<1> QED BY <1>1, <1>2, <1>3, <1>4, <1>5 DEF QueueNext

\* The inductive invariant holds throughout.
THEOREM QueueInvariance == QueueSpec => []QueueInv
<1>1. QueueInit => QueueInv
  BY QueueInitOk
<1>2. QueueInv /\ [QueueNext]_queueVars => QueueInv'
  BY Zenon, QueueStepOk
<1> QED BY <1>1, <1>2, PTL DEF QueueSpec

\* The fields of struct binlog keep the values their types allow.
THEOREM TypeCorrect == QueueSpec => []QueueTypeOK
<1>1. QueueInv => QueueTypeOK
  BY Zenon DEF QueueInv
<1> QED BY <1>1, QueueInvariance, PTL

\* Reading the memory and then the file returns the events in the order in
\* which binlog_add was called with them.
THEOREM OrderKept == QueueSpec => []SequentialOrder
<1>1. QueueInv => SequentialOrder
  <2> SUFFICES ASSUME QueueInv PROVE Sequential(log)
    BY DEF SequentialOrder
  <2>1. /\ log.cache \in Seq(Event) /\ log.file.recs \subseteq Record /\ Ordered(log, 1)
        /\ Unread(log) \subseteq log.file.recs
    BY DEF QueueInv, WellFormed, BinlogType, Unread
  <2>2. \A i \in DOMAIN log.cache : log.cache[i].id \in Nat
    <3>1. \A i \in DOMAIN log.cache : log.cache[i] \in Event
      BY <2>1
    <3> QED BY <3>1 DEF Event
  <2>3. \A r \in Unread(log) : r.id \in Nat
    BY <2>1 DEF Record
  <2> QED BY <2>1, <2>2, <2>3 DEF Ordered, Sequential
<1> QED BY <1>1, QueueInvariance, PTL

\* The offsets in struct binlog describe the file on disk.
THEOREM FileMatches == QueueSpec => []CountersMatchFile
<1>1. QueueInv => CountersMatchFile
  BY DEF QueueInv, WellFormed, CountersMatchFile
<1> QED BY <1>1, QueueInvariance, PTL

\* binlog_num_entries is the number of events reading returns.
THEOREM CountExact == QueueSpec => []EntriesCounted
<1>1. QueueInv => EntriesCounted
  BY EntriesAreUnread DEF QueueInv, EntriesCounted
<1> QED BY <1>1, QueueInvariance, PTL

\* The memory and the file of a binlog implement one first-in first-out
\* queue: every function of binlog.c that the caller may use is a step of
\* EventQueue.
THEOREM Refinement == QueueSpec => ImplementsQueue
<1>1. QueueInit => Queue!Init
  BY QueueInitOk DEF QueueInit, Queue!Init, NoEvent
<1>2. QueueInv /\ [QueueNext]_queueVars => [Queue!Next]_(Queue!vars)
  BY QueueStepOk
<1> QED BY <1>1, <1>2, QueueInvariance, PTL DEF QueueSpec, Queue!Spec, ImplementsQueue
=============================================================================
