------------------------------- MODULE Lparse -------------------------------
(***************************************************************************)
(* How the log tools read a file line by line (tools/lparse.c): in blocks  *)
(* of MAX_BUF bytes, forwards or backwards, where a block seldom ends at   *)
(* the end of a line.  A byte is a newline or something else; a line is    *)
(* the pair of its first and its last position.  Empty lines are passed to *)
(* callbacks that ignore them, and are left out.  Lines are shorter than   *)
(* the buffer of 512 kilobytes: a longer one makes lparse_fd look for a    *)
(* newline before its buffer, and lparse_rev_fd read one block for ever.   *)
(***************************************************************************)
EXTENDS Integers, Sequences, SequencesExt, FiniteSetsExt

CONSTANTS
    MAX_BUF,   \* size of the buffer
    MaxSize,   \* bound on the size of the file
    MaxGrowth  \* bound on what Naemon appends after the size was looked up

VARIABLES
    bytes,   \* the file, as Naemon leaves it: TRUE for a newline
    size,    \* its size when the tool looked
    rev,     \* is it read backwards?
    tot_rd,  \* bytes read and parsed so far
    reads,   \* number of reads so far
    parsed   \* lines passed to the callback

vars == <<bytes, size, rev, tot_rd, reads, parsed>>

\* The lines between two positions of the file, in order.
Lines(from, to) ==
    LET starts == {i \in from + 1 .. to : ~bytes[i] /\ (i = from + 1 \/ bytes[i - 1])}
        End(i) == Min({j \in i .. to : j = to \/ bytes[j + 1]})
    IN  [k \in 1 .. Cardinality(starts) |->
            LET i == CHOOSE s \in starts : Cardinality({r \in starts : r <= s}) = k
            IN  <<i, End(i)>>]

\* A line and its newline leave room for the newline before it.
Fits(b) == \A i \in 0 .. Len(b) - MAX_BUF + 1 : \E j \in i + 1 .. i + MAX_BUF - 1 : b[j]

Init ==
    /\ bytes \in {b \in UNION {[1 .. n -> BOOLEAN] : n \in 1 .. MaxSize + MaxGrowth} : Fits(b)}
    /\ size \in 1 .. MaxSize
    /\ size \in Len(bytes) - MaxGrowth .. Len(bytes)
    /\ size < Len(bytes) => bytes[size] \* Naemon appends whole lines
    /\ rev \in BOOLEAN
    /\ tot_rd = 0 /\ reads = 0 /\ parsed = << >>

-----------------------------------------------------------------------------

\* Mutant: a line that the block ends in is taken as whole.
Rewound_Not(read) == read

\* A block that does not reach the end of the file is cut at its last newline.
Rewound(read) ==
    IF read >= size THEN read
    ELSE Max({k \in tot_rd + 1 .. read : bytes[k]})

\* One round of lparse_fd.  It reads as much as fits, so the last block may
\* have lines that were appended since.
lparse_fd ==
    /\ ~rev /\ tot_rd < size
    /\ LET read == Min({tot_rd + Min({MAX_BUF, size}), Len(bytes)})
       IN  /\ tot_rd' = Rewound(read)
           /\ parsed' = parsed \o Lines(tot_rd, Rewound(read))
    /\ reads' = reads + 1
    /\ UNCHANGED <<bytes, size, rev>>

\* Mutant: the line that the block starts in is parsed at once.
First_Here(start) == start

\* A block that does not start the file begins after its first newline.
First(start) ==
    IF start = 0 THEN 0
    ELSE Min({k \in start + 1 .. size - tot_rd : bytes[k]})

\* One round of lparse_rev_fd: the block before those read.
lparse_rev_fd ==
    /\ rev /\ tot_rd < size
    /\ LET start == size - tot_rd - Min({MAX_BUF, size - tot_rd})
       IN  /\ tot_rd' = size - First(start)
           /\ parsed' = parsed \o Reverse(Lines(First(start), size - tot_rd))
    /\ reads' = reads + 1
    /\ UNCHANGED <<bytes, size, rev>>

Next == lparse_fd \/ lparse_rev_fd

Spec == Init /\ [][Next]_vars

-----------------------------------------------------------------------------
(* Properties *)

\* Each line of the file is parsed once and whole, in order or in reverse order,
\* however the blocks fall on the lines (lparse.c lparse_fd, lparse_rev_fd), and
\* each read gets further.  Forwards, lines that were appended may follow.
LinesOnce ==
    /\ reads <= tot_rd
    /\ tot_rd >= size =>
           IF rev THEN parsed = Reverse(Lines(0, size))
           ELSE IsPrefix(Lines(0, size), parsed) /\ (Len(bytes) = size => parsed = Lines(0, size))

=============================================================================
