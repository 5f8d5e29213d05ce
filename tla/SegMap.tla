------------------------------- MODULE SegMap -------------------------------
(***************************************************************************)
(* The segment map of ll_ifc_ftp.c at the level of its words: rx_segs is   *)
(* an array of words of WordBits bits, one bit per segment, and the field  *)
(* after it in struct ll_ftp is file_id. FtpClient works with the set of   *)
(* the segments received; this module says how far the words behave like   *)
(* that set.                                                               *)
(*                                                                         *)
(* A word is the set of the positions of its one-bits; word NumWords is    *)
(* file_id, which an index one past the array reaches.                     *)
(***************************************************************************)
EXTENDS Integers, Sequences, FiniteSets

CONSTANTS
    WordBits,       \* 32
    NumWords,       \* NUM_RX_SEGS_BITMASK
    MaxRetrySegs,   \* MAX_NUM_RETRY_SEGS
    FileIdBits      \* the one-bits of the file's id

ASSUME WordsAssumption ==
    /\ WordBits \in Nat \ {0}
    /\ NumWords \in Nat \ {0}
    /\ MaxRetrySegs \in Nat \ {0}
    /\ FileIdBits \subseteq 0 .. WordBits - 1

MaxSegments == WordBits * NumWords      \* MAX_NUM_SEGMENTS
Bits == 0 .. WordBits - 1

VARIABLES
    words,      \* f->rx_segs, with f->file_id after it
    num_segs,   \* f->num_segs
    received    \* history: the segments tracked since the map was cleared

vars == <<words, num_segs, received>>

-----------------------------------------------------------------------------
(* The functions of the source, on the words w of a file of n segments. *)

\* Wrong on purpose: words of one bit more.
BaseOfWiderWord(n) == n \div (WordBits + 1)
BitOfWiderWord(n) == n % (WordBits + 1)

Base(n) == n \div WordBits
BitOf(n) == n % WordBits

\* ll_ftp_seg_num_track
TrackGuard(n) == MaxSegments >= n
Track(w, n) ==
    IF TrackGuard(n) THEN [w EXCEPT ![Base(n)] = @ \cup {BitOf(n)}] ELSE w

\* Wrong on purpose: one bit too many of the last word.
BitsOfWordOneMore(n, i) == IF i # Base(n) THEN Bits ELSE {j \in Bits : j <= BitOf(n)}

\* The bits of word i that stand for segments: all, or in the last word
\* num_segs mod WordBits of them.
BitsOfWord(n, i) == IF i # Base(n) THEN Bits ELSE {j \in Bits : j < BitOf(n)}

\* ll_ftp_transfer_is_complete
TransferIsComplete(w, n) ==
    \A i \in 0 .. Base(n) : BitsOfWord(n, i) \subseteq w[i]

\* Wrong on purpose: the last word, which is used in part, is left out.
ZeroBitsOfFullWords(w, n) ==
    UNION {{i * WordBits + j : j \in BitsOfWord(n, i) \ w[i]} : i \in 0 .. Base(n) - 1}

\* The segments whose bit is zero, by word and bit.
ZeroBits(w, n) ==
    UNION {{i * WordBits + j : j \in BitsOfWord(n, i) \ w[i]} : i \in 0 .. Base(n)}

\* The order of the two loops of ll_ftp_get_missing_segs.
Ascending(S) ==
    [k \in 1 .. Cardinality(S) |->
        CHOOSE m \in S : Cardinality({l \in S : l < m}) = k - 1]

\* ll_ftp_get_missing_segs with fill_buf: 0xFFFF, here MaxSegments + 1, if the
\* buffer's MaxRetrySegs places do not suffice.
Overflow == MaxSegments + 1
MissingCount(w, n) ==
    IF Cardinality(ZeroBits(w, n)) > MaxRetrySegs THEN Overflow
                                                  ELSE Cardinality(ZeroBits(w, n))

\* ll_ftp_ack_segs_request_generate
SegsRequest(w, n) ==
    IF MissingCount(w, n) >= MaxRetrySegs
    THEN [ack |-> "NAK", list |-> <<>>]
    ELSE [ack |-> "NAK_SEGMENT", list |-> Ascending(ZeroBits(w, n))]

\* Wrong on purpose: the count is the one that is cut off at the buffer.
NumMissingSegsCutOff(w, n) ==
    IF n = 0 \/ n > MaxSegments THEN -1 ELSE MissingCount(w, n)

\* ll_ftp_num_missing_segs_get; the count it returns is not cut off.
NumMissingSegsGet(w, n) ==
    IF n = 0 \/ n > MaxSegments THEN -1 ELSE Cardinality(ZeroBits(w, n))

-----------------------------------------------------------------------------

Cleared == [i \in 0 .. NumWords |-> IF i = NumWords THEN FileIdBits ELSE {}]

\* ll_ftp_new_file_initialize, for a file the map has room for.
NewFile(n) ==
    /\ words' = Cleared
    /\ num_segs' = n
    /\ received' = {}

\* The map is cleared after a failed verification, the file stays.
Restart ==
    /\ words' = [i \in 0 .. NumWords |-> IF i = NumWords THEN words[i] ELSE {}]
    /\ received' = {}
    /\ UNCHANGED num_segs

\* A segment of the file in progress was written.
Segment(n) ==
    /\ words' = Track(words, n)
    /\ received' = received \cup {n}
    /\ UNCHANGED num_segs

Init ==
    /\ words = Cleared
    /\ num_segs = 0
    /\ received = {}

\* A message may carry the number MaxSegments too.
Next ==
    \/ \E n \in 0 .. MaxSegments : NewFile(n)
    \/ Restart
    \/ \E n \in 0 .. MaxSegments : Segment(n)

Spec == Init /\ [][Next]_vars

-----------------------------------------------------------------------------
(* Properties *)

\* A word, the field after the array included, holds bits of its width only; the
\* number of segments is one the array has room for.
TypeOK ==
    /\ words \in [0 .. NumWords -> SUBSET Bits]
    /\ num_segs \in 0 .. MaxSegments
    /\ received \subseteq 0 .. MaxSegments

FileSegs == 0 .. num_segs - 1
StillMissing == FileSegs \ received

\* The bit of a segment is set exactly if the segment was tracked: no two
\* segments share a bit.
MapIsReceived ==
    \A n \in 0 .. MaxSegments - 1 : BitOf(n) \in words[Base(n)] <=> n \in received

\* The word-wise test for completeness says what it should, at every number of
\* segments, multiples of the word size included.
CompleteIsExact == TransferIsComplete(words, num_segs) <=> FileSegs \subseteq received

\* The request sent to the server lists the missing segments, each once and in
\* order, and fits its buffer; or it asks for the whole file, and then the
\* missing segments would at least fill the buffer.
RequestIsExact ==
    LET r == SegsRequest(words, num_segs) IN
    IF r.ack = "NAK"
    THEN Cardinality(StillMissing) >= MaxRetrySegs
    ELSE /\ {r.list[k] : k \in DOMAIN r.list} = StillMissing
         /\ Len(r.list) = Cardinality(StillMissing)
         /\ Len(r.list) <= MaxRetrySegs
         /\ \A k \in 2 .. Len(r.list) : r.list[k - 1] < r.list[k]

\* The number of outstanding segments an application is told
\* (ll_ftp_num_missing_segs_get) is theirs, or -1 without a file.
CountIsExact ==
    NumMissingSegsGet(words, num_segs) =
        IF num_segs = 0 THEN -1 ELSE Cardinality(StillMissing)

\* Tracking a segment updates the segments cache array (the comment above
\* ll_ftp_seg_num_track) and nothing else: the file keeps its id.
OnlyTheMapChanges == words[NumWords] = FileIdBits
=============================================================================
