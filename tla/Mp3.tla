-------------------------------- MODULE Mp3 --------------------------------
(***************************************************************************)
(* The format plugin for MP3 and other streams without a container         *)
(* (format_mp3.c) with metadata in the shoutcast style: a block with the   *)
(* title after every icy-metaint bytes of the stream.  mp3_get_filter_meta *)
(* takes the blocks out of what the source sends and attaches the title to *)
(* the buffers of the queue; format_mp3_write_buf_to_client puts blocks    *)
(* into what a listener gets, at the listener's own interval, while the    *)
(* socket takes only some of the bytes each time.                          *)
(*                                                                         *)
(* A source sends MetaInt bytes, a block, and so on.  Bytes of the stream  *)
(* are numbered; a block is its text and its length in units of 16 bytes.  *)
(* The texts of metadata are model values or strings, the buffers that     *)
(* hold them are numbers, as pointers to them are compared.  One listener: *)
(* it has its own position, and changes nothing that others see.           *)
(***************************************************************************)
EXTENDS Integers, Sequences, FiniteSets, SequencesExt

CONSTANTS
    Mp3Streams,       \* what sources may send: sequences of blocks
    MetaInt,          \* icy-metaint of the source
    Interval,         \* icy-metaint that the listener was told, 0 for none
    Unit,             \* the unit of the length of a block, 16
    BufSize,          \* REFBUF_SIZE
    IntroSize,        \* the bytes of the intro that the listener gets first
    MaxUpdates        \* bound on the titles that are set by other means

ASSUME Mp3Assumption ==
    /\ MetaInt \in Nat \ {0} /\ Interval \in Nat /\ Unit \in Nat \ {0}
    /\ BufSize \in Nat \ {0} /\ IntroSize \in Nat /\ MaxUpdates \in Nat

(* A stream is a sequence of blocks, the length of a text is a natural.    *)
ASSUME BlocksAssumption ==
    \A s \in Mp3Streams :
        /\ Len(s) \in Nat /\ DOMAIN s = 1 .. Len(s)
        /\ \A b \in 1 .. Len(s) : s[b].units \in Nat

VARIABLES
    blocks,       \* the blocks of this source's stream
    taken,        \* the number of its bytes that were read
    readData,     \* source_mp3->read_data
    work,         \* what mp3_get_filter_meta has not looked at yet
    kept,         \* what it has kept, the buffer to be
    filtering,    \* is it at work?
    offset,       \* source_mp3->offset
    build,        \* build_metadata, its length and its offset
    metas,        \* the buffers with metadata there were
    metadata,     \* source_mp3->metadata
    update,       \* source_mp3->update_metadata
    updates,      \* how often it was set
    queue,        \* the buffers for the listener, its intro first
    stopped,      \* did the plugin end the source?
    client,       \* the listener, a client_t with its mp3_client_data
    torn          \* see Mp3Faithful

mp3Vars == <<blocks, taken, readData, work, kept, filtering, offset, build, metas,
             metadata, update, updates, queue, stopped, client, torn>>
sourceReads == <<blocks, taken, readData>>
listenerVars == <<client, torn>>

(* The length of a block: a byte that says how long, and the text. *)
BlockLen(units) == 1 + Unit * units

(* The bytes of the source: of the stream, or of a block (its length first) *)
BytesOf(b) ==
    [i \in 1 .. MetaInt |-> [data |-> TRUE, no |-> (b - 1) * MetaInt + i]]
    \o [i \in 1 .. BlockLen(blocks[b].units) |-> [data |-> FALSE, no |-> b]]
BytesTo(b) == FlattenSeq([i \in 1 .. b |-> BytesOf(i)])
SourceBytes == BytesTo(Len(blocks))

Intro == [data |-> [i \in 1 .. IntroSize |-> [data |-> TRUE, no |-> i - IntroSize]],
          meta |-> 0]

(* The length of metadata buffer m; 0 is the blank block for buffers that  *)
(* have no metadata.                                                       *)
MetaLen(m) == BlockLen(IF m = 0 THEN 1 ELSE metas[m].units)

(* format_mp3_create_client_data; begun is the metadata of a block that    *)
(* was sent in part.                                                       *)
NewClient == [at |-> 1, pos |-> 0, since |-> 0, inMeta |-> FALSE,
              metaOffset |-> 0, begun |-> 0, associated |-> 0, got |-> <<>>]

Mp3Init ==
    /\ blocks \in Mp3Streams /\ taken = 0 /\ readData = <<>>
    /\ work = <<>> /\ kept = <<>> /\ filtering = FALSE /\ offset = 0
    /\ build = [no |-> 0, len |-> 0, offset |-> 0]
    /\ metas = <<[text |-> "", units |-> 1]>> /\ metadata = 1
    /\ update = FALSE /\ updates = 0
    /\ queue = <<Intro>> /\ stopped = FALSE
    /\ client = NewClient
    /\ torn = FALSE

----------------------------------------------------------------------------
(* The source. *)

(* mp3_set_tag, by an admin request. *)
SetTag ==
    /\ updates < MaxUpdates /\ update' = TRUE /\ updates' = updates + 1
    /\ UNCHANGED <<sourceReads, work, kept, filtering, offset, build, metas,
                   metadata, queue, stopped, listenerVars>>

(* mp3_set_title: a new buffer, unless the title is too long. *)
SetTitle ==
    \/ /\ update /\ update' = FALSE
       /\ metas' = Append(metas, [text |-> "set", units |-> 1])
       /\ metadata' = Len(metas) + 1
    \/ update /\ update' = FALSE /\ UNCHANGED <<metas, metadata>>
    \/ ~update /\ UNCHANGED <<update, metas, metadata>>

(* complete_read: buffers are filled before anything is done with them.    *)
CompleteRead(n) ==
    /\ ~filtering /\ ~stopped
    /\ n <= BufSize - Len(readData) /\ taken + n <= Len(SourceBytes)
    /\ taken' = taken + n
    /\ LET all == readData \o SubSeq(SourceBytes, taken + 1, taken + n)
       IN  IF Len(all) < BufSize
           THEN /\ readData' = all
                /\ UNCHANGED <<work, kept, filtering, metas, metadata, update>>
           ELSE /\ readData' = <<>> /\ work' = all /\ kept' = <<>>
                /\ filtering' = TRUE /\ SetTitle
    /\ UNCHANGED <<blocks, offset, build, updates, queue, stopped, listenerVars>>

MetaBlock == MetaInt - offset

(* Stream up to the next metadata, or all. *)
FilterStream ==
    LET n == IF Len(work) <= MetaBlock THEN Len(work) ELSE MetaBlock
    IN  /\ filtering /\ work # <<>> /\ MetaBlock > 0
        /\ kept' = kept \o SubSeq(work, 1, n)
        /\ work' = SubSeq(work, n + 1, Len(work))
        /\ offset' = offset + n
        /\ UNCHANGED <<sourceReads, filtering, build, metas, metadata, update,
                       updates, queue, stopped, listenerVars>>

(* A length byte.  A byte of the stream in its place could say anything.   *)
Started ==
    IF build.len # 0 THEN build
    ELSE [no |-> Head(work).no, offset |-> 0,
          len |-> BlockLen(IF Head(work).data THEN 1 ELSE blocks[Head(work).no].units)]
Missing == Started.len - Started.offset

FilterPart ==
    /\ filtering /\ work # <<>> /\ MetaBlock = 0 /\ Len(work) < Missing
    /\ build' = [Started EXCEPT !.offset = @ + Len(work)] /\ work' = <<>>
    /\ UNCHANGED <<sourceReads, kept, filtering, offset, metas, metadata, update,
                   updates, queue, stopped, listenerVars>>

(* The end of a block: its text is the new metadata if it has one and it   *)
(* is another.  A text that is no title ends the stream.                   *)
FilterBlock ==
    LET text == blocks[Started.no].text
        news == Started.len > 1 /\ text # metas[metadata].text
    IN  /\ filtering /\ work # <<>> /\ MetaBlock = 0 /\ Len(work) >= Missing
        /\ work' = SubSeq(work, Missing + 1, Len(work))
        /\ IF news /\ text = "wrong"
           THEN stopped' = TRUE /\ filtering' = FALSE
                /\ UNCHANGED <<offset, build, metas, metadata>>
           ELSE /\ offset' = 0
                /\ build' = [Started EXCEPT !.len = 0]
                /\ metas' = IF news THEN Append(metas, blocks[Started.no]) ELSE metas
                /\ metadata' = IF news THEN Len(metas) + 1 ELSE metadata
                /\ UNCHANGED <<stopped, filtering>>
        /\ UNCHANGED <<sourceReads, kept, update, updates, queue, listenerVars>>

(* The buffer goes to the queue unless it was all metadata. *)
FilterDone ==
    /\ filtering /\ work = <<>> /\ filtering' = FALSE
    /\ queue' = IF kept = <<>> THEN queue
                ELSE Append(queue, [data |-> kept, meta |-> metadata])
    /\ UNCHANGED <<sourceReads, work, kept, offset, build, metas, metadata, update,
                   updates, stopped, listenerVars>>

----------------------------------------------------------------------------
(* The listener.  A send is a record: the client, the bytes that its       *)
(* socket still takes, and whether it took less than it was given.         *)

Least(a, b) == IF a < b THEN a ELSE b

(* client_send_bytes of n bytes of the stream. *)
SendData(s, n) ==
    LET k == Least(n, s.left)
        c == s.client
    IN  [client |-> [c EXCEPT !.pos = @ + k, !.since = @ + k,
                        !.got = @ \o SubSeq(queue[c.at].data, c.pos + 1, c.pos + k)],
         left |-> s.left - k, full |-> k < n]

(* Bytes of metadata buffer m in what a listener gets. *)
MetaBytes(m, from, to) == [i \in 1 .. to - from + 1 |->
                             [data |-> FALSE, meta |-> m, byte |-> from + i - 1]]
ZeroByte(m) == <<[data |-> FALSE, meta |-> m, byte |-> 0]>>

(* Mutant: a block that was cut off is sent again from its beginning. *)
ResumeAtStart(c) == 1

(* The byte of a block that is sent next. *)
ResumeAt(c) == c.metaOffset + 1

(* send_stream_metadata: the block of the buffer's metadata, or what is    *)
(* left of it, or a zero if the listener has had it.                       *)
SendMeta(s) ==
    LET c == s.client
        m == queue[c.at].meta
        bytes == IF m = 0 \/ m # c.associated
                 THEN MetaBytes(m, ResumeAt(c), MetaLen(m)) ELSE ZeroByte(m)
        k == Least(Len(bytes), s.left)
        sent == [c EXCEPT !.got = @ \o SubSeq(bytes, 1, k)]
    IN  [client |-> IF k = Len(bytes)
                    THEN [sent EXCEPT !.associated = m, !.metaOffset = 0,
                                      !.inMeta = FALSE, !.since = 0]
                    ELSE [sent EXCEPT !.metaOffset = @ + k, !.begun = m, !.inMeta = TRUE],
         left |-> s.left - k, full |-> k < Len(bytes)]

(* format_mp3_write_buf_to_client: metadata that is under way, the stream  *)
(* up to the next metadata and that, and some of the stream after it.      *)
Written(c, left) ==
    LET len == Len(queue[c.at].data) - c.pos
        start == [client |-> c, left |-> left, full |-> FALSE]
        first == IF c.inMeta THEN SendMeta(start) ELSE start
        remaining == Interval - first.client.since
        second == SendData(first, remaining)
        third == SendMeta(second)
    IN  IF first.full THEN first
        ELSE IF Interval = 0 \/ remaining > len THEN SendData(first, len)
        ELSE IF second.full THEN second
        ELSE IF third.full THEN third
        ELSE SendData(third, Least(len - remaining, Interval))

(* format_advance_queue, or format_check_file_buffer at the end of the     *)
(* intro.                                                                  *)
Exhausted(c) == c.pos = Len(queue[c.at].data)
Advanced(c) == IF Exhausted(c) THEN [c EXCEPT !.at = @ + 1, !.pos = 0] ELSE c

(* A block of which some was sent is to be continued at another buffer.    *)
Tears(c) == c.inMeta /\ c.metaOffset > 0 /\ queue[c.at].meta # c.begun

WriteToClient(left) ==
    /\ ~torn /\ (Exhausted(client) => client.at < Len(queue))
    /\ LET c == Advanced(client)
       IN  IF Tears(c) THEN torn' = TRUE /\ UNCHANGED client
           ELSE client' = Written(c, left).client /\ UNCHANGED torn
    /\ UNCHANGED <<sourceReads, work, kept, filtering, offset, build, metas,
                   metadata, update, updates, queue, stopped>>

Mp3Next ==
    \/ SetTag \/ (\E n \in 1 .. BufSize : CompleteRead(n))
    \/ FilterStream \/ FilterPart \/ FilterBlock \/ FilterDone
    \/ \E left \in 0 .. BufSize + 2 : WriteToClient(left)

----------------------------------------------------------------------------
StreamOnly(bytes) ==
    FlattenSeq([i \in DOMAIN bytes |-> IF bytes[i].data THEN <<bytes[i]>> ELSE <<>>])

(* The queue has the stream of the source and nothing else. *)
Filtered ==
    ~filtering /\ ~stopped =>
        FlattenSeq([i \in DOMAIN queue |-> queue[i].data])
          = Intro.data \o StreamOnly(SubSeq(SourceBytes, 1, taken - Len(readData)))

(* The metadata is the text of the last block that has one. *)
TitleKnown ==
    LET read == taken - Len(readData)
        texts == {b \in DOMAIN blocks : blocks[b].units > 0 /\ Len(BytesTo(b)) <= read}
    IN  ~filtering /\ ~stopped /\ updates = 0 =>
            metas[metadata].text = IF texts = {} THEN ""
                ELSE blocks[CHOOSE b \in texts : \A x \in texts : x <= b].text

(* What a listener gets is the queue's stream with a whole block, and only *)
(* one, after every Interval bytes.                                        *)
WellFormed ==
    LET got == client.got
        sofar(i) == Cardinality({j \in 1 .. i - 1 : got[j].data})
        ended(b) == b.byte = 0 \/ b.byte = MetaLen(b.meta)
    IN  /\ IsPrefix(StreamOnly(got), FlattenSeq([i \in DOMAIN queue |-> queue[i].data]))
        /\ \A i \in 2 .. Len(got) :
             IF got[i].data
             THEN IF got[i - 1].data THEN Interval = 0 \/ sofar(i) % Interval # 0
                  ELSE ended(got[i - 1])
             ELSE IF got[i].byte <= 1
                  THEN got[i - 1].data /\ Interval # 0 /\ sofar(i) % Interval = 0
                  ELSE got[i - 1] = [got[i] EXCEPT !.byte = @ - 1]
        /\ got # <<>> => got[1].data

(* Metadata in the stream of a source never ends up in the stream of a     *)
(* listener, nor the other way round, whatever the reads and writes are    *)
(* (mp3_get_filter_meta, format_mp3_write_buf_to_client).  This holds      *)
(* until a block that was sent in part is continued after the queue has    *)
(* advanced to a buffer with other metadata: format_advance_queue does not *)
(* look at in_metadata, and the rest that is sent is that of the other.    *)
Mp3Faithful == Filtered /\ TitleKnown /\ WellFormed
=============================================================================
