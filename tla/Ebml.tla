-------------------------------- MODULE Ebml --------------------------------
(***************************************************************************)
(* The format plugin for WebM (format_ebml.c): ebml_get_buffer feeds what  *)
(* the source sends, in pieces of any size, to a parser of EBML elements.  *)
(* The parser collects everything before the first cluster as the header   *)
(* that every listener gets first, cuts the rest where clusters begin, and *)
(* marks as sync point a cluster that does not begin with a video frame    *)
(* that is no key frame.                                                   *)
(*                                                                         *)
(* A stream is a sequence of elements: the kind, the bytes of the tag (ID  *)
(* and length), the bytes that are copied with it (0 for elements whose    *)
(* children are parsed), the track of a TrackNumber or a block, and key, a *)
(* video TrackType or a block that is a key frame.  A byte is the number   *)
(* of its element and its place in it, so a parser that is not at the      *)
(* first byte of an element finds a corrupt tag.  The bytes before the     *)
(* parser's cursor leave the input buffer at once: ebml_wrote moves them   *)
(* out before anybody looks at the buffer again.                           *)
(***************************************************************************)
EXTENDS Integers, Sequences, SequencesExt

CONSTANTS
    EbmlStreams,   \* what sources may send
    Slice,         \* EBML_SLICE_SIZE
    HeaderMax,     \* EBML_HEADER_MAX_SIZE
    NoTrack        \* EBML_UNKNOWN, the number of no track

ASSUME SliceAssumption == Slice \in Nat /\ HeaderMax \in Nat

(* Elements as EBML has them: a tag, and what a probe reads behind it, fit *)
(* into a buffer, and what is in a cluster are elements of their own.      *)
ASSUME StreamAssumption ==
    \A s \in EbmlStreams :
        /\ s \in Seq(Range(s))
        /\ \A i \in DOMAIN s :
             /\ s[i].tag \in Nat \ {0} /\ s[i].size \in Nat /\ s[i].tag + 4 <= Slice
             /\ s[i].kind = "cluster" => s[i].size = 0

VARIABLES
    elements,      \* the stream of this source
    given,         \* the number of its bytes that were read
    ebml,          \* the parser, an ebml_t
    parsing,       \* is ebml_wrote running?
    streamHeader,  \* ebml_source_state->header, <<>> if it is NULL
    chunks,        \* the buffers that were returned
    dump,          \* the dump file
    listener,      \* a listener's ebml_client_data
    failed         \* did the plugin or the connection end the source?

others == <<dump, listener>>
ebmlVars == <<elements, given, ebml, parsing, streamHeader, chunks, failed, others>>

StreamBytes ==
    FlattenSeq([i \in DOMAIN elements |->
                  [k \in 1 .. elements[i].tag + elements[i].size |-> <<i, k>>]])

EbmlInit ==
    /\ elements \in EbmlStreams
    /\ given = 0 /\ parsing = FALSE /\ failed = FALSE
    /\ streamHeader = <<>> /\ chunks = <<>>
    /\ dump = [state |-> "open", content |-> <<>>]
    /\ listener = [state |-> "none", pos |-> 0, got |-> <<>>]
    /\ ebml = [output |-> "header", state |-> "header", copyLen |-> 0,
               clusterStart |-> -1, keyframe |-> "no", flush |-> FALSE,
               buffer |-> <<>>, input |-> <<>>, header |-> <<>>, headerSize |-> 0,
               keyTrack |-> NoTrack, parsingTrack |-> NoTrack, isVideo |-> FALSE]

----------------------------------------------------------------------------
(* ebml_get_buffer: what there is to return. *)

(* Mutant: a chunk goes on into the cluster behind it. *)
ReadSpaceWhole ==
    IF ebml.clusterStart > 0 \/ ebml.flush \/ Len(ebml.buffer) = Slice
    THEN Len(ebml.buffer) ELSE 0

(* ebml_read_space, once the header was read: up to the next cluster, or   *)
(* all when the buffer is full or is to be flushed.                        *)
ReadSpace ==
    IF ebml.clusterStart > 0 THEN ebml.clusterStart
    ELSE IF ebml.flush \/ Len(ebml.buffer) = Slice THEN Len(ebml.buffer)
    ELSE 0

(* The header is complete and becomes the header of the source. *)
ReadHeader ==
    /\ ~parsing /\ ~failed /\ ebml.output = "header" /\ ebml.headerSize # 0
    /\ streamHeader' = SubSeq(ebml.header, 1, ebml.headerSize)
    /\ ebml' = [ebml EXCEPT !.output = "clusters"]
    /\ UNCHANGED <<elements, given, parsing, chunks, failed, others>>

(* ebml_write_buf_to_file: the header before the first chunk.  A write may *)
(* fail, which closes the file; if it is the header's, the chunk is then   *)
(* written to no file at all, which is undefined.                          *)
Dump(data) ==
    \/ dump.state # "open" /\ UNCHANGED dump
    \/ /\ dump.state = "open"
       /\ \/ dump' = [dump EXCEPT !.content =
                        (IF @ = <<>> THEN streamHeader ELSE @) \o data]
          \/ dump' = [dump EXCEPT !.state = "closed"]
          \/ dump.content = <<>> /\ dump' = [dump EXCEPT !.state = "undefined"]

(* ebml_read: a chunk, and whether a listener may start with it. *)
ReadChunk ==
    /\ ~parsing /\ ~failed /\ ebml.output = "clusters" /\ ReadSpace > 0
    /\ chunks' = Append(chunks,
           [data |-> SubSeq(ebml.buffer, 1, ReadSpace),
            sync |-> ebml.clusterStart = 0 /\ ebml.keyframe # "no"])
    /\ Dump(SubSeq(ebml.buffer, 1, ReadSpace))
    /\ ebml' = [ebml EXCEPT
           !.buffer = SubSeq(@, ReadSpace + 1, Len(@)),
           !.clusterStart = IF @ > 0 THEN @ - ReadSpace ELSE -1,
           !.flush = @ \/ (ebml.clusterStart <= 0 /\ Len(ebml.buffer) = Slice)]
    /\ UNCHANGED <<elements, given, parsing, streamHeader, failed, listener>>

NothingToRead == IF ebml.output = "header" THEN ebml.headerSize = 0 ELSE ReadSpace = 0
Feeding == ~parsing /\ ~failed /\ NothingToRead

(* n bytes are read and given to the parser, or none when there are none.  *)
Feed(n) ==
    /\ Feeding /\ given + n <= Len(StreamBytes)
    /\ n <= Slice - Len(ebml.input) /\ Len(ebml.input) < Slice
    /\ ebml' = [ebml EXCEPT !.input = @ \o SubSeq(StreamBytes, given + 1, given + n)]
    /\ given' = given + n /\ parsing' = TRUE
    /\ UNCHANGED <<elements, streamHeader, chunks, failed, others>>

(* The input buffer is full and zero bytes are read.  connection_read      *)
(* takes the answer 0 for the end of the connection and the source ends;   *)
(* connection_read_tls does not, and the parser goes on.                   *)
FeedFull ==
    /\ Feeding /\ Len(ebml.input) = Slice
    /\ \/ parsing' = TRUE /\ UNCHANGED failed
       \/ failed' = TRUE /\ UNCHANGED parsing
    /\ UNCHANGED <<elements, given, ebml, streamHeader, chunks, others>>

(* The source has hung up. *)
HungUp ==
    /\ Feeding /\ failed' = TRUE
    /\ UNCHANGED <<elements, given, ebml, parsing, streamHeader, chunks, others>>

----------------------------------------------------------------------------
(* ebml_wrote, one step per round of its loop. *)

InTags == parsing /\ ebml.state \in {"header", "clusters"}
Elem == elements[Head(ebml.input)[1]]

(* ebml_parse_tag: is there a complete tag, or none at all? *)
TagCorrupt == ebml.input # <<>> /\ (Head(ebml.input)[2] # 1 \/ Elem.kind = "corrupt")
TagThere == ebml.input # <<>> /\ ~TagCorrupt /\ Len(ebml.input) >= Elem.tag

Fail ==
    /\ failed' = TRUE /\ parsing' = FALSE
    /\ UNCHANGED <<elements, given, ebml, streamHeader, chunks, others>>

Wait(e) ==
    /\ ebml' = e /\ parsing' = FALSE
    /\ UNCHANGED <<elements, given, streamHeader, chunks, failed, others>>

Continue(e) ==
    /\ ebml' = e
    /\ UNCHANGED <<elements, given, parsing, streamHeader, chunks, failed, others>>

ParseError == InTags /\ TagCorrupt /\ Fail
WaitForTag == InTags /\ ~TagCorrupt /\ ~TagThere /\ Wait(ebml)

FindCluster ==
    /\ InTags /\ TagThere /\ Elem.kind = "cluster"
    /\ Continue([ebml EXCEPT !.state = "start"])

(* The probes of elements of interest need bytes behind the tag: the track *)
(* and the flags of the first block of the video track, the value of an    *)
(* integer and one byte more.                                              *)
ProbeWaits ==
    \/ /\ Elem.kind = "block" /\ ebml.keyframe = "unknown"
       /\ Len(ebml.input) <= Elem.tag + IF Elem.track = ebml.keyTrack THEN 3 ELSE 0
    \/ Elem.kind \in {"number", "type"} /\ Len(ebml.input) <= Elem.tag + Elem.size

(* ebml_check_track *)
CheckTrack(e) ==
    IF e.keyTrack = NoTrack /\ e.isVideo /\ e.parsingTrack # NoTrack
    THEN [e EXCEPT !.keyTrack = e.parsingTrack] ELSE e

(* What the parser learns from an element. *)
Probed ==
    CASE Elem.kind = "block" /\ ebml.keyframe = "unknown" /\ Elem.track = ebml.keyTrack
           -> [ebml EXCEPT !.keyframe = IF Elem.key THEN "yes" ELSE "no"]
      [] Elem.kind = "entry" -> [ebml EXCEPT !.parsingTrack = NoTrack, !.isVideo = FALSE]
      [] Elem.kind = "number" -> CheckTrack([ebml EXCEPT !.parsingTrack = Elem.track])
      [] Elem.kind = "type" /\ Elem.key -> CheckTrack([ebml EXCEPT !.isVideo = TRUE])
      [] OTHER -> ebml

WaitForProbe ==
    InTags /\ TagThere /\ Elem.kind # "cluster" /\ ProbeWaits /\ Wait(ebml)

TakeElement ==
    /\ InTags /\ TagThere /\ Elem.kind # "cluster" /\ ~ProbeWaits
    /\ Continue([Probed EXCEPT !.copyLen = Elem.tag + Elem.size,
                    !.state = IF @ = "header" THEN "copy header" ELSE "copy data"])

(* A cluster waits until the one before it has left the buffer. *)
WaitForFlush ==
    /\ parsing /\ ebml.state = "start" /\ ebml.clusterStart >= 0
    /\ Wait([ebml EXCEPT !.flush = TRUE])

StartCluster ==
    /\ parsing /\ ebml.state = "start" /\ ebml.clusterStart < 0
    /\ Continue([ebml EXCEPT
           !.headerSize = Len(ebml.header), !.clusterStart = Len(ebml.buffer),
           !.keyframe = "unknown", !.flush = FALSE,
           !.copyLen = Elem.tag, !.state = "copy data"])

Fewer(a, b) == IF a < b THEN a ELSE b

(* e after n bytes of its input were copied. *)
Copied(e, n, next) ==
    LET rest == [e EXCEPT !.input = SubSeq(@, n + 1, Len(@)), !.copyLen = @ - n]
    IN  IF e.copyLen = n THEN Continue([rest EXCEPT !.state = next]) ELSE Wait(rest)

CopyToHeader ==
    LET n == Fewer(ebml.copyLen, Len(ebml.input))
    IN  /\ parsing /\ ebml.state = "copy header"
        /\ IF Len(ebml.header) + n > HeaderMax THEN Fail
           ELSE Copied([ebml EXCEPT !.header = @ \o SubSeq(ebml.input, 1, n)],
                       n, "header")

CopyToData ==
    LET n == Fewer(Fewer(ebml.copyLen, Len(ebml.input)), Slice - Len(ebml.buffer))
    IN  /\ parsing /\ ebml.state = "copy data"
        /\ Copied([ebml EXCEPT !.buffer = @ \o SubSeq(ebml.input, 1, n)],
                  n, "clusters")

----------------------------------------------------------------------------
(* A listener. *)

sourceSide == <<elements, given, ebml, parsing, streamHeader, chunks, dump, failed>>

(* ebml_create_client_data: without a header there is nothing to send. *)
CreateClientData ==
    /\ listener.state = "none"
    /\ listener' = [listener EXCEPT
                      !.state = IF streamHeader = <<>> THEN "dropped" ELSE "header"]
    /\ UNCHANGED sourceSide

(* send_ebml_header: the socket takes n bytes. *)
SendHeader(n) ==
    /\ listener.state = "header" /\ listener.pos < Len(streamHeader)
    /\ n <= Fewer(Slice, Len(streamHeader) - listener.pos)
    /\ listener' = [listener EXCEPT !.pos = @ + n,
           !.got = @ \o SubSeq(streamHeader, listener.pos + 1, listener.pos + n)]
    /\ UNCHANGED sourceSide

(* ebml_write_buf_to_client: the listener goes on with the queue. *)
GoGeneric ==
    /\ listener.state = "header" /\ listener.pos = Len(streamHeader)
    /\ listener' = [listener EXCEPT !.state = "generic"]
    /\ UNCHANGED sourceSide

EbmlNext ==
    \/ CreateClientData \/ (\E n \in 1 .. Slice : SendHeader(n)) \/ GoGeneric
    \/ ReadHeader \/ ReadChunk \/ (\E n \in 0 .. Slice : Feed(n)) \/ FeedFull \/ HungUp
    \/ ParseError \/ WaitForTag \/ FindCluster \/ WaitForProbe \/ TakeElement
    \/ WaitForFlush \/ StartCluster \/ CopyToHeader \/ CopyToData

----------------------------------------------------------------------------
(* Nothing is lost, repeated or moved: the header, the chunks and what is  *)
(* in the buffers are the bytes that were read.                            *)
InOrder ==
    LET head == IF ebml.output = "clusters" THEN streamHeader ELSE ebml.header
        out == FlattenSeq([i \in DOMAIN chunks |-> chunks[i].data])
    IN  head \o out \o ebml.buffer \o ebml.input = SubSeq(StreamBytes, 1, given)

ClusterByte(b) == b[2] = 1 /\ elements[b[1]].kind = "cluster"

(* Clusters begin chunks. *)
ClustersBegin ==
    \A c \in DOMAIN chunks : \A k \in DOMAIN chunks[c].data :
        ClusterByte(chunks[c].data[k]) => k = 1

(* The entry that element j is part of, and the elements that say that a   *)
(* track is a video track.                                                 *)
EntryOf(j) == {i \in 1 .. j : elements[i].kind = "entry"}
SaysVideo(j, k) ==
    /\ elements[j].kind = "number" /\ elements[k].kind = "type" /\ elements[k].key
    /\ EntryOf(k) = EntryOf(j)

(* Streams as they should be: the tracks are described before the clusters *)
(* and every one has one number.                                           *)
TracksInHeader ==
    /\ \A i, j \in DOMAIN elements : elements[i].kind = "cluster" /\ i < j =>
          elements[j].kind \notin {"entry", "number", "type"}
    /\ \A i, j \in DOMAIN elements :
          elements[i].kind = "number" /\ elements[j].kind = "number" =>
              /\ elements[i].track # NoTrack
              /\ EntryOf(i) = EntryOf(j) => i = j

(* The track whose frames count: the first that is a video track. *)
VideoTrack ==
    LET video == {j \in DOMAIN elements : \E k \in DOMAIN elements : SaysVideo(j, k)}
    IN  IF video = {} THEN NoTrack
        ELSE elements[CHOOSE j \in video : \A k \in video : j <= k].track

(* The first frame of the video track in cluster i, if it has one. *)
FirstFrame(i) ==
    LET video == VideoTrack
    IN  {j \in DOMAIN elements :
           /\ j > i /\ elements[j].kind = "block" /\ elements[j].track = video
           /\ \A k \in i + 1 .. j - 1 :
                 /\ elements[k].kind # "cluster"
                 /\ elements[k].kind = "block" => elements[k].track # video}

(* The bytes of the stream from element i to the one before j. *)
Distance(i, j) ==
    LET stream == StreamBytes
    IN  Cardinality({n \in DOMAIN stream : i <= stream[n][1] /\ stream[n][1] < j})

(* Listeners may start at clusters only.  A cluster is not a sync point    *)
(* only if its first video frame is no key frame, and is a sync point in   *)
(* spite of that only if the frame comes after all that is buffered of a   *)
(* cluster.                                                                *)
SyncPoints ==
    \A c \in DOMAIN chunks :
        LET first == chunks[c].data[1]
            frames == FirstFrame(first[1])
        IN  /\ chunks[c].sync => ClusterByte(first)
            /\ ClusterByte(first) /\ ~chunks[c].sync =>
                  \E j \in frames : ~elements[j].key
            /\ chunks[c].sync =>
                  \A j \in frames : elements[j].key \/ Distance(first[1], j) >= Slice

(* What comes before the first cluster. *)
BeforeClusters(bytes) ==
    LET stream == StreamBytes
    IN  /\ bytes = SubSeq(stream, 1, Len(bytes))
        /\ \A k \in 1 .. Len(bytes) : ~ClusterByte(stream[k])
        /\ Len(bytes) < Len(stream) => ClusterByte(stream[Len(bytes) + 1])

(* A dump file is a stream of its own, and so is what a listener gets      *)
(* before it reads the queue.                                              *)
HeadersFirst ==
    /\ dump.state = "open" /\ chunks # <<>> =>
          dump.content = streamHeader \o FlattenSeq([i \in DOMAIN chunks |-> chunks[i].data])
    /\ listener.state = "generic" => BeforeClusters(listener.got)

(* However the stream is cut into reads, listeners can be sent what the    *)
(* source sent, in order, and can start wherever a cluster does that need  *)
(* not be refused (ebml_read, ebml_wrote).  The last is about streams that *)
(* describe their tracks in the header.                                    *)
EbmlFaithful ==
    /\ InOrder /\ ClustersBegin /\ HeadersFirst
    /\ TracksInHeader => SyncPoints
=============================================================================
