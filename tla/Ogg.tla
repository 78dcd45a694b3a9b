-------------------------------- MODULE Ogg ---------------------------------
(***************************************************************************)
(* The format plugin for Ogg (format_ogg.c) and its codecs (format_vorbis, *)
(* _theora, _kate, _flac, _opus, _speex, _midi, _skeleton).  The pages of  *)
(* a source become buffers of the queue, each with a pointer to the list   *)
(* of header pages that a listener must have before it.  Vorbis that is    *)
(* alone in its stream is taken apart into packets and put together again, *)
(* so that new header pages with new metadata can be put in between.       *)
(*                                                                         *)
(* A page of a stream is a record: serial, kind (of its codec; "opus" is   *)
(* also Speex), bos, heads (the header packets that end on it), data (how  *)
(* many other packets), key (is there a key frame?), granule, eos, and ok  *)
(* (FALSE: libogg refuses it).  A packet is <<number of its page, place>>. *)
(* Sizes, samples and granule positions are not modelled: a packet counts  *)
(* as one sample.                                                          *)
(*                                                                         *)
(* ogg is the ogg_state_t.  The header pages that there ever were are      *)
(* ogg.objs, with next and _count of refbuf_t; a list is the number of its *)
(* first page, 0 is NULL.                                                  *)
(***************************************************************************)
EXTENDS Integers, Sequences, FiniteSets, SequencesExt

CONSTANTS
    OggStreams,   \* the streams that sources may send
    Trigger,      \* page_samples_trigger
    MaxCodecs,    \* 10
    MaxTags       \* bound on updates of metadata

ASSUME OggAssumption == Trigger \in Nat /\ MaxCodecs \in Nat /\ MaxTags \in Nat

VARIABLES
    pages,        \* the stream of this source
    pageNo,       \* how many of its pages were taken from the ogg_sync_state
    ogg,          \* ogg_info
    bufs,         \* the buffers there were: [page, associated, sync]
    gone,         \* how many of them have left the queue
    oggClient,    \* a listener: [at, from, headers, headerPage, sent, got]
    oggFile,      \* the dump file: [open, headers, content]
    tagger,       \* the thread that updates metadata: where it is, how often it did,
                  \* and early: was the codec without a packet when it was told?
    wild          \* has it written to something that is no Vorbis codec?  This ends the model

oggVars == <<pages, pageNo, ogg, bufs, gone, oggClient, oggFile, tagger, wild>>

(* A page to be sent. *)
Page(serial, what, no, packets, eos) ==
    [serial |-> serial, what |-> what, no |-> no, packets |-> packets, eos |-> eos]
Packets(i) == [k \in 1 .. pages[i].data |-> <<i, k>>]
Copy(i, what) == Page(pages[i].serial, what, i, Packets(i), pages[i].eos)

OggInit ==
    /\ pages \in OggStreams /\ pageNo = 0 /\ wild = FALSE
    /\ ogg = [codecs |-> <<>>, bosCompleted |-> FALSE, sync |-> FALSE, current |-> 0,
              error |-> FALSE, objs |-> <<>>, first |-> 0, tail |-> 0, bosEnd |-> 0,
              setTag |-> FALSE, comment |-> 0, chains |-> 0, lost |-> <<>>]
    /\ bufs = <<>> /\ gone = 0
    /\ oggClient = [at |-> 0, from |-> 0, headers |-> 0, headerPage |-> 0, sent |-> TRUE, got |-> <<>>]
    /\ oggFile = [open |-> TRUE, headers |-> 0, content |-> <<>>]
    /\ tagger = [at |-> "idle", done |-> 0, codec |-> 0, early |-> FALSE]

----------------------------------------------------------------------------
(* The list of header pages *)

ListFrom(objs, h) ==
    LET at[n \in 1 .. Len(objs)] ==
          IF n = 1 THEN h ELSE IF at[n - 1] = 0 THEN 0 ELSE objs[at[n - 1]].next
    IN  SelectSeq([n \in 1 .. Len(objs) |-> at[n]], LAMBDA x : x # 0)

(* Mutant: a BOS page is put behind the other header pages. *)
AttachHeaderLast(o, page) ==
    LET id == Len(o.objs) + 1
        linked == [x \in DOMAIN o.objs |->
                     IF x = o.tail THEN [o.objs[x] EXCEPT !.next = id] ELSE o.objs[x]]
    IN  [o EXCEPT !.objs = Append(linked, [page |-> page, next |-> 0, count |-> 1]),
                  !.first = IF @ = 0 THEN id ELSE @, !.tail = id, !.bosEnd = id]

(* format_ogg_attach_header: a BOS page behind the last BOS page, others   *)
(* at the end.                                                             *)
AttachHeader(o, page) ==
    LET id == Len(o.objs) + 1
        bos == page.what = "bos"
        place == IF o.bosEnd = 0 THEN o.first ELSE o.objs[o.bosEnd].next
        before == IF bos THEN o.bosEnd ELSE o.tail
        linked == [x \in DOMAIN o.objs |->
                     IF x = before THEN [o.objs[x] EXCEPT !.next = id] ELSE o.objs[x]]
    IN  [o EXCEPT !.objs = Append(linked, [page |-> page, next |-> IF bos THEN place ELSE 0,
                                           count |-> 1]),
                  !.first = IF before = 0 THEN id ELSE @,
                  !.tail = IF bos /\ place # 0 THEN @ ELSE id,
                  !.bosEnd = IF bos THEN id ELSE @]

(* refbuf_release of every page of a list, and the opposite. *)
Counted(objs, h, d) ==
    LET list == ListFrom(objs, h)
    IN  [x \in DOMAIN objs |-> IF x \in Range(list) THEN [objs[x] EXCEPT !.count = @ + d]
                               ELSE objs[x]]

(* format_ogg_free_headers, free_ogg_codecs.  What a codec has not given   *)
(* back yet is lost.                                                       *)
FreeHeaders(o) ==
    [o EXCEPT !.objs = Counted(o.objs, o.first, -1), !.first = 0, !.tail = 0, !.bosEnd = 0]
Held(c) == c.newOs \o c.prev \o c.os
FreeCodecs(o) ==
    [FreeHeaders(o) EXCEPT !.codecs = <<>>, !.current = 0, !.bosCompleted = FALSE,
        !.lost = @ \o FlattenSeq([j \in DOMAIN o.codecs |-> Held(o.codecs[j])])]

----------------------------------------------------------------------------
(* complete_buffer and write_ogg_to_file: the buffer refers to the header  *)
(* pages there are, and is put into the queue and into the file.  A write  *)
(* may fail, which closes the file.                                        *)

HeaderPages(h) == LET list == ListFrom(ogg.objs, h)
                  IN  [n \in DOMAIN list |-> ogg.objs[list[n]].page]
Dumped(o, page) ==
    LET list == ListFrom(o.objs, o.first)
        heads == [n \in DOMAIN list |-> o.objs[list[n]].page]
        new == IF oggFile.headers # o.first THEN heads ELSE <<>>
    IN  \/ oggFile' = [oggFile EXCEPT !.headers = o.first,
                         !.content = IF oggFile.open THEN @ \o new \o <<page>> ELSE @]
        \/ oggFile.open /\ oggFile' = [oggFile EXCEPT !.open = FALSE]

(* marked: earlier buffers that are now sync points, and perhaps this one. *)
CompleteBuffer(o, page, marked) ==
    /\ ogg' = [o EXCEPT !.objs = Counted(o.objs, o.first, 1)]
    /\ bufs' = [n \in 1 .. Len(bufs) + 1 |->
                  IF n > Len(bufs) THEN [page |-> page, associated |-> o.first,
                                         sync |-> ~o.sync \/ n \in marked]
                  ELSE [bufs[n] EXCEPT !.sync = @ \/ n \in marked]]
    /\ Dumped(o, page)
NoBuffer(o) == ogg' = o /\ UNCHANGED <<bufs, oggFile>>

----------------------------------------------------------------------------
(* ogg_get_buffer: the next page, when no codec has something to process.  *)

ReadsPage == ~wild /\ ~ogg.error /\ ogg.current = 0 /\ pageNo < Len(pages)
TakePage == ReadsPage /\ pageNo' = pageNo + 1 /\ UNCHANGED <<pages, gone, oggClient, tagger, wild>>
Coming == pages[pageNo + 1]

(* A new codec, of whatever kind. *)
NewCodec ==
    [serial |-> Coming.serial, kind |-> Coming.kind, headers |-> 1, passthru |-> FALSE,
     start |-> 0, granule |-> 0, notify |-> FALSE, rebuild |-> FALSE, getPage |-> "none",
     process |-> "none", prev |-> <<>>, initial |-> FALSE, os |-> <<>>, newOs |-> <<>>,
     eos |-> FALSE, samples |-> 0, serialNo |-> 0, bos |-> pageNo + 1]

(* Theora and Kate mark sync points; the BOS page of Vorbis waits for its  *)
(* headers, those of the others become header pages at once.               *)
InitialCodec(o) ==
    LET added == [o EXCEPT !.codecs = <<NewCodec>> \o @, !.comment = 0,
                           !.sync = @ \/ Coming.kind \in {"theora", "kate"},
                           !.setTag = @ \/ Coming.kind = "vorbis"]
    IN  IF Coming.kind = "vorbis" THEN added
        ELSE AttachHeader(added, Copy(pageNo + 1, "bos"))

(* process_initial_page *)
InitialPage ==
    LET o == IF ogg.bosCompleted THEN [FreeCodecs(ogg) EXCEPT !.sync = FALSE] ELSE ogg
    IN  /\ TakePage /\ Coming.bos
        /\ NoBuffer(IF Len(o.codecs) > MaxCodecs \/ Coming.kind = "unknown"
                    THEN [o EXCEPT !.error = TRUE] ELSE InitialCodec(o))

(* process_ogg_page finds the codec of a page; a page of none is dropped.  *)
CodecsOf == {j \in DOMAIN ogg.codecs : ogg.codecs[j].serial = Coming.serial}
PageFor(j) == TakePage /\ ~Coming.bos /\ j \in CodecsOf /\ \A k \in CodecsOf : j <= k
Completed == [ogg EXCEPT !.bosCompleted = TRUE]
StrayPage == TakePage /\ ~Coming.bos /\ CodecsOf = {} /\ NoBuffer(Completed)

(* process_vorbis_page: headers, of Vorbis alone and among others, audio   *)
(* to be rebuilt, and process_vorbis_passthru_page.                        *)
VorbisPage(j) ==
    LET c == ogg.codecs[j]
        i == pageNo + 1
        alone == Len(ogg.codecs) = 1
        complete == c.headers + Coming.heads >= 3
        counted == [Completed EXCEPT !.codecs[j].headers = @ + Coming.heads]
    IN  /\ PageFor(j) /\ c.kind = "vorbis"
        /\ IF c.passthru THEN CompleteBuffer(Completed, Copy(i, "data"), {})
           ELSE IF ~Coming.ok THEN NoBuffer([Completed EXCEPT !.error = TRUE])
           ELSE IF c.headers = 3
           THEN NoBuffer([Completed EXCEPT !.current = j, !.codecs[j].os = @ \o Packets(i)])
           ELSE IF ~complete
           THEN NoBuffer(IF alone THEN [counted EXCEPT !.current = j]
                         ELSE AttachHeader(counted, Copy(i, "head")))
           ELSE IF alone
           THEN NoBuffer([counted EXCEPT !.current = j,
                            !.codecs[j] = [@ EXCEPT !.process = "headers", !.os = Packets(i)]])
           ELSE NoBuffer(AttachHeader(AttachHeader(
                    [counted EXCEPT !.codecs[j].passthru = TRUE],
                    Copy(c.bos, "bos")), Copy(i, "head")))

(* process_page of the other codecs, which pass their pages on.            *)
OtherPage(j, kinds) == PageFor(j) /\ ogg.codecs[j].kind \in kinds
Refuse == NoBuffer([Completed EXCEPT !.error = TRUE])
Header(o) == NoBuffer(AttachHeader(o, Copy(pageNo + 1, "head")))
PassOn(o, marked) == CompleteBuffer(o, Copy(pageNo + 1, "data"), marked)
Read(j) == [Completed EXCEPT !.codecs[j].headers = @ + Coming.heads + Coming.data]

(* Every page of Skeleton is a header page, and none of MIDI. *)
SkeletonPage(j) ==
    /\ OtherPage(j, {"skeleton"})
    /\ IF ~Coming.ok THEN Refuse ELSE Header(Read(j))
MidiPage(j) ==
    /\ OtherPage(j, {"midi"})
    /\ IF ~Coming.ok THEN Refuse ELSE PassOn(Completed, {})

(* Opus and Speex have two header packets, FLAC has some until the first   *)
(* packet of audio, after which its pages are not looked at.               *)
OpusPage(j) ==
    /\ OtherPage(j, {"opus"})
    /\ IF ogg.codecs[j].headers < 2 THEN Header(Read(j)) ELSE PassOn(Completed, {})
FlacPage(j) ==
    LET looks == ogg.codecs[j].headers # 0
    IN  /\ OtherPage(j, {"flac"})
        /\ IF looks /\ ~Coming.ok THEN Refuse
           ELSE IF looks /\ Coming.data = 0 THEN Header(Read(j))
           ELSE PassOn([Completed EXCEPT !.codecs[j].headers = 0], {})

(* Theora and Kate have three header packets at least.  They remember the  *)
(* page with which a frame may begin.                                      *)
ThreeHeaders(j) == ogg.codecs[j].headers >= 3 \/ Coming.data = 0
NewStart(j) == Coming.granule # ogg.codecs[j].granule \/ Coming.granule = 0
Begins(j, start) == [Completed EXCEPT !.codecs[j].granule = Coming.granule, !.codecs[j].start = start]

(* The page where a key frame begins is a sync point. *)
TheoraPage(j) ==
    LET start == IF NewStart(j) THEN Len(bufs) + 1 ELSE ogg.codecs[j].start
    IN  /\ OtherPage(j, {"theora"})
        /\ IF ~Coming.ok \/ ~ThreeHeaders(j) THEN Refuse
           ELSE IF Coming.heads > 0 THEN Header(Read(j))
           ELSE IF Coming.key THEN PassOn(Begins(j, 0), {start})
           ELSE PassOn(Begins(j, start), {})
KatePage(j) ==
    /\ OtherPage(j, {"kate"})
    /\ IF ~Coming.ok \/ ~ThreeHeaders(j) THEN Refuse
       ELSE IF Coming.heads > 0 THEN Header(Read(j))
       ELSE PassOn(Begins(j, IF NewStart(j) THEN Len(bufs) + 1 ELSE 0), {ogg.codecs[j].start})

----------------------------------------------------------------------------
(* process_vorbis: a page from get_buffer_page if there is one, otherwise  *)
(* process_packet, until that has nothing to do either.                    *)

Vorbis == ogg.codecs[ogg.current]
Processing == ~wild /\ ~ogg.error /\ ogg.current # 0
VorbisKeeps == UNCHANGED <<pages, pageNo, gone, oggClient, tagger, wild>>
With(c) == [ogg EXCEPT !.codecs[ogg.current] = c]

(* A page of the rebuilt stream with the packets there are. *)
Flushed == [Vorbis EXCEPT !.newOs = <<>>, !.samples = 0, !.eos = FALSE]
NewPage == Page(Vorbis.serialNo, "data", 0, Vorbis.newOs, Vorbis.eos)

(* get_buffer_audio; libogg may also have a page because it is full. *)
FlushDue == Vorbis.samples > Trigger
GetBufferAudio ==
    /\ Processing /\ Vorbis.getPage = "audio" /\ Vorbis.newOs # <<>>
    /\ CompleteBuffer(With(Flushed), NewPage, {}) /\ VorbisKeeps

(* get_buffer_finished: the rest, and then new headers, if there is a      *)
(* packet to go on with.                                                   *)
GetBufferFinished ==
    /\ Processing /\ Vorbis.getPage = "finished"
    /\ IF Vorbis.newOs # <<>> THEN CompleteBuffer(With(Flushed), NewPage, {})
       ELSE NoBuffer(FreeHeaders(With([Vorbis EXCEPT !.getPage = "none",
                        !.process = IF Vorbis.prev # <<>> THEN "headers" ELSE "none"])))
    /\ VorbisKeeps

(* process_vorbis_headers, and get_buffer_header. *)
ProcessHeaders ==
    LET n == ogg.chains + 1
        comment == IF Vorbis.rebuild THEN ogg.comment ELSE 0
        o == [With([Vorbis EXCEPT !.rebuild = FALSE, !.getPage = "audio", !.process = "audio",
                                  !.initial = TRUE, !.serialNo = -n]) EXCEPT !.chains = n]
    IN  /\ Processing /\ Vorbis.getPage = "none" /\ Vorbis.process = "headers"
        /\ NoBuffer(AttachHeader(AttachHeader(o, Page(-n, "bos", 0, <<>>, FALSE)),
                                 Page(-n, "head", comment, <<>>, FALSE)))
        /\ VorbisKeeps

(* add_audio_packet *)
AddAudioPacket(c) ==
    IF c.prev = <<>> THEN c
    ELSE [c EXCEPT !.newOs = @ \o c.prev, !.initial = FALSE,
                   !.samples = IF c.initial THEN @ ELSE @ + 1]

(* initiate_flush *)
InitiateFlush(c) ==
    [AddAudioPacket(c) EXCEPT !.getPage = "finished", !.initial = TRUE, !.eos = c.prev # <<>>]

(* process_vorbis_audio: each packet is kept back until the next is there. *)
NextPacket(c) == [AddAudioPacket(c) EXCEPT !.prev = <<Head(c.os)>>, !.os = Tail(@)]
LastOfStream(c) == pages[Head(c.os)[1]].eos /\ Head(c.os)[2] = pages[Head(c.os)[1]].data
Audio == Processing /\ Vorbis.process = "audio" /\ Vorbis.getPage = "audio" /\ ~(FlushDue /\ Vorbis.newOs # <<>>)
ProcessAudio ==
    /\ Audio /\ Vorbis.os # <<>>
    /\ NoBuffer(With(IF LastOfStream(Vorbis)
                     THEN [InitiateFlush(NextPacket(Vorbis)) EXCEPT !.prev = <<>>]
                     ELSE NextPacket(Vorbis)))
    /\ VorbisKeeps
ProcessNotify ==
    /\ Audio /\ Vorbis.os = <<>> /\ Vorbis.notify
    /\ NoBuffer(With([InitiateFlush(Vorbis) EXCEPT !.notify = FALSE]))
    /\ VorbisKeeps

(* There is nothing to do until the next page. *)
ProcessNothing ==
    /\ Processing
    /\ \/ Audio /\ Vorbis.os = <<>> /\ ~Vorbis.notify
       \/ Vorbis.getPage = "none" /\ Vorbis.process = "none"
    /\ NoBuffer([ogg EXCEPT !.current = 0]) /\ VorbisKeeps

----------------------------------------------------------------------------
(* vorbis_set_tag, by another thread and without a lock: first the values, *)
(* then the two flags, if there is one codec.                              *)

TagKeeps == UNCHANGED <<pages, pageNo, bufs, gone, oggClient, oggFile>>
TagValue ==
    /\ ~wild /\ tagger.at = "idle" /\ tagger.done < MaxTags /\ ogg.setTag /\ Len(ogg.codecs) = 1
    /\ ogg' = [ogg EXCEPT !.comment = @ + 1]
    /\ tagger' = [tagger EXCEPT !.at = "notify", !.done = @ + 1]
    /\ UNCHANGED wild /\ TagKeeps
TagNotify ==
    /\ ~wild /\ tagger.at = "notify"
    /\ IF Len(ogg.codecs) # 1
       THEN tagger' = [tagger EXCEPT !.at = "idle"] /\ UNCHANGED <<ogg, wild>>
       ELSE /\ wild' = (ogg.codecs[1].kind # "vorbis")
            /\ ogg' = [ogg EXCEPT !.codecs[1].notify = TRUE]
            /\ tagger' = [tagger EXCEPT !.at = "rebuild", !.codec = ogg.codecs[1].bos,
                                        !.early = ogg.codecs[1].prev = <<>>]
    /\ TagKeeps
TagRebuild ==
    LET told == {j \in DOMAIN ogg.codecs : ogg.codecs[j].bos = tagger.codec}
    IN  /\ ~wild /\ tagger.at = "rebuild"
        /\ wild' = (told = {})
        /\ ogg' = [ogg EXCEPT !.codecs = [j \in DOMAIN @ |->
                     IF j \in told THEN [@[j] EXCEPT !.rebuild = TRUE] ELSE @[j]]]
        /\ tagger' = [tagger EXCEPT !.at = "idle"]
        /\ TagKeeps

----------------------------------------------------------------------------
(* A listener, and the end of the queue *)

ClientKeeps == UNCHANGED <<pages, pageNo, ogg, bufs, gone, oggFile, tagger, wild>>
Buffer == bufs[oggClient.at]
HasBuffer == ~wild /\ oggClient.at \in 1 .. Len(bufs)

(* It starts at a sync point. *)
OggJoin(n) ==
    /\ ~wild /\ oggClient.at = 0 /\ n > gone /\ bufs[n].sync
    /\ oggClient' = [oggClient EXCEPT !.at = n, !.from = n] /\ ClientKeeps

(* write_buf_to_client: the headers have changed, *)
NeedsHeaders ==
    /\ HasBuffer /\ oggClient.sent /\ oggClient.headers # Buffer.associated
    /\ oggClient' = [oggClient EXCEPT !.sent = FALSE, !.headerPage = Buffer.associated]
    /\ ClientKeeps

(* send_ogg_headers sends them; of a page that is sent in part everything  *)
(* is sent again,                                                          *)
SendOggHeader ==
    LET page == ogg.objs[oggClient.headerPage].page
    IN  /\ HasBuffer /\ ~oggClient.sent /\ oggClient.headerPage # 0
        /\ \/ oggClient' = [oggClient EXCEPT !.got = Append(@, page),
                              !.headerPage = ogg.objs[oggClient.headerPage].next]
           \/ oggClient' = [oggClient EXCEPT !.got = Append(@, [page EXCEPT !.what = "part"])]
              /\ \A n \in DOMAIN oggClient.got : oggClient.got[n].what # "part"
        /\ ClientKeeps
OggHeadersSent ==
    /\ HasBuffer /\ ~oggClient.sent /\ oggClient.headerPage = 0
    /\ oggClient' = [oggClient EXCEPT !.sent = TRUE, !.headers = Buffer.associated]
    /\ ClientKeeps

(* and then the page, after which the listener goes on to the next buffer. *)
SendOggPage ==
    /\ HasBuffer /\ oggClient.sent /\ oggClient.headers = Buffer.associated
    /\ oggClient' = [oggClient EXCEPT !.got = Append(@, Buffer.page), !.at = @ + 1]
    /\ ClientKeeps

(* The oldest buffer leaves the queue, and with it its references.         *)
OggTrim ==
    /\ ~wild /\ gone + 1 < Len(bufs) /\ (oggClient.at = 0 \/ oggClient.at > gone + 1)
    /\ gone' = gone + 1
    /\ ogg' = [ogg EXCEPT !.objs = Counted(@, bufs[gone + 1].associated, -1)]
    /\ UNCHANGED <<pages, pageNo, bufs, oggClient, oggFile, tagger, wild>>

OggNext ==
    \/ InitialPage \/ StrayPage
    \/ (\E j \in DOMAIN ogg.codecs : VorbisPage(j) \/ SkeletonPage(j) \/ MidiPage(j)
                                   \/ OpusPage(j) \/ FlacPage(j) \/ TheoraPage(j) \/ KatePage(j))
    \/ GetBufferAudio \/ GetBufferFinished \/ ProcessHeaders
    \/ ProcessAudio \/ ProcessNotify \/ ProcessNothing
    \/ TagValue \/ TagNotify \/ TagRebuild
    \/ (\E n \in 1 .. Len(bufs) : OggJoin(n)) \/ NeedsHeaders
    \/ SendOggHeader \/ OggHeadersSent \/ SendOggPage \/ OggTrim

----------------------------------------------------------------------------
(* Properties *)

(* Streams as they should be: header pages before the others. *)
HeadersBeforeData ==
    \A i \in DOMAIN pages : \A j \in i .. Len(pages) :
        pages[i].data > 0 /\ pages[j].heads > 0 => \E k \in i .. j : pages[k].bos

Kept == gone + 1 .. Len(bufs)
InList(h) == Range(ListFrom(ogg.objs, h))

(* A header page has the references of the plugin and of the buffers in    *)
(* the queue, and no other.                                                *)
HeadersCounted ==
    \A x \in DOMAIN ogg.objs :
        ogg.objs[x].count = Cardinality({n \in Kept : x \in InList(bufs[n].associated)})
                            + (IF x \in InList(ogg.first) THEN 1 ELSE 0)

(* The header pages of the stream that page i belongs to. *)
HeadersOf(i) ==
    {k \in 1 .. i : /\ pages[k].bos \/ pages[k].heads > 0
                    /\ \A m \in k + 1 .. i : pages[m].bos => pages[m - 1].bos}

(* What a buffer refers to: first the BOS pages, then the others, and all  *)
(* that its stream has.                                                    *)
HeadersComplete ==
    \A n \in DOMAIN bufs :
        LET list == HeaderPages(bufs[n].associated)
        IN  /\ \A k \in 1 .. Len(list) - 1 : list[k + 1].what = "bos" => list[k].what = "bos"
            /\ IF bufs[n].page.no = 0
               THEN [k \in DOMAIN list |-> <<list[k].serial, list[k].what>>]
                      = <<<<bufs[n].page.serial, "bos">>, <<bufs[n].page.serial, "head">>>>
               ELSE /\ {list[k].no : k \in DOMAIN list} = HeadersOf(bufs[n].page.no)
                    /\ Len(list) = Cardinality(HeadersOf(bufs[n].page.no))

(* A video starts with a key frame: a sync point is the page where the     *)
(* frame begins, if there is nothing but video to mark them.               *)
Marking(i) == {pages[k].kind : k \in HeadersOf(i)} \cap {"theora", "kate"}
SyncAtKeyFrames ==
    \A n \in DOMAIN bufs :
        bufs[n].sync /\ bufs[n].page.no # 0 /\ Marking(bufs[n].page.no) = {"theora"} =>
            \E m \in n .. Len(bufs) :
                LET i == bufs[n].page.no
                    k == bufs[m].page.no
                IN  pages[k].key /\ pages[k].serial = pages[i].serial
                    /\ pages[k].granule = pages[i].granule

(* Without the packets that end one rebuilt stream and begin the next.     *)
Once(s) ==
    LET first == SelectSeq([n \in DOMAIN s |-> n], LAMBDA n : n = 1 \/ s[n] # s[n - 1])
    IN  [k \in DOMAIN first |-> s[first[k]]]
Sent == FlattenSeq([n \in DOMAIN bufs |-> bufs[n].page.packets])
Arrived == FlattenSeq([i \in 1 .. pageNo |-> Packets(i)])

(* No packet is lost, repeated in a stream or moved, except what a codec   *)
(* holds when the next stream begins: nothing, after the end of a stream,  *)
(* if nobody has set a tag.                                                *)
PacketsInOrder ==
    /\ Once(Sent \o FlattenSeq([j \in DOMAIN ogg.codecs |-> Held(ogg.codecs[j])]))
         = SelectSeq(Arrived, LAMBDA p : p \in Range(Sent) \/ p \notin Range(ogg.lost))
    /\ \A m, n \in DOMAIN bufs :
         m < n /\ bufs[m].page.serial = bufs[n].page.serial =>
             Range(bufs[m].page.packets) \cap Range(bufs[n].page.packets) = {}
    /\ tagger.done = 0 => \A p \in Range(ogg.lost) :
         \A i \in DOMAIN pages : pages[i].eos => pages[i].serial # pages[p[1]].serial

(* "here we update the artist/title info and schedule a new set of header  *)
(* pages": a Vorbis stream that was not ended goes on after a new tag.     *)
(* Except for a tag that comes before the first packet of audio: there is  *)
(* no packet to go on with then, and the stream is silent for ever.        *)
GoesOn ==
    \A j \in DOMAIN ogg.codecs :
        LET c == ogg.codecs[j]
        IN  c.kind = "vorbis" /\ c.headers = 3 /\ ~c.passthru /\ c.process = "none" =>
                \/ tagger.early
                \/ \E i \in c.bos .. pageNo : pages[i].serial = c.serial /\ pages[i].eos

(* What somebody gets who has the buffers of a range. *)
Delivered(m, n) ==
    FlattenSeq([k \in 1 .. n - m + 1 |->
        LET b == bufs[m + k - 1]
        IN  (IF k = 1 \/ b.associated # bufs[m + k - 2].associated
             THEN HeaderPages(b.associated) ELSE <<>>) \o <<b.page>>])

(* A listener gets the headers before the first page that needs them, and  *)
(* all pages from its first.  As long as no header page was sent in part.  *)
ListenerServed ==
    LET c == oggClient
    IN  c.at # 0 /\ (\A n \in DOMAIN c.got : c.got[n].what # "part") =>
            /\ IsPrefix(Delivered(c.from, c.at - 1), c.got)
            /\ IsPrefix(c.got, Delivered(c.from, IF c.at > Len(bufs) THEN Len(bufs) ELSE c.at))

(* Whatever codecs a stream has and however metadata changes, listeners    *)
(* and the dump file get a stream that can be played: every page after the *)
(* headers it needs, which are not freed before, and every packet once and *)
(* in order (format_ogg.c, format_vorbis.c).                               *)
OggFaithful ==
    HeadersBeforeData /\ ~ogg.error =>
        /\ HeadersCounted /\ HeadersComplete /\ SyncAtKeyFrames
        /\ PacketsInOrder /\ GoesOn /\ ListenerServed
        /\ oggFile.open => oggFile.content = Delivered(1, Len(bufs))

=============================================================================
