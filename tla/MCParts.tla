------------------------------ MODULE MCParts ------------------------------
(* Small instances of the parts that have no thread of their own: the      *)
(* format plugins, with small streams, and the users of an authenticator.  *)
(* A behaviour is about one of them.                                       *)
EXTENDS Ebml, Mp3, Ogg, Users, TLC

VARIABLE part

Element(kind, tag, size, track, key) ==
    [kind |-> kind, tag |-> tag, size |-> size, track |-> track, key |-> key]
Plain(size) == Element("other", 2, size, NoTrack, FALSE)
Cluster == Element("cluster", 3, 0, NoTrack, FALSE)
Entry == Element("entry", 2, 0, NoTrack, FALSE)
Number(t) == Element("number", 2, 1, t, FALSE)
IsVideo(v) == Element("type", 2, 1, NoTrack, v)
Block(t, key, size) == Element("block", 2, size, t, key)
Corrupt == Element("corrupt", 2, 0, NoTrack, FALSE)

(* An audio track 1 and a video track 2, its type before its number. *)
Tracks == <<Entry, Number(1), IsVideo(FALSE), Entry, IsVideo(TRUE), Number(2)>>

(* Clusters that begin with a key frame, with another, after audio, with   *)
(* nothing, with a frame too late to be seen or just in time.              *)
Movie == Tracks \o <<Cluster, Block(2, TRUE, 4), Cluster, Block(1, TRUE, 1),
                     Block(2, FALSE, 4), Cluster, Cluster, Block(2, FALSE, 7)>>
Late == <<Entry, Number(2), IsVideo(TRUE), Cluster, Plain(4), Block(2, FALSE, 5), Cluster,
          Plain(3), Block(2, FALSE, 4), Cluster>>
Music == <<Entry, Number(1), IsVideo(FALSE), Cluster, Block(1, TRUE, 4), Cluster, Corrupt>>
Endless == <<Plain(20), Cluster>>

Movies == {Movie, Late, Music, Endless}

Title(text, units) == [text |-> text, units |-> units]
Songs == {<<Title("a", 1), Title("", 0), Title("b", 2), Title("b", 2)>>,
          <<Title("", 0), Title("wrong", 1), Title("a", 1)>>}

P(serial, kind, bos, heads, data) ==
    [serial |-> serial, kind |-> kind, bos |-> bos, heads |-> heads, data |-> data,
     key |-> FALSE, granule |-> 0, eos |-> FALSE, ok |-> TRUE]
Bos(serial, kind) == P(serial, kind, TRUE, 1, 0)
Heads(serial, n) == P(serial, "none", FALSE, n, 0)
Data(serial, n) == P(serial, "none", FALSE, 0, n)
Eos(serial, n) == [Data(serial, n) EXCEPT !.eos = TRUE]
Frame(serial, g, key) == [Data(serial, 1) EXCEPT !.granule = g, !.key = key]
Bad(serial) == [Data(serial, 1) EXCEPT !.ok = FALSE]

(* A Vorbis stream and another behind it; one that changes to Opus and was *)
(* not ended; several codecs at once, with key frames and a page that is   *)
(* refused; codecs that come and go, a page of none and one that is        *)
(* unknown; too many codecs.                                               *)
Radio == <<Bos(1, "vorbis"), Heads(1, 2), Data(1, 2), Eos(1, 1),
           Bos(2, "vorbis"), Heads(2, 2), Data(2, 1)>>
Change == <<Bos(1, "vorbis"), Heads(1, 1), Heads(1, 1), Data(1, 3),
            Bos(3, "opus"), Heads(3, 1), Data(3, 1)>>
Film == <<Bos(4, "skeleton"), Bos(5, "vorbis"), Bos(6, "theora"), Heads(5, 1), Heads(6, 2),
          Heads(5, 1), Heads(4, 1), Frame(6, 1, TRUE), Data(5, 2), Frame(6, 2, FALSE),
          Frame(6, 3, FALSE), Frame(6, 3, TRUE), Bad(6)>>
Subtitles == <<Bos(7, "kate"), Bos(8, "flac"), Heads(7, 2), Heads(8, 1), Data(8, 1),
               Frame(7, 1, FALSE), Frame(7, 2, FALSE), Data(9, 0), Bos(10, "midi"),
               Data(10, 1), Bos(11, "unknown")>>
Many == <<Bos(1, "opus"), Bos(2, "opus"), Bos(3, "opus"), Bos(4, "opus")>>
Programmes == {Radio, Change, Film, Subtitles, Many, <<>>}

(* Users and threads are alike. *)
Same == Permutations(User) \cup Permutations(Worker)

Init == /\ EbmlInit /\ Mp3Init /\ OggInit /\ UsersInit
        /\ part \in {"ebml", "mp3", "ogg", "users"}
        /\ part # "ebml" => elements = Endless
        /\ part # "mp3" => blocks[1].units = 0
        /\ part # "ogg" => pages = <<>>
Next == /\ UNCHANGED part
        /\ \/ part = "ebml" /\ EbmlNext /\ UNCHANGED <<mp3Vars, oggVars, usersVars>>
           \/ part = "mp3" /\ Mp3Next /\ UNCHANGED <<ebmlVars, oggVars, usersVars>>
           \/ part = "ogg" /\ OggNext /\ UNCHANGED <<ebmlVars, mp3Vars, usersVars>>
           \/ part = "users" /\ UsersNext /\ UNCHANGED <<ebmlVars, mp3Vars, oggVars>>
Spec == Init /\ [][Next]_<<part, ebmlVars, mp3Vars, oggVars, usersVars>>
=============================================================================
