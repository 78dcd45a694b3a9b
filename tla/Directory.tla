------------------------------ MODULE Directory ------------------------------
(***************************************************************************)
(* The entries of a stream directory (yp.c): source threads add an entry   *)
(* when their stream is public and release it when it is not, while the    *)
(* YP thread talks to the directory server about every entry in turn,      *)
(* which takes long, and then updates its lists.                           *)
(*                                                                         *)
(* One directory server, which a reload of the configuration may remove    *)
(* and add again; others have lists of their own.  yp_lock is what the     *)
(* steps respect: yp_add, yp_remove and the talking share it, the update   *)
(* of the lists is alone with it.  Times are reduced to whether an entry's *)
(* next_update has come, or is 0.  What the entry says of the stream is    *)
(* left out.                                                               *)
(***************************************************************************)
EXTENDS Naturals, Sequences, FiniteSets, SequencesExt

CONSTANTS
    Mount,        \* the mountpoints
    MaxEntries    \* bound on the number of entries

ASSUME DirectoryAssumption == IsFiniteSet(Mount) /\ MaxEntries \in Nat

VARIABLES
    stage,        \* how far a source's change of yp_public is
    late,         \* how far the yp_remove of a source that was freed is
    server,       \* is the server unknown, in pending_yps or in active_yps?
    marked,       \* server->remove
    announce,     \* yp_recheck_config is about to set yp_update
    mounts,       \* server->mounts
    pending,      \* server->pending_mounts
    update,       \* yp_update
    yp,           \* where the YP thread is
    pos,          \* the entry it is at
    dead,         \* did this pass find that the server cannot be contacted?
    running,      \* yp_running
    missed        \* mounts that a change passed by, see Match

sourceVars == <<stage, late>>
serverVars == <<server, marked, announce>>
threadVars == <<yp, pos, dead>>
vars == <<sourceVars, serverVars, mounts, pending, update, threadVars, running, missed>>

(* create_yp_entry.  process says what is next asked of the directory, sid *)
(* whether there is a session, due whether next_update has come ("ever"    *)
(* when it is near 0).                                                     *)
Entry(m, due) == [mount |-> m, process |-> "add", sid |-> FALSE, due |-> due,
                  release |-> FALSE, remove |-> FALSE]
Entries == [mount : Mount, process : {"add", "touch", "remove"}, sid : BOOLEAN,
            due : {"later", "now", "ever"}, release : BOOLEAN, remove : BOOLEAN]
Current(e) == ~e.release /\ ~e.remove
Of(list, m) == {i \in DOMAIN list : list[i].mount = m}

Init ==
    /\ stage = [m \in Mount |-> "off"] /\ late = [m \in Mount |-> "no"]
    /\ server = "pending" /\ marked = FALSE /\ announce = FALSE
    /\ mounts = <<>> /\ pending = <<>> /\ update = TRUE
    /\ yp = "idle" /\ pos = 0 /\ dead = FALSE /\ running = TRUE /\ missed = {}

----------------------------------------------------------------------------
(* Source threads.  source_update_settings calls yp_add or yp_remove first *)
(* and then sets yp_public; a relay that ends sets it to -1 ("unset"),     *)
(* which is neither public nor not.                                        *)

StageGoto(m, s) == stage' = [stage EXCEPT ![m] = s]

(* yp_add: no entry is added if there is one in server->mounts.  It may be *)
(* one that was released and not deleted yet.                              *)
YpAdd(m) ==
    /\ stage[m] \in {"off", "unset"} /\ yp # "gone" /\ StageGoto(m, "adding")
    /\ Len(mounts) + Len(pending) < MaxEntries
    /\ IF server = "active" /\ Of(mounts, m) = {}
       THEN pending' = <<Entry(m, "later")>> \o pending /\ update' = TRUE
       ELSE UNCHANGED <<pending, update>>
    /\ missed' = IF \E i \in Of(mounts, m) : ~Current(mounts[i])
                 THEN missed \cup {m} ELSE missed
    /\ UNCHANGED <<late, serverVars, mounts, threadVars, running>>

(* yp_remove reads active_yps before it has the lock.  With what it found, *)
(* it releases the entries in server->mounts, which are then at once due.  *)
(* A server freed in between is undefined behaviour; here it is as if none *)
(* had been found.                                                         *)
Found == IF server = "active" THEN "server" ELSE "nothing"
Released(e) == [e EXCEPT !.release = TRUE, !.due = "ever"]
ReleaseEntries(m, found, wrongly) ==
    /\ mounts' = [i \in DOMAIN mounts |->
            IF found = "server" /\ mounts[i].mount = m /\ Current(mounts[i])
            THEN Released(mounts[i]) ELSE mounts[i]]
    /\ missed' = IF \/ wrongly \/ Of(pending, m) # {}
                    \/ \E i \in Of(mounts, m) : Current(mounts'[i])
                 THEN missed \cup {m} ELSE missed
    /\ UNCHANGED <<serverVars, pending, update, threadVars, running>>
YpLook(m) ==
    /\ stage[m] \in {"public", "unset"} /\ yp # "gone" /\ StageGoto(m, Found)
    /\ UNCHANGED <<late, serverVars, mounts, pending, update, threadVars, running, missed>>
YpRemove(m) ==
    /\ stage[m] \in {"server", "nothing"} /\ yp # "gone" /\ StageGoto(m, "removing")
    /\ ReleaseEntries(m, stage[m], FALSE) /\ UNCHANGED late
SetPublic(m) ==
    /\ \/ stage[m] = "adding" /\ StageGoto(m, "public")
       \/ stage[m] = "removing" /\ (StageGoto(m, "off") \/ StageGoto(m, "unset"))
    /\ UNCHANGED <<late, serverVars, mounts, pending, update, threadVars, running, missed>>

(* source_free_source: the source is gone before its entries are released, *)
(* and the mount may have a new source by then.  Bound: one such a mount.  *)
FreeSource(m) ==
    /\ stage[m] \in {"off", "public", "unset"} /\ StageGoto(m, "off")
    /\ late[m] = "no" /\ late' = [late EXCEPT ![m] = "due"]
    /\ UNCHANGED <<serverVars, mounts, pending, update, threadVars, running, missed>>
FreeLook(m) ==
    /\ late[m] = "due" /\ yp # "gone" /\ late' = [late EXCEPT ![m] = Found]
    /\ UNCHANGED <<stage, serverVars, mounts, pending, update, threadVars, running, missed>>
FreeRemove(m) ==
    /\ late[m] \in {"server", "nothing"} /\ yp # "gone" /\ late' = [late EXCEPT ![m] = "no"]
    /\ ReleaseEntries(m, late[m], stage[m] # "off") /\ UNCHANGED stage

----------------------------------------------------------------------------
(* yp_recheck_config with and without the server.  It announces the change *)
(* when it has released yp_lock.                                           *)
ReloadWith ==
    /\ running /\ ~announce /\ announce' = TRUE /\ marked' = FALSE
    /\ server' = IF server = "none" THEN "pending" ELSE server
    /\ UNCHANGED <<sourceVars, mounts, pending, update, threadVars, running, missed>>
ReloadWithout ==
    /\ running /\ ~announce /\ announce' = TRUE
    /\ marked' = (server = "active") /\ UNCHANGED server
    /\ UNCHANGED <<sourceVars, mounts, pending, update, threadVars, running, missed>>
Announce ==
    /\ announce /\ announce' = FALSE /\ update' = TRUE
    /\ UNCHANGED <<sourceVars, server, marked, mounts, pending, threadVars, running, missed>>

----------------------------------------------------------------------------
(* The YP thread, yp_update_thread *)

Stay == UNCHANGED <<sourceVars, serverVars, pending, running, missed>>

BeginPass ==
    /\ yp = "idle" /\ running /\ yp' = "pass" /\ pos' = 1 /\ dead' = FALSE
    /\ Stay /\ UNCHANGED <<mounts, update>>

(* yp_process_server and process_ypdata: an entry is skipped when the      *)
(* server is dead, which puts next_update off by 15 minutes, and left when *)
(* it is not due.                                                          *)
AtEntry == yp = "pass" /\ pos <= Len(mounts)
SkipEntry ==
    /\ AtEntry /\ dead /\ pos' = pos + 1
    /\ mounts' = [mounts EXCEPT ![pos].process = "add",
                     ![pos].due = IF mounts[pos].due = "ever" THEN "ever" ELSE "later"]
    /\ Stay /\ UNCHANGED <<update, yp, dead>>
LeaveEntry ==
    /\ AtEntry /\ ~dead /\ mounts[pos].due = "later" /\ pos' = pos + 1
    /\ Stay /\ UNCHANGED <<mounts, update, yp, dead>>

(* Mutant: an entry that is released is processed like any other. *)
WhatNextIgnoresRelease(e) == e.process
WhatNext(e) == IF e.release THEN "remove" ELSE e.process

(* do_yp_remove: without a session there is nothing to tell the directory. *)
Forgotten(e) == [e EXCEPT !.process = "add", !.sid = FALSE, !.remove = TRUE]

(* Mutant: the lists are not updated for the entry. *)
MarkQuietly(e) == mounts' = [mounts EXCEPT ![pos] = Forgotten(e)] /\ UNCHANGED update
Mark(e) == mounts' = [mounts EXCEPT ![pos] = Forgotten(e)] /\ update' = TRUE
ForgetEntry ==
    /\ AtEntry /\ ~dead /\ mounts[pos].due # "later"
    /\ WhatNext(mounts[pos]) = "remove" /\ ~mounts[pos].sid
    /\ Mark(mounts[pos]) /\ pos' = pos + 1
    /\ Stay /\ UNCHANGED <<yp, dead>>
Ask ==
    /\ AtEntry /\ ~dead /\ mounts[pos].due # "later"
    /\ WhatNext(mounts[pos]) # "remove" \/ mounts[pos].sid
    /\ mounts' = [mounts EXCEPT ![pos].process = WhatNext(mounts[pos])]
    /\ yp' = "wait"
    /\ Stay /\ UNCHANGED <<update, pos, dead>>

(* The directory agrees, refuses or does not answer.  Meanwhile the entry  *)
(* may have been released, and next_update is overwritten all the same.    *)
Later(e, process, sid) == [e EXCEPT !.process = process, !.sid = sid, !.due = "later"]
(* A directory that accepts an entry sends the SID of its session. *)
AnswerAdd(e, a) ==
    CASE a = "ok" -> Later(e, "touch", TRUE)
      [] a = "no" -> Later(e, "add", FALSE)
      [] a = "dead" -> Later(e, "add", e.sid)

AnswerTouch(e, a) ==
    CASE a = "ok" -> Later(e, "touch", e.sid)
      [] a = "no" -> Later(e, "add", FALSE)
      [] a = "dead" -> Later(e, "add", e.sid)
Answer(a) ==
    LET e == mounts[pos]
    IN  /\ yp = "wait" /\ yp' = "pass" /\ pos' = pos + 1
        /\ IF e.process = "remove" THEN Mark(e)
           ELSE /\ mounts' = [mounts EXCEPT ![pos] = IF e.process = "add" THEN AnswerAdd(e, a)
                                                    ELSE AnswerTouch(e, a)]
                /\ UNCHANGED update
        /\ dead' = (a = "dead" /\ e.process # "touch")
        /\ Stay

EndPass ==
    /\ yp = "pass" /\ pos > Len(mounts) /\ yp' = "check" /\ pos' = 0 /\ dead' = FALSE
    /\ Stay /\ UNCHANGED <<mounts, update>>

NothingNew ==
    /\ yp = "check" /\ ~update /\ yp' = "idle"
    /\ Stay /\ UNCHANGED <<mounts, update, pos, dead>>

(* check_servers: a server that was marked goes with all its entries, a    *)
(* new one starts with the sources whose yp_public is not 0.               *)
Visible == {m \in Mount : stage[m] \notin {"off", "adding"}}
Halfway == {m \in Mount : stage[m] \in {"adding", "removing", "unset"}}
Orphaned(f) == [m \in Mount |-> IF f[m] = "server" THEN "nothing" ELSE f[m]]
CheckServers ==
    /\ server' = IF server = "pending" THEN "active"
                 ELSE IF marked THEN "none" ELSE server
    /\ marked' = FALSE

(* Mutant: the entries that wait are not taken over. *)
AddPendingNever == mounts
(* add_pending_yp *)
AddPending == pending \o mounts

(* Mutant: entries are deleted while they are only released. *)
KeptReleased(e) == Current(e)
(* delete_marked_yp goes along the list: what is left of its first i       *)
(* entries.                                                                *)
Kept(e) == ~e.remove
DeleteMarked(list) ==
    LET left[i \in 0 .. Len(list)] ==
            IF i = 0 THEN <<>>
            ELSE IF Kept(list[i]) THEN Append(left[i - 1], list[i]) ELSE left[i - 1]
    IN  left[Len(list)]

UpdateLists ==
    /\ yp = "check" /\ update /\ yp' = "idle" /\ update' = FALSE
    /\ CheckServers /\ pending' = <<>>
    /\ mounts' = CASE server' = "none" -> <<>>
                   [] server = "pending" -> SetToSeq({Entry(m, "ever") : m \in Visible})
                   [] OTHER -> DeleteMarked(AddPending)
    /\ missed' = IF server = "pending" THEN Halfway
                 ELSE IF server' = "none" THEN {} ELSE missed
    /\ stage' = IF server' = "none" THEN Orphaned(stage) ELSE stage
    /\ late' = IF server' = "none" THEN Orphaned(late) ELSE late
    /\ UNCHANGED <<announce, pos, dead, running>>

(* Time passes and next_update comes for an entry; yp_touch may have moved *)
(* it nearer.  An entry that becomes due during a pass is as good as one   *)
(* that does before it or after it.                                        *)
Time(m, release) ==
    /\ yp = "idle"
    /\ \E i \in Of(mounts, m) :
          /\ mounts[i].release = release /\ mounts[i].due = "later"
          /\ mounts' = [mounts EXCEPT ![i].due = "now"]
    /\ Stay /\ UNCHANGED <<update, threadVars>>

(* yp_shutdown; the thread frees everything. *)
Shutdown ==
    /\ running /\ running' = FALSE /\ update' = TRUE
    /\ UNCHANGED <<sourceVars, serverVars, mounts, pending, threadVars, missed>>
ThreadEnds ==
    /\ yp = "idle" /\ ~running /\ yp' = "gone"
    /\ server' = "none" /\ marked' = FALSE /\ mounts' = <<>> /\ pending' = <<>>
    /\ missed' = {}
    /\ UNCHANGED <<sourceVars, announce, update, pos, dead, running>>

----------------------------------------------------------------------------
Answers == {"ok", "no", "dead"}
Thread == \/ BeginPass \/ SkipEntry \/ LeaveEntry \/ ForgetEntry \/ Ask
          \/ (\E a \in Answers : Answer(a)) \/ EndPass \/ NothingNew \/ UpdateLists
          \/ ThreadEnds
Next ==
    \/ \E m \in Mount : YpAdd(m) \/ YpRemove(m) \/ SetPublic(m)
                         \/ YpLook(m) \/ FreeSource(m) \/ FreeLook(m) \/ FreeRemove(m)
    \/ ReloadWith \/ ReloadWithout \/ Announce \/ Thread \/ Shutdown
    \/ \E m \in Mount, release \in BOOLEAN : Time(m, release)

Spec == Init /\ [][Next]_vars

(* The YP thread runs, its requests have timeouts, and time passes, during *)
(* the passes too: hence strong fairness.                                  *)
FairSpec ==
    /\ Spec /\ WF_vars(Thread) /\ WF_vars(Announce)
    /\ \A m \in Mount, release \in BOOLEAN : SF_vars(Time(m, release))

----------------------------------------------------------------------------
(* Properties *)

(* Every variable has its type, and only a server that is in use has       *)
(* entries.                                                                *)
TypeOK ==
    /\ stage \in [Mount -> {"off", "adding", "public", "server", "nothing", "removing", "unset"}]
    /\ late \in [Mount -> {"no", "due", "server", "nothing"}]
    /\ server \in {"none", "pending", "active"} /\ marked \in BOOLEAN /\ announce \in BOOLEAN
    /\ mounts \in Seq(Entries) /\ pending \in Seq(Entries) /\ update \in BOOLEAN
    /\ server # "active" => mounts = <<>> /\ pending = <<>>
    /\ yp \in {"idle", "pass", "wait", "check", "gone"} /\ pos \in Nat
    /\ dead \in BOOLEAN /\ running \in BOOLEAN /\ missed \subseteq Mount

(* A mount has one current entry while its stream is public and none       *)
(* afterwards: no stream is listed twice, stays listed when it is gone or  *)
(* is never listed.  The mounts that a change passed by are left out: a    *)
(* stream that ended before its entry left pending_mounts, one that came   *)
(* back before its old entry was deleted or its old source freed, and one  *)
(* that changed, or was a relay that had ended, when a new server was      *)
(* taken up.                                                               *)
CurrentEntries(m) ==
    Cardinality({i \in Of(mounts, m) : Current(mounts[i])}) + Cardinality(Of(pending, m))
Match ==
    server = "active" =>
        \A m \in Mount \ missed :
            late[m] = "no" =>
                /\ CurrentEntries(m) <= 1
                /\ stage[m] \in {"off", "removing", "unset"} => CurrentEntries(m) = 0
                /\ stage[m] \in {"adding", "public"} => CurrentEntries(m) = 1

(* A change is not forgotten: whatever waits for the next update of the    *)
(* lists is announced.                                                     *)
UpdateAnnounced ==
    (\/ pending # <<>> \/ server = "pending" \/ marked
     \/ \E i \in DOMAIN mounts : mounts[i].remove) => update \/ announce

(* The directory is told before it is forgotten: a session is given up     *)
(* only on an answer of the directory, or with the server itself.          *)
Sessions == Cardinality({i \in DOMAIN mounts : mounts[i].sid})
SessionsKept == [][yp # "wait" /\ server' = "active" => Sessions' >= Sessions]_vars

(* A released entry goes in the end, although the answer to an earlier     *)
(* request may put its removal off and other entries may find the server   *)
(* dead, if the server can be contacted from some time on.                 *)
HasReleased(m) == \E i \in Of(mounts, m) : mounts[i].release
ReleasedGoes ==
    <>[](~dead) => \A m \in Mount : HasReleased(m) ~> ~HasReleased(m)
=============================================================================
