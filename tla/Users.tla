------------------------------- MODULE Users -------------------------------
(***************************************************************************)
(* The users of an htpasswd authenticator (auth_htpasswd.c), as listeners  *)
(* and the admin requests that manage them (command_manageauth) use them.  *)
(* The authenticator is asked in whatever thread has the client.  It keeps *)
(* the users of its file in a tree and reads the file again when its time  *)
(* of change, in seconds, is not the one it has noted; file_rwlock         *)
(* protects the tree but not the note.  A user is added at the end of the  *)
(* file, and deleted by writing the others to a second file, which then    *)
(* takes the place of the first.  Opening, removing and renaming may fail, *)
(* and the server may stop between two operations and be started again.    *)
(* Writing succeeds here: the code does not look at its result.            *)
(*                                                                         *)
(* A file is the set of its users and its time of change; passwords, lines *)
(* without a user and two lines of one user are left out.                  *)
(***************************************************************************)
EXTENDS Naturals, FiniteSets

CONSTANTS
    User,
    Worker,      \* threads that ask or change the authenticator
    None,        \* no file, no thread, no user
    MaxTime      \* bound on seconds

File == [users : SUBSET User, mtime : 0 .. MaxTime]

ASSUME UsersAssumption ==
    /\ IsFiniteSet(User) /\ User # {} /\ IsFiniteSet(Worker) /\ MaxTime \in Nat \ {0}
    /\ None \notin Worker \cup User \cup (0 .. MaxTime) \cup File

VARIABLES
    passwdfile,  \* the file, or None
    tmpfile,     \* the file beside it, or None
    users,       \* state->users
    mtime,       \* state->mtime, or None for 0
    writer,      \* who has file_rwlock for writing over several steps
    worker,      \* the threads: [at, op, user, stat, read, found]
    clock,       \* the time, in seconds
    promised,    \* users that were added and whose deletion has not begun
    seen,        \* what a request would have found if it had looked into the
                 \* file itself, at any time since it began
    behind,      \* the file was changed in the second whose time is noted
    crossed      \* the tree is older than the time that is noted

fileVars == <<passwdfile, tmpfile>>
cacheVars == <<users, mtime, crossed>>
historyVars == <<promised, seen, behind>>
usersVars == <<fileVars, cacheVars, writer, worker, clock, historyVars>>

Steps == {"idle", "stat", "open", "install", "use", "compare", "answer",
           "append", "copy", "remove", "rename"}
Idle == [at |-> "idle", op |-> "list", user |-> None,
         stat |-> 0, read |-> {}, found |-> "no"]
IsAt(w, l, op) == worker[w].at = l /\ worker[w].op = op
GoTo(w, l) == worker' = [worker EXCEPT ![w].at = l]
LockFree == writer = None

Content(f) == IF f = None THEN {} ELSE f.users
FileOf(us) == [users |-> us, mtime |-> clock]

(* auth_get_htpasswd_auth has read the file, which is an old one. *)
UsersInit ==
    /\ passwdfile = [users |-> User, mtime |-> 0] /\ tmpfile = None
    /\ users = User /\ mtime = 0 /\ crossed = FALSE
    /\ writer = None /\ worker = [w \in Worker |-> Idle] /\ clock = 1
    /\ promised = User /\ seen = [w \in Worker |-> {}] /\ behind = FALSE

(* Without a file anything may be found. *)
Either == {"yes", "no"}
In(u, us) == IF u \in us THEN "yes" ELSE "no"
Finds(f, u) == IF f = None THEN Either ELSE {In(u, f.users)}

(* The file becomes f.  If its time was noted already this is not seen. *)
Noted(t) == mtime = t \/ \E w \in Worker : worker[w].at \in {"open", "install"}
                                           /\ worker[w].stat = t
Becomes(f) ==
    /\ passwdfile' = f
    /\ behind' = IF f = None THEN behind ELSE Noted(f.mtime)
    /\ seen' = [w \in Worker |-> IF worker[w].op = "auth"
                                 THEN seen[w] \cup Finds(f, worker[w].user) ELSE {}]

----------------------------------------------------------------------------
(* A listener asks, or an admin request changes or lists the users. *)
AskAbout(w, op, u) ==
    /\ worker[w] = Idle
    /\ worker' = [worker EXCEPT ![w] = [Idle EXCEPT !.op = op, !.user = u,
                      !.at = IF op = "delete" THEN "use" ELSE "stat"]]
    /\ seen' = [seen EXCEPT ![w] = IF op = "auth" THEN Finds(passwdfile, u) ELSE {}]
    /\ UNCHANGED <<fileVars, cacheVars, writer, clock, promised, behind>>

(* After a change the users are listed; or that is all that is asked. *)
ThenList(w) == worker' = [worker EXCEPT ![w] = [Idle EXCEPT !.at = "stat"]]
AskList(w) ==
    /\ worker[w] = Idle /\ ThenList(w)
    /\ UNCHANGED <<fileVars, cacheVars, writer, clock, historyVars>>
List(w) ==
    /\ IsAt(w, "use", "list") /\ LockFree /\ worker' = [worker EXCEPT ![w] = Idle]
    /\ UNCHANGED <<fileVars, cacheVars, writer, clock, historyVars>>

----------------------------------------------------------------------------
(* htpasswd_recheckfile *)

(* It ends a deletion; the others go on to use the tree. *)
Checked(w) ==
    IF worker[w].op = "delete" THEN ThenList(w)
    ELSE worker' = [worker EXCEPT ![w].at = "use", ![w].stat = 0, ![w].read = {}]

(* The tree is not what the noted time says: after a change in the same    *)
(* second, after an older one was put in its place, or while another       *)
(* thread has noted the time and has not replaced it.                      *)
Unsure(w) == behind \/ crossed \/ \E v \in Worker \ {w} : worker[v].at = "install"
Excuse(w) == seen' = [seen EXCEPT ![w] = IF worker[w].op = "auth" /\ Unsure(w)
                                         THEN Either ELSE @]

(* Mutant: the file is not looked at again. *)
StatNever(w) ==
    /\ worker[w].at = "stat" /\ Excuse(w) /\ Checked(w)
    /\ UNCHANGED <<fileVars, cacheVars, writer, clock, promised, behind>>

(* Without a file the tree stays; an empty one is made if there is none,   *)
(* with the lock.                                                          *)
Stat(w) ==
    /\ worker[w].at = "stat" /\ Excuse(w)
    /\ \/ passwdfile = None /\ LockFree /\ Checked(w)
       \/ passwdfile # None /\ passwdfile.mtime = mtime /\ Checked(w)
       \/ /\ passwdfile # None /\ passwdfile.mtime # mtime
          /\ worker' = [worker EXCEPT ![w].at = "open", ![w].stat = passwdfile.mtime]
    /\ UNCHANGED <<fileVars, cacheVars, writer, clock, promised, behind>>

(* The file is gone now, or cannot be read: the tree stays. *)
OpenFails(w) ==
    /\ worker[w].at = "open" /\ Checked(w)
    /\ seen' = [seen EXCEPT ![w] = IF worker[w].op = "auth" THEN Either ELSE @]
    /\ UNCHANGED <<fileVars, cacheVars, writer, clock, promised, behind>>

(* Its time is noted, and it is read. *)
ReadFile(w) ==
    /\ worker[w].at = "open" /\ passwdfile # None
    /\ mtime' = worker[w].stat
    /\ worker' = [worker EXCEPT ![w].at = "install", ![w].read = passwdfile.users]
    /\ UNCHANGED <<fileVars, users, crossed, writer, clock, historyVars>>

(* The tree is replaced, with the lock.  It is freed under a thread that   *)
(* has found its user in it and compares the password.                     *)
Freed(v) == IF v.at = "compare" THEN [v EXCEPT !.found = "freed"] ELSE v
Install(w) ==
    /\ worker[w].at = "install" /\ LockFree
    /\ users' = worker[w].read /\ crossed' = (mtime # worker[w].stat)
    /\ LET done == IF worker[w].op = "delete" THEN [Idle EXCEPT !.at = "stat"]
                   ELSE [worker[w] EXCEPT !.at = "use", !.stat = 0, !.read = {}]
       IN  worker' = [v \in Worker |-> IF v = w THEN done ELSE Freed(worker[v])]
    /\ UNCHANGED <<fileVars, mtime, writer, clock, historyVars>>

----------------------------------------------------------------------------
(* htpasswd_auth: the user is looked up, and the lock is released before   *)
(* the password is compared.                                               *)
Lookup(w) ==
    /\ IsAt(w, "use", "auth") /\ LockFree
    /\ worker' = IF worker[w].user \in users
                 THEN [worker EXCEPT ![w].at = "compare", ![w].found = "yes"]
                 ELSE [worker EXCEPT ![w].at = "answer"]
    /\ UNCHANGED <<fileVars, cacheVars, writer, clock, historyVars>>
Compare(w) ==
    /\ worker[w].at = "compare" /\ GoTo(w, "answer")
    /\ UNCHANGED <<fileVars, cacheVars, writer, clock, historyVars>>
Answer(w) ==
    /\ worker[w].at = "answer" /\ worker' = [worker EXCEPT ![w] = Idle]
    /\ seen' = [seen EXCEPT ![w] = {}]
    /\ UNCHANGED <<fileVars, cacheVars, writer, clock, promised, behind>>

----------------------------------------------------------------------------
(* htpasswd_adduser, with the lock.  The user exists, or the file cannot   *)
(* be opened.                                                              *)
AddRefused(w) ==
    /\ IsAt(w, "use", "add") /\ LockFree /\ ThenList(w)
    /\ UNCHANGED <<fileVars, cacheVars, writer, clock, historyVars>>

(* Opening a file that is not there creates it; the user is written when   *)
(* it is closed.                                                           *)
CreateFile(w) ==
    /\ IsAt(w, "use", "add") /\ LockFree /\ worker[w].user \notin users
    /\ passwdfile = None /\ Becomes(FileOf({}))
    /\ writer' = w /\ GoTo(w, "append")
    /\ UNCHANGED <<tmpfile, cacheVars, clock, promised>>
AddUser(w) ==
    /\ \/ /\ IsAt(w, "use", "add") /\ LockFree /\ worker[w].user \notin users
          /\ passwdfile # None
       \/ worker[w].at = "append"
    /\ Becomes(FileOf(passwdfile.users \cup {worker[w].user}))
    /\ promised' = promised \cup {worker[w].user}
    /\ writer' = None /\ ThenList(w)
    /\ UNCHANGED <<tmpfile, cacheVars, clock>>

----------------------------------------------------------------------------
(* htpasswd_deleteuser, with the lock *)

(* Mutant: a second file that is there is overwritten. *)
MayDeleteAgain == passwdfile # None

(* There is a file, and no second one that an earlier deletion has left. *)
MayDelete == passwdfile # None /\ tmpfile = None

(* It may not, or the second file cannot be created. *)
DeleteRefused(w) ==
    /\ IsAt(w, "use", "delete") /\ LockFree /\ ThenList(w)
    /\ UNCHANGED <<fileVars, cacheVars, writer, clock, historyVars>>
DeleteUser(w) ==
    /\ IsAt(w, "use", "delete") /\ LockFree /\ MayDelete
    /\ writer' = w /\ tmpfile' = FileOf({})
    /\ promised' = promised \ {worker[w].user} /\ GoTo(w, "copy")
    /\ UNCHANGED <<passwdfile, cacheVars, clock, seen, behind>>
CopyOthers(w) ==
    /\ worker[w].at = "copy" /\ GoTo(w, "remove")
    /\ tmpfile' = FileOf(passwdfile.users \ {worker[w].user})
    /\ UNCHANGED <<passwdfile, cacheVars, writer, clock, historyVars>>
RemoveFile(w) ==
    /\ worker[w].at = "remove" /\ GoTo(w, "rename") /\ Becomes(None)
    /\ UNCHANGED <<tmpfile, cacheVars, writer, clock, promised>>
Rename(w) ==
    /\ worker[w].at = "rename" /\ GoTo(w, "stat") /\ writer' = None
    /\ Becomes(tmpfile) /\ tmpfile' = None
    /\ UNCHANGED <<cacheVars, clock, promised>>

(* remove or rename fails: the second file stays. *)
DeleteFails(w) ==
    /\ worker[w].at \in {"remove", "rename"} /\ GoTo(w, "stat") /\ writer' = None
    /\ UNCHANGED <<fileVars, cacheVars, clock, historyVars>>

----------------------------------------------------------------------------
(* The server stops and is started again. *)
Restart ==
    /\ worker' = [w \in Worker |-> Idle] /\ writer' = None
    /\ users' = Content(passwdfile) /\ crossed' = FALSE
    /\ mtime' = IF passwdfile = None THEN None ELSE passwdfile.mtime
    /\ seen' = [w \in Worker |-> {}] /\ behind' = FALSE
    /\ UNCHANGED <<fileVars, clock, promised>>

Second ==
    /\ clock < MaxTime /\ clock' = clock + 1
    /\ UNCHANGED <<fileVars, cacheVars, writer, worker, historyVars>>

Recheck(w) == Stat(w) \/ OpenFails(w) \/ ReadFile(w) \/ Install(w)
Authenticate(w) == Lookup(w) \/ Compare(w) \/ Answer(w)
Manage(w) == \/ AddRefused(w) \/ CreateFile(w) \/ AddUser(w)
             \/ List(w) \/ DeleteRefused(w) \/ DeleteUser(w) \/ CopyOthers(w) \/ RemoveFile(w)
             \/ Rename(w) \/ DeleteFails(w)
UsersNext ==
    \/ \E w \in Worker, op \in {"auth", "add", "delete"}, u \in User : AskAbout(w, op, u)
    \/ \E w \in Worker : AskList(w) \/ Recheck(w) \/ Authenticate(w) \/ Manage(w)
    \/ Restart \/ Second
UsersSpec == UsersInit /\ [][UsersNext]_usersVars

----------------------------------------------------------------------------
(* Properties *)

(* Every variable has its type. *)
Request == [at : Steps, op : {"auth", "add", "delete", "list"}, user : User \cup {None},
            stat : 0 .. MaxTime, read : SUBSET User, found : Either \cup {"freed"}]
UsersTypeOK ==
    /\ passwdfile \in File \cup {None} /\ tmpfile \in File \cup {None}
    /\ users \subseteq User /\ mtime \in (0 .. MaxTime) \cup {None}
    /\ crossed \in BOOLEAN /\ behind \in BOOLEAN
    /\ writer \in Worker \cup {None} /\ clock \in 0 .. MaxTime
    /\ worker \in [Worker -> Request]
    /\ promised \subseteq User /\ seen \in [Worker -> SUBSET Either]

(* No user is lost: one that was added, and whose deletion has not begun,  *)
(* is in the file or in the one beside it, whatever fails and whenever the *)
(* server stops.                                                           *)
UsersKept == promised \subseteq Content(passwdfile) \cup Content(tmpfile)

(* A listener is answered by what the file said at some time while he was  *)
(* asked about, although the users are kept in memory, other threads       *)
(* replace them and the file is changed at any time.  Left out are the     *)
(* cases of Unsure, in which the code does answer from an old tree, a file *)
(* that is missing or cannot be read, and a tree that was freed.           *)
AnsweredByFile == \A w \in Worker :
    worker[w].at = "answer" =>
        worker[w].found = "freed" \/ worker[w].found \in seen[w]
=============================================================================
