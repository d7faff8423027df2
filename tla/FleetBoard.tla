------------------------------ MODULE FleetBoard -------------------------------
(***************************************************************************)
(* The message board (fleet-board): the runners, the heartbeat and         *)
(* cti-alert post one line each, the heartbeat and the operator move lines *)
(* to the archive, all under a lock that is a directory.  A lock older     *)
(* than 60 seconds is taken for that of a process that died.               *)
(*                                                                         *)
(* A process runs one command, and a line is named for the process that    *)
(* posts it.  A live owner is assumed to be done within 60 seconds, as     *)
(* acquire's comment has it.  When all have ended, the commands of a later *)
(* hour start on what the lock is by then; their lines alone are followed. *)
(* Left out: what a line says, which lines a pruning chooses, the reading  *)
(* commands, a full disk.                                                  *)
(***************************************************************************)
EXTENDS FiniteSets

CONSTANTS Procs, NoLock

LockDir == [by : Procs, old : BOOLEAN]
BoardAssumption == NoLock \notin LockDir

VARIABLES
    board, archive, \* board.md and its archive
    lock,           \* .board.lock: who made it, and whether it is past 60 s
    pc, aim,        \* by process: where its command is, and which command it is
    judged,         \* by process: the lock whose age it read
    moving, kept,   \* by process: the lines it moves, and those it keeps (tmp)
    posted,         \* observer: the lines whose post exited 0
    raced           \* observer: a process removed another lock than the one it judged

boardVars == <<board, archive, lock, pc, aim, judged, moving, kept, posted, raced>>

\* post and say; cti-alert, which posts and then mails; resolve, expire and prune.
Commands == {"post", "alert", "move"}
Working == {"append", "read", "archive", "replace", "leave"}

Goto(p, step) == pc' = [pc EXCEPT ![p] = step]
FilesUnchanged == UNCHANGED <<board, archive, kept, posted>>
Held == UNCHANGED <<lock, raced>>

BoardInit ==
    /\ board = {} /\ archive = {} /\ lock = NoLock
    /\ pc = [p \in Procs |-> "idle"] /\ aim = [p \in Procs |-> "post"]
    /\ judged = [p \in Procs |-> NoLock]
    /\ moving = [p \in Procs |-> {}] /\ kept = [p \in Procs |-> {}]
    /\ posted = {} /\ raced = FALSE

-----------------------------------------------------------------------------
(* acquire.                                                                 *)

\* The lines a pruning is for are fixed by its arguments.
Call(p) ==
    /\ pc[p] = "idle" /\ Goto(p, "mkdir")
    /\ \E command \in Commands, S \in SUBSET Procs :
         /\ command # "move" => S = {}
         /\ aim' = [aim EXCEPT ![p] = command] /\ moving' = [moving EXCEPT ![p] = S]
    /\ UNCHANGED judged /\ FilesUnchanged /\ Held

Mkdir(p) ==
    /\ pc[p] = "mkdir"
    /\ \/ /\ lock = NoLock /\ lock' = [by |-> p, old |-> FALSE]
          /\ Goto(p, IF aim[p] = "move" THEN "read" ELSE "append")
       \/ lock # NoLock /\ Goto(p, "look") /\ UNCHANGED lock
    /\ UNCHANGED <<aim, judged, moving, raced>> /\ FilesUnchanged

\* [ -d "$LOCK" ]: it may be gone by now, and is tried again after a pause.
LookForLock(p) ==
    /\ pc[p] = "look" /\ Goto(p, IF lock = NoLock THEN "mkdir" ELSE "stat")
    /\ UNCHANGED <<aim, judged, moving>> /\ FilesUnchanged /\ Held

\* Mutant: whoever waits takes the lock away.
AnyLock(l) == TRUE
\* The age of a lock that is gone by now reads as that of the epoch.
Stale(l) == l = NoLock \/ l.old
ReadAge(p) ==
    /\ pc[p] = "stat" /\ Goto(p, IF Stale(lock) THEN "rmdir" ELSE "mkdir")
    /\ judged' = [judged EXCEPT ![p] = IF Stale(lock) THEN lock ELSE NoLock]
    /\ UNCHANGED <<aim, moving>> /\ FilesUnchanged /\ Held

\* It removes what is there by now, a lock just taken included.
BreakLock(p) ==
    /\ pc[p] = "rmdir" /\ Goto(p, "mkdir")
    /\ lock' = NoLock /\ raced' = (raced \/ lock \notin {NoLock, judged[p]})
    /\ judged' = [judged EXCEPT ![p] = NoLock]
    /\ UNCHANGED <<aim, moving>> /\ FilesUnchanged

\* LOCK_TIMEOUT: exit 1, with nothing written.
GiveUp(p) ==
    /\ pc[p] = "mkdir" /\ lock # NoLock /\ Goto(p, "done")
    /\ UNCHANGED <<aim, judged, moving>> /\ FilesUnchanged /\ Held

-----------------------------------------------------------------------------
(* Under the lock.                                                          *)

Append(p) ==
    /\ pc[p] = "append" /\ Goto(p, "leave") /\ board' = board \cup {p}
    /\ UNCHANGED <<aim, judged, moving, archive, kept, posted>> /\ Held

\* archive_where: awk parts the board into what moves and what stays.
PartBoard(p) ==
    /\ pc[p] = "read" /\ Goto(p, "archive")
    /\ kept' = [kept EXCEPT ![p] = board \ moving[p]]
    /\ moving' = [moving EXCEPT ![p] = board \cap @]
    /\ UNCHANGED <<aim, judged, board, archive, posted>> /\ Held

ToArchive(p) ==
    /\ pc[p] = "archive" /\ Goto(p, "replace") /\ archive' = archive \cup moving[p]
    /\ UNCHANGED <<aim, judged, moving, board, kept, posted>> /\ Held

ReplaceBoard(p) ==
    /\ pc[p] = "replace" /\ Goto(p, "leave") /\ board' = kept[p]
    /\ UNCHANGED <<aim, judged, moving, archive, kept, posted>> /\ Held

\* The trap removes the lock, whosever it is by then, and the command exits 0.
Leave(p) ==
    /\ pc[p] = "leave" /\ Goto(p, IF aim[p] = "alert" THEN "mail" ELSE "done")
    /\ lock' = NoLock
    /\ posted' = IF aim[p] = "move" THEN posted ELSE posted \cup {p}
    /\ UNCHANGED <<aim, judged, moving, board, archive, kept, raced>>

-----------------------------------------------------------------------------
(* What ends a command on its way: systemd, a crash, and cti-alert, which   *)
(* gives its post ten seconds.  The trap does not run.                      *)

Kill(p) ==
    /\ pc[p] \notin {"idle", "mail", "done"}
    /\ \/ Goto(p, "done")
       \/ aim[p] = "alert" /\ Goto(p, "mail")
    /\ UNCHANGED <<aim, judged, moving>> /\ FilesUnchanged /\ Held

\* The mail is sent or not, whatever became of the line; the exit is 0.
MailAlert(p) ==
    /\ pc[p] = "mail" /\ Goto(p, "done")
    /\ UNCHANGED <<aim, judged, moving>> /\ FilesUnchanged /\ Held

AgeLock ==
    /\ lock # NoLock /\ pc[lock.by] \notin Working /\ ~lock.old
    /\ lock' = [lock EXCEPT !.old = TRUE]
    /\ UNCHANGED <<pc, aim, judged, moving, raced>> /\ FilesUnchanged

\* The commands of a later hour.
LaterOnes ==
    /\ \A p \in Procs : pc[p] = "done"
    /\ pc' = [p \in Procs |-> "idle"] /\ aim' = [p \in Procs |-> "post"]
    /\ board' = {} /\ archive' = {} /\ posted' = {} /\ raced' = FALSE
    /\ kept' = [p \in Procs |-> {}] /\ moving' = [p \in Procs |-> {}]
    /\ judged' = [p \in Procs |-> NoLock]
    /\ UNCHANGED lock

Step(p) ==
    \/ Call(p) \/ Mkdir(p) \/ LookForLock(p) \/ ReadAge(p) \/ BreakLock(p) \/ GiveUp(p)
    \/ Append(p) \/ PartBoard(p) \/ ToArchive(p) \/ ReplaceBoard(p) \/ Leave(p)
    \/ Kill(p) \/ MailAlert(p)

BoardNext == AgeLock \/ LaterOnes \/ \E p \in Procs : Step(p)

BoardSpec == BoardInit /\ [][BoardNext]_boardVars

-----------------------------------------------------------------------------
(* Properties.                                                              *)

BoardTypeOK ==
    /\ {board, archive, posted} \subseteq SUBSET Procs
    /\ lock \in LockDir \cup {NoLock}
    /\ pc \in [Procs -> Working \cup {"idle", "mkdir", "look", "stat", "rmdir", "mail", "done"}]
    /\ aim \in [Procs -> Commands] /\ raced \in BOOLEAN
    /\ judged \in [Procs -> LockDir \cup {NoLock}]
    /\ {moving, kept} \subseteq [Procs -> SUBSET Procs]

\* A line whose post said it was written is on the board or in the archive,
\* whatever was posted, moved and killed meanwhile (fleet-board: "Two lanes
\* writing at the same instant will never interleave").  Excused is one thing
\* the code lets happen: a lock taken between another process's look at the
\* age of the one before it and that process's rmdir (raced).
BoardKept == raced \/ posted \subseteq board \cup archive
=============================================================================
