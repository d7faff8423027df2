------------------------------- MODULE OwnersDb --------------------------------
(***************************************************************************)
(* Who owns each application (fleet-owners): owners.db, edited by hand by  *)
(* several people, and owners.json, the snapshot of it that the Go lanes   *)
(* read in its place (ownersource.go).  The snapshot is written inside the *)
(* transaction and renamed after its commit, all under one file lock.      *)
(*                                                                         *)
(* A process is one command.  Entries are keyed by id; hosts are a         *)
(* Boolean, "covers some".  Left out: names of applications and the        *)
(* history's text (display), the commands that only read, who may write    *)
(* which file, a database restored from a backup.                          *)
(***************************************************************************)
EXTENDS Naturals, FiniteSets, Sequences

CONSTANTS
    Procs, Apps, Sites, People, Domains,
    OldFile,                \* app-owners.txt: a sequence of lines
    MaxWatchers,
    MaxChanges,             \* changes recorded (bound)
    NoOwner, NoFile, NoOne

\* Who owns what, a line of the file, and the database.
Entry == [owner : People \cup {NoOwner}, watchers : SUBSET People, covers : BOOLEAN]
Line == [app : Apps \cup Sites, owner : People \cup {NoOwner}, watchers : SUBSET People,
         covers : BOOLEAN]
Entries(K) == UNION {[S -> Entry] : S \in SUBSET K}
Db == [ready : BOOLEAN, change : Nat, apps : Entries(Apps), sites : Entries(Sites),
       domains : SUBSET Domains]

\* A reader of the file ignores the watchers past the limit.
OwnersDbAssumption ==
    /\ IsFiniteSet(Procs) /\ IsFiniteSet(People) /\ MaxWatchers \in Nat /\ MaxChanges \in Nat
    /\ OldFile \in Seq(Line)
    /\ \A i \in DOMAIN OldFile : Cardinality(OldFile[i].watchers) <= MaxWatchers
    /\ NoOne \notin Procs /\ NoOwner \notin People /\ NoFile \notin Db

VARIABLES
    db,                     \* owners.db, or NoFile
    snapshot,               \* owners.json, or NoFile
    flock, txn,             \* who holds .owners.lock, and SQLite's write lock
    pc, op, tmp,            \* by process: its step, its command, its snapshot
    behind                  \* observer: a change ended between its commit and the rename

dbVars == <<db, snapshot, flock, txn, pc, op, tmp, behind>>

Set(f, k, v) == [x \in DOMAIN f \cup {k} |-> IF x = k THEN v ELSE f[x]]
Drop(f, K) == [x \in DOMAIN f \ K |-> f[x]]

-----------------------------------------------------------------------------
(* app-owners.txt, where the later of two lines wins.                       *)

HasOwner(l) == l.owner # NoOwner
\* import keeps a line without an owner for the hosts it records, too.
Kept(l) == HasOwner(l) \/ (l.covers /\ l.app \in Apps)
Read(Counts(_), K) ==
    LET lines(k) == {i \in DOMAIN OldFile : OldFile[i].app = k /\ Counts(OldFile[i])}
    IN  [k \in {x \in K : lines(x) # {}} |->
           LET i == CHOOSE i \in lines(k) : \A j \in lines(k) : j <= i
           IN  [owner |-> OldFile[i].owner, watchers |-> OldFile[i].watchers, covers |-> OldFile[i].covers]]
parse_owners_file == [apps |-> Read(Kept, Apps), sites |-> Read(HasOwner, Sites)]
\* The lanes read it themselves while there is no database.
ParseOwners == [apps |-> Read(HasOwner, Apps), sites |-> Read(HasOwner, Sites)]

-----------------------------------------------------------------------------
(* What each command does to the database, or Refused.                      *)

Refused == [refused |-> TRUE]
SetOwner(d, a, p) ==
    [d EXCEPT !.apps = Set(@, a, IF a \in DOMAIN @ THEN [@[a] EXCEPT !.owner = p]
                                 ELSE [owner |-> p, watchers |-> {}, covers |-> FALSE])]
RemoveApp(d, a) == IF a \in DOMAIN d.apps THEN [d EXCEPT !.apps = Drop(@, {a})] ELSE Refused
AddWatcher(d, a, p) ==
    IF a \in DOMAIN d.apps /\ Cardinality(d.apps[a].watchers \cup {p}) <= MaxWatchers
    THEN [d EXCEPT !.apps[a].watchers = @ \cup {p}] ELSE Refused
RemoveWatcher(d, a, p) ==
    IF a \in DOMAIN d.apps /\ p \in d.apps[a].watchers
    THEN [d EXCEPT !.apps[a].watchers = @ \ {p}] ELSE Refused
Covers(d, a, yes) ==
    IF a \in DOMAIN d.apps /\ (yes \/ d.apps[a].covers)
    THEN [d EXCEPT !.apps[a].covers = yes] ELSE Refused
SetSite(d, s, p) ==
    [d EXCEPT !.sites = Set(@, s, [owner |-> p, watchers |-> {}, covers |-> FALSE])]
RemoveSite(d, s) == IF s \in DOMAIN d.sites THEN [d EXCEPT !.sites = Drop(@, {s})] ELSE Refused
Allow(d, x) == IF x \in d.domains THEN Refused ELSE [d EXCEPT !.domains = @ \cup {x}]
Disallow(d, x) == IF x \in d.domains THEN [d EXCEPT !.domains = @ \ {x}] ELSE Refused
\* Entries that are there already make the insert fail, unless they are replaced.
Import(d, replace, allowed) ==
    LET new == parse_owners_file
    IN  IF replace THEN [d EXCEPT !.apps = new.apps, !.sites = new.sites, !.domains = @ \cup allowed]
        ELSE IF DOMAIN d.apps \cap DOMAIN new.apps # {} \/ DOMAIN d.sites \cap DOMAIN new.sites # {}
        THEN Refused
        ELSE [d EXCEPT !.apps = [a \in DOMAIN @ \cup DOMAIN new.apps |->
                                   IF a \in DOMAIN new.apps THEN new.apps[a] ELSE @[a]],
                       !.sites = [s \in DOMAIN @ \cup DOMAIN new.sites |->
                                   IF s \in DOMAIN new.sites THEN new.sites[s] ELSE @[s]],
                       !.domains = @ \cup allowed]

Commands ==
    {<<"set", a, p>> : a \in Apps, p \in People} \cup {<<"rm", a>> : a \in Apps}
    \cup {<<c, a, p>> : c \in {"watch", "unwatch"}, a \in Apps, p \in People}
    \cup {<<"covers", a, yes>> : a \in Apps, yes \in BOOLEAN}
    \cup {<<"site", s, p>> : s \in Sites, p \in People} \cup {<<"rmsite", s>> : s \in Sites}
    \cup {<<c, x>> : c \in {"allow", "disallow"}, x \in Domains}
    \cup {<<"import", replace, X>> : replace \in BOOLEAN, X \in SUBSET Domains}
     \cup {<<"init">>, <<"snapshot">>}

Apply(c, d) ==
    CASE c[1] = "set" -> SetOwner(d, c[2], c[3])
      [] c[1] = "rm" -> RemoveApp(d, c[2])
      [] c[1] = "watch" -> AddWatcher(d, c[2], c[3])
      [] c[1] = "unwatch" -> RemoveWatcher(d, c[2], c[3])
      [] c[1] = "covers" -> Covers(d, c[2], c[3])
      [] c[1] = "site" -> SetSite(d, c[2], c[3])
      [] c[1] = "rmsite" -> RemoveSite(d, c[2])
      [] c[1] = "allow" -> Allow(d, c[2])
      [] c[1] = "disallow" -> Disallow(d, c[2])
      [] c[1] = "import" -> Import(d, c[2], c[3])
      [] OTHER -> d

\* What a command looks at before it takes the lock: another may get in between.
Looked(c) ==
    /\ c[1] \in {"rm", "watch", "unwatch", "covers"} => c[2] \in DOMAIN db.apps
    /\ c[1] = "import" /\ ~c[2] => db.apps = <<>> /\ db.sites = <<>>
    /\ c[1] = "allow" => c[2] \notin db.domains

-----------------------------------------------------------------------------
(* A command's steps.                                                       *)

At(p, step) == pc[p] = step
Goto(p, step) == pc' = [pc EXCEPT ![p] = step]

\* init creates the file; its tables and its version come after.
CreateDb(p) ==
    /\ At(p, "idle") /\ db = NoFile /\ Goto(p, "schema") /\ op' = [op EXCEPT ![p] = <<"init">>]
    /\ db' = [ready |-> FALSE, change |-> 0, apps |-> <<>>, sites |-> <<>>, domains |-> {}]
    /\ UNCHANGED <<snapshot, flock, txn, tmp, behind>>
CreateTables(p) ==
    /\ At(p, "schema") /\ Goto(p, "lock") /\ db' = [db EXCEPT !.ready = TRUE]
    /\ UNCHANGED <<snapshot, flock, txn, op, tmp, behind>>

Call(p) ==
    /\ At(p, "idle") /\ db # NoFile /\ db.ready /\ db.change < MaxChanges /\ Goto(p, "lock")
    /\ \E c \in Commands \ {<<"init">>} : Looked(c) /\ op' = [op EXCEPT ![p] = c]
    /\ UNCHANGED <<db, snapshot, flock, txn, tmp, behind>>

\* Mutant: the commands do not take the lock.
Unlocked(p) ==
    /\ At(p, "lock") /\ Goto(p, "begin")
    /\ UNCHANGED <<db, snapshot, flock, txn, op, tmp, behind>>
TakeLock(p) ==
    /\ At(p, "lock") /\ flock = NoOne /\ flock' = p /\ Goto(p, "begin")
    /\ UNCHANGED <<db, snapshot, txn, op, tmp, behind>>

Release(p) == flock' = IF flock = p THEN NoOne ELSE flock
End(p) == pc' = [pc EXCEPT ![p] = "idle"] /\ op' = [op EXCEPT ![p] = <<"none">>]

\* BEGIN IMMEDIATE, the command, and the snapshot of what it comes to.
Change(p) ==
    /\ At(p, "begin") /\ txn = NoOne
    /\ LET new == Apply(op[p], db)
       IN  IF new = Refused
           THEN End(p) /\ Release(p) /\ UNCHANGED <<txn, tmp>>
           ELSE /\ tmp' = [tmp EXCEPT ![p] = [new EXCEPT !.change = @ + 1]]
                /\ txn' = p /\ Goto(p, "commit") /\ UNCHANGED <<flock, op>>
    /\ UNCHANGED <<db, snapshot, behind>>

\* The commit, or a rollback that removes the snapshot.
Commit(p) ==
    /\ At(p, "commit") /\ txn' = NoOne
    /\ \/ db' = tmp[p] /\ Goto(p, "rename") /\ UNCHANGED <<flock, op, tmp>>
          /\ UNCHANGED behind
       \/ UNCHANGED db /\ End(p) /\ Release(p) /\ tmp' = [tmp EXCEPT ![p] = NoFile]
          /\ behind' = (behind \/ op[p] = <<"init">>)
    /\ UNCHANGED snapshot

\* os.replace may fail: the command says that the lanes read the old one.
Rename(p) ==
    /\ At(p, "rename") /\ End(p) /\ Release(p) /\ tmp' = [tmp EXCEPT ![p] = NoFile]
    /\ \/ snapshot' = tmp[p] /\ behind' = FALSE
       \/ UNCHANGED snapshot /\ behind' = TRUE
    /\ UNCHANGED <<db, txn>>

\* A command that is killed; what it had not committed is gone.
Kill(p) ==
    /\ ~At(p, "idle") /\ End(p) /\ Release(p)
    /\ txn' = IF txn = p THEN NoOne ELSE txn
    /\ tmp' = [tmp EXCEPT ![p] = NoFile]
    /\ behind' = (behind \/ At(p, "rename") \/ op[p] = <<"init">>)
    /\ UNCHANGED <<db, snapshot>>

\* list, show, check, history, export, backup.
ReadDb(p) == At(p, "idle") /\ db # NoFile /\ db.ready /\ UNCHANGED dbVars

\* A database that init never finished is refused by every command, init too.
RemoveHalfMade ==
    /\ db # NoFile /\ ~db.ready /\ \A p \in Procs : At(p, "idle")
    /\ db' = NoFile /\ behind' = FALSE
    /\ UNCHANGED <<snapshot, flock, txn, pc, op, tmp>>

-----------------------------------------------------------------------------
(* What the lanes load: the snapshot once it or the database is there, and  *)
(* then never the file.                                                     *)

LoadConfiguredOwners ==
    IF snapshot # NoFile THEN snapshot
    ELSE IF db # NoFile THEN [unreadable |-> TRUE]
    ELSE ParseOwners

DbInit ==
    /\ db = NoFile /\ snapshot = NoFile /\ flock = NoOne /\ txn = NoOne /\ behind = FALSE
    /\ pc = [p \in Procs |-> "idle"] /\ op = [p \in Procs |-> <<"none">>]
    /\ tmp = [p \in Procs |-> NoFile]

Work(p) ==
    \/ CreateDb(p) \/ CreateTables(p) \/ Call(p) \/ TakeLock(p)
    \/ Change(p) \/ Commit(p) \/ Rename(p) \/ Kill(p) \/ ReadDb(p)

DbNext == RemoveHalfMade \/ \E p \in Procs : Work(p)

DbSpec == DbInit /\ [][DbNext]_dbVars

-----------------------------------------------------------------------------
(* Properties.                                                              *)

IsDb(d) ==
    /\ d \in Db /\ d.change <= MaxChanges + Cardinality(Procs)
    /\ \A a \in DOMAIN d.apps : Cardinality(d.apps[a].watchers) <= MaxWatchers
    /\ \A s \in DOMAIN d.sites : d.sites[s].owner # NoOwner

DbTypeOK ==
    /\ db # NoFile => IsDb(db)
    /\ snapshot # NoFile => IsDb(snapshot) /\ db # NoFile
    /\ {flock, txn} \subseteq Procs \cup {NoOne}
    /\ \A p \in Procs : /\ pc[p] \in {"idle", "schema", "lock", "begin", "commit", "rename"}
                        /\ tmp[p] # NoFile => IsDb(tmp[p]) /\ pc[p] \in {"commit", "rename"}

\* The lanes read what the last change came to, whoever edited at the same
\* time: the snapshot falls behind only while a change is on its way from its
\* commit to the rename, or after one that ended there; and by their change
\* ids, which fleet-owners check compares, that shows (fleet-owners: "the
\* snapshot cannot fall behind it"; change: "the later commit is always the
\* snapshot left in place").
SnapshotFollows ==
    db # NoFile =>
        /\ \/ behind \/ ~db.ready
           \/ \E p \in Procs : pc[p] = "rename" \/ op[p] = <<"init">>
           \/ LoadConfiguredOwners = db
        /\ snapshot # NoFile /\ snapshot.change = db.change => snapshot = db
=============================================================================
