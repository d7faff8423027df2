------------------------------ MODULE KbCache -------------------------------
(***************************************************************************)
(* internal/vulnlookup/qualys: the cache of which QIDs find a CVE, that    *)
(* every scanner lookup goes through.  The file outlives the processes     *)
(* that read it; past MaxAge a process tops it up with what Qualys changed *)
(* since the file was written, page by page, while Qualys goes on changing *)
(* it and days pass; failing that it reads the whole KnowledgeBase, and    *)
(* failing that it goes on with the old cache and says so in its answers.  *)
(*                                                                         *)
(* Qualys (external) dates changes by the day and lists what changed on or *)
(* after a date.  Instants are held as ages in days, the midnights since,  *)
(* capped where the code no longer tells them apart; a process lives for   *)
(* less than a day.  A page is the record of one QID.                      *)
(* Left out: two processes refreshing at once (each has read every page it *)
(* builds on), and the redirect of a next page to another host.            *)
(***************************************************************************)
EXTENDS Integers, FiniteSets

CONSTANTS
    KbCVEs,
    LastQid,    \* the QIDs of the KnowledgeBase are 1 .. LastQid
    MaxAge,     \* kbMaxAge, in days
    NoCache     \* no file, or one that does not parse

KbAssumption ==
    /\ LastQid \in Nat \ {0}
    /\ MaxAge \in Nat

VARIABLES
    kb,         \* external: the KnowledgeBase
    kbFile,     \* QUALYS_KB_CACHE
    client      \* the Client of one process, and its loading of the cache

kbVars == <<kb, kbFile, client>>

KbQids == 1 .. LastQid
Cap == MaxAge + 2
KbAges == 0 .. Cap
Older(age) == IF age < Cap THEN age + 1 ELSE Cap

\* KBCache: the pairs of a CVE and a QID that finds it.
KBCache == SUBSET (KbCVEs \X KbQids)
Keys(cache) == {m[1] : m \in cache}
Entries(q) == kb[q].cves \X {q}

\* missed: observer, the QIDs changed after their page was read and on a day
\* before the cache was stamped.
CacheFile == [cache : KBCache, age : KbAges, missed : SUBSET KbQids]

\* since: the age of the date asked for.  matched: the parser knows the
\* elements.  late: the process lives past a midnight.  changed, missed:
\* observers, the QIDs changed since their page was read, today or before.
NoClient == [pc |-> "none", cache |-> {}, have |-> FALSE, stale |-> FALSE, since |-> 0,
             next |-> 1, got |-> {}, matched |-> TRUE, late |-> FALSE,
             changed |-> {}, missed |-> {}]
Downloading == client.pc \in {"refresh", "rebuild"}

-----------------------------------------------------------------------------
(* LoadOrBuildKBCache, memoised: it runs once in a process that succeeds.  *)

Download(pc, cl, ok) ==
    [cl EXCEPT !.pc = pc, !.next = 1, !.got = {}, !.matched = ok,
               !.changed = {}, !.missed = IF pc = "refresh" THEN @ ELSE {}]
Ready(cl, cache, stale) ==
    [NoClient EXCEPT !.pc = "ready", !.cache = cache, !.stale = stale, !.late = cl.late,
                     !.missed = cl.missed]

\* A cache within its age is used without a call.  An age in midnights may
\* be a day's part more or less.
FreshCache ==
    /\ client.pc = "none" /\ kbFile # NoCache /\ kbFile.age <= MaxAge
    /\ client' = Ready([NoClient EXCEPT !.missed = kbFile.missed], kbFile.cache, FALSE)
    /\ UNCHANGED <<kb, kbFile>>

BeginRefresh ==
    /\ client.pc = "none" /\ kbFile # NoCache /\ kbFile.age >= MaxAge
    /\ \E ok \in BOOLEAN :
         client' = Download("refresh", [NoClient EXCEPT !.cache = kbFile.cache, !.have = TRUE,
                                                        !.since = kbFile.age,
                                                        !.missed = kbFile.missed], ok)
    /\ UNCHANGED <<kb, kbFile>>

FirstBuild ==
    /\ client.pc = "none" /\ kbFile = NoCache
    /\ \E ok \in BOOLEAN : client' = Download("rebuild", NoClient, ok)
    /\ UNCHANGED <<kb, kbFile>>

\* Mutant: the day the cache was written is taken for read.
DayAfter(q) == kb[q].age < client.since
\* last_modified_after.
Listed(q) == kb[q].age <= client.since

\* getAllPages and parseKB: a page is asked for when the one before is read.
ReadPage ==
    /\ Downloading /\ client.next <= LastQid
    /\ client' = [client EXCEPT !.next = @ + 1,
                                !.got = IF client.matched
                                           /\ (client.pc = "rebuild" \/ Listed(client.next))
                                        THEN @ \cup Entries(client.next) ELSE @]
    /\ UNCHANGED <<kb, kbFile>>

\* The old cache, marked; without one the lookup fails, and the next tries again.
GiveUp(cl) == IF cl.have THEN Ready(cl, cl.cache, TRUE) ELSE NoClient

\* Any page that cannot be had, or cannot be read, fails a download.
PageFails ==
    /\ Downloading
    /\ IF client.pc = "refresh"
       THEN \E ok \in BOOLEAN : client' = Download("rebuild", client, ok)
       ELSE client' = GiveUp(client)
    /\ UNCHANGED <<kb, kbFile>>

\* writeKBCache, by a rename: the file is replaced whole or not at all.
WriteCache(cache) == kbFile' = [cache |-> cache, age |-> 0, missed |-> client.missed]

\* An incremental answer without a vulnerability is a failed one.
RefreshDone ==
    /\ client.pc = "refresh" /\ client.next > LastQid
    /\ LET merged == client.cache \cup client.got
       IN  IF client.got = {}
           THEN /\ \E ok \in BOOLEAN : client' = Download("rebuild", client, ok)
                /\ UNCHANGED kbFile
           ELSE /\ client' = Ready(client, merged, FALSE)
                /\ WriteCache(merged) \/ UNCHANGED kbFile
    /\ UNCHANGED kb

checkPlausibleRebuild(existing, fresh) ==
    /\ fresh # {}
    /\ Cardinality(Keys(fresh)) >= Cardinality(Keys(existing)) \div 2

RebuildDone ==
    /\ client.pc = "rebuild" /\ client.next > LastQid
    /\ IF checkPlausibleRebuild(client.cache, client.got)
       THEN \/ client' = Ready(client, client.got, FALSE) /\ WriteCache(client.got)
            \/ /\ client' = IF client.have THEN Ready(client, client.got, FALSE) ELSE NoClient
               /\ UNCHANGED kbFile
       ELSE client' = GiveUp(client) /\ UNCHANGED kbFile
    /\ UNCHANGED kb

\* The process ends, its lookups done or its time used up.
EndProcess ==
    /\ client.pc # "none"
    /\ client' = NoClient
    /\ UNCHANGED <<kb, kbFile>>

-----------------------------------------------------------------------------
(* Qualys, the operator and the days.                                      *)

ChangeVuln ==
    \E q \in KbQids : \E cs \in SUBSET KbCVEs \ {kb[q].cves} :
        /\ kb' = [kb EXCEPT ![q] = [cves |-> cs, age |-> 0]]
        /\ client' = [client EXCEPT !.changed = IF Downloading /\ q < client.next
                                                THEN @ \cup {q} ELSE @]
        /\ UNCHANGED kbFile

\* "To force it: delete the cache JSON and rerun" (fleet-kit/README.md).
DeleteCache ==
    /\ client.pc = "none" /\ kbFile # NoCache
    /\ kbFile' = NoCache
    /\ UNCHANGED <<kb, client>>

NextDay ==
    /\ ~client.late
    /\ kb' = [q \in KbQids |-> [kb[q] EXCEPT !.age = Older(@)]]
    /\ kbFile' = IF kbFile = NoCache THEN NoCache ELSE [kbFile EXCEPT !.age = Older(@)]
    /\ client' = [client EXCEPT !.late = client.pc # "none",
                                !.since = IF client.pc = "refresh" THEN Older(@) ELSE @,
                                !.missed = @ \cup client.changed,
                                !.changed = {}]

\* Qualys knows none of these CVEs yet.
KbInit ==
    /\ kb = [q \in KbQids |-> [cves |-> {}, age |-> Cap]]
    /\ kbFile = NoCache
    /\ client = NoClient

KbNext ==
    \/ FreshCache \/ BeginRefresh \/ FirstBuild \/ ReadPage \/ PageFails
    \/ RefreshDone \/ RebuildDone \/ EndProcess
    \/ ChangeVuln \/ DeleteCache \/ NextDay

KbSpec == KbInit /\ [][KbNext]_kbVars

-----------------------------------------------------------------------------
KbTypeOK ==
    /\ kb \in [KbQids -> [cves : SUBSET KbCVEs, age : KbAges]]
    /\ kbFile = NoCache \/ kbFile \in CacheFile
    /\ client.pc \in {"none", "refresh", "rebuild", "ready"}
    /\ client.cache \in KBCache /\ client.got \in KBCache /\ client.since \in KbAges
    /\ client.next \in 1 .. LastQid + 1

(* "Qualys has no QID for this CVE" and "our mapping is too old to know    *)
(* about this CVE" look identical in the output, and only one means you    *)
(* are covered: a cache that is not marked stale lacks no mapping Qualys   *)
(* has had for longer than MaxAge (and the day of a process that crosses a *)
(* midnight), but for one changed under a download that crossed it.        *)
MappingsAreRecent ==
    client.pc = "ready" /\ ~client.stale =>
        \A q \in KbQids :
            \/ Entries(q) \subseteq client.cache
            \/ kb[q].age <= MaxAge + (IF client.late THEN 1 ELSE 0)
            \/ q \in client.missed
=============================================================================
