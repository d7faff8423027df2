------------------------------ MODULE MailPolicy -------------------------------
(***************************************************************************)
(* Who the fleet mails: cti-mailer (digest, escalation, developer's test,  *)
(* lane and owner sends) and mailer.py, which run-digest and               *)
(* run-patchtuesday call for the real send.  fleet.env and the owners are  *)
(* edited by hand between sends.                                           *)
(*                                                                         *)
(* A setting is the set of its entries: addresses, and the names of other  *)
(* lists that it refers to.  An unset setting is {}, one set to nothing is *)
(* {""}.  Left out: order, letter case, the body, subject and attachments, *)
(* what Graph answers (a refused send is no mail).                         *)
(***************************************************************************)
EXTENDS FiniteSets, Naturals

CONSTANTS
    Addresses, DomainOf,    \* well-formed addresses, and their domains
    Wild,                   \* a reference that names no list, as $*_ALLOW_TO
    LaneNames, ToVar, AllowVar, \* the named lanes, with their two settings each
    Settings,               \* setting |-> the values it may be edited to
    Start,                  \* fleet.env and the owners at the start
    OwnerEntries,           \* the entries and allowed domains owners may have
    Extra,                  \* what --to and --cc may name
    MaxRefDepth, MaxEdits, NoMail

VARIABLES
    env,                    \* fleet.env
    owners,                 \* the application's entry, and the source's domains
    edits,                  \* lines edited so far (bound)
    mail                    \* the mail that was just sent

mailVars == <<env, owners, edits, mail>>

Refs == DOMAIN Settings
Tokens == UNION {UNION Settings[v] : v \in Refs}
Digest == {"VM_ALLOW_TO", "FLEET_ALLOW_TO"}
BaseKinds == {"digest", "operator", "dev", "owner"}

\* A lane has an allowlist of its own (lane.go).
PolicyAssumption ==
    /\ {MaxRefDepth, MaxEdits} \subseteq Nat
    /\ Digest \cup {ToVar[l] : l \in LaneNames} \cup {"DIGEST_TO", "DIGEST_CC",
         "DIGEST_CC_FROM_ALLOW_TO", "FLEET_OPERATOR_EMAIL", "FLEET_DEV_EMAIL",
         "OWNER_ALLOW_DOMAINS"} \subseteq Refs
    /\ \A l \in LaneNames : l \notin BaseKinds /\ AllowVar[l] \in Refs \ Digest
    /\ DOMAIN Start.env = Refs /\ \A v \in Refs : Start.env[v] \in Settings[v]
    /\ Start.owners \in OwnerEntries

Entries(v) == v \ {""}
Refused == [ok |-> FALSE, to |-> {}, cc |-> {}]
Granted(to, cc) == [ok |-> TRUE, to |-> to, cc |-> cc \ to]
Valid(S) == S \subseteq Addresses
Operator == Entries(env["FLEET_OPERATOR_EMAIL"])
\* An address setting is one key of an allowlist, whatever is in it.
Key(S) == IF Cardinality(S) = 1 THEN S ELSE {}
\* What a flag gives, else what the setting has.
Pick(flag, var) == IF flag # {} THEN flag ELSE Entries(env[var])

-----------------------------------------------------------------------------
(* The digest's allowlist, under its two names (allow.go).                  *)

VMList == Entries(env["VM_ALLOW_TO"])
OldList == Entries(env["FLEET_ALLOW_TO"])
TwoLists == VMList # {} /\ OldList # {} /\ VMList # OldList
VMAllow == IF TwoLists THEN {} ELSE VMList \cup OldList
\* mailer.py goes on with the new name's, for an escalation.
PyVMAllow == IF VMList # {} THEN VMList ELSE OldList

IsSet(ref) == IF ref \in Digest THEN VMAllow # {} ELSE env[ref] # {}
ListOf(ref) == IF ref \in Digest THEN VMAllow ELSE Entries(env[ref])

\* References are followed MaxRefDepth deep, each set and not yet on the way;
\* anything else refuses the whole list (allowref.go).
Bad == [ok |-> FALSE, list |-> {}]
\* A list at one depth, its references expanded by the walk one deeper.
Expand(depth, deeper, list, chain) ==
    LET refs == list \cap Refs
        below == {deeper[ListOf(r)][chain \cup {r}] : r \in refs}
    IN  IF \/ depth > MaxRefDepth \/ Wild \in list
           \/ \E r \in refs : r \in chain \/ ~IsSet(r)
           \/ \E b \in below : ~b.ok
        THEN Bad ELSE [ok |-> TRUE, list |-> (list \ refs) \cup UNION {b.list : b \in below}]
Level(depth, deeper) ==
    [list \in SUBSET Tokens |-> [chain \in SUBSET Refs |-> Expand(depth, deeper, list, chain)]]
Walk[depth \in 0 .. MaxRefDepth + 1] == Level(depth, Walk[depth + 1])
ExpandAllow(list) == Walk[0][list][{}]

-----------------------------------------------------------------------------
(* The audience of a request: kind, to and cc as the flags give them,       *)
(* whether the operator approved it, and by which program it is sent.       *)

\* Mutant: an allowlist that is not set is the digest's, as in CheckAllowed.
FallsBack(r) ==
    LET own == Entries(env[AllowVar[r.kind]])
        list == IF own = {} THEN VMAllow \cup Entries(env["DIGEST_TO"]) ELSE own
        to == Pick(r.to, ToVar[r.kind])
        allow == ExpandAllow(list)
    IN  IF to # {} /\ allow.ok /\ Valid(to) /\ (to \subseteq allow.list \cup Key(Operator) \/ r.approve)
        THEN Granted(to, {}) ELSE Refused

\* A lane's own recipients and its own allowlist, which has no fallback.
LaneResolve(r) ==
    LET to == Pick(r.to, ToVar[r.kind])
        own == Entries(env[AllowVar[r.kind]])
        allow == ExpandAllow(own)
        outside == to \ (allow.list \cup Key(Operator))
    IN  IF /\ own # {} /\ to # {} /\ allow.ok /\ allow.list # {}
           /\ Valid(to) /\ (outside = {} \/ r.approve)
        THEN Granted(to, {}) ELSE Refused

\* The owner and the watchers on the application's entry, at the domains of
\* the owners' source when it keeps some, else of fleet.env.
OwnerDomains ==
    IF owners.managed THEN owners.domains ELSE Entries(env["OWNER_ALLOW_DOMAINS"])
OwnerAudience(r) ==
    LET permitted(a) == a \in Addresses /\ DomainOf[a] \in OwnerDomains
    IN  IF /\ r.to = {} /\ r.cc = {} /\ owners.email # "" /\ OwnerDomains # {}
           /\ permitted(owners.email)
        THEN Granted({owners.email}, {w \in owners.watchers : permitted(w)})
        ELSE Refused

DigestTo(r) == Pick(r.to, "DIGEST_TO")
DigestCC(r, allow) ==
    Pick(r.cc, "DIGEST_CC") \cup (IF "true" \in env["DIGEST_CC_FROM_ALLOW_TO"] THEN allow ELSE {})

\* CheckAllowed, on To and Cc: DIGEST_TO is the allowlist when none is set.
Allowed(got, allow, preapproved, r) ==
    \/ got \subseteq (IF allow # {} THEN allow ELSE Entries(env["DIGEST_TO"])) \cup preapproved
    \/ r.approve

\* To and Cc of what is no lane's.
GoAudience(r) ==
    LET dev == Entries(env["FLEET_DEV_EMAIL"])
        to == CASE r.kind = "dev" -> dev
                [] r.kind = "operator" -> Operator
                [] OTHER -> DigestTo(r)
        cc == IF r.kind = "digest" THEN DigestCC(r, VMAllow) ELSE {}
    IN  IF /\ r.kind # "digest" => r.to = {}
           /\ to # {} /\ Valid(to \cup cc)
           /\ Allowed(to \cup cc, VMAllow, Key(IF r.kind = "dev" THEN dev ELSE Operator), r)
        THEN Granted(to, cc) ELSE Refused

PyAudience(r) ==
    LET to == IF r.kind = "operator" THEN Operator ELSE DigestTo(r)
        cc == IF r.kind = "operator" THEN {} ELSE DigestCC(r, PyVMAllow)
    IN  IF /\ r.kind \in {"digest", "operator"} /\ (r.kind = "operator" => r.to = {})
           /\ r.kind = "digest" => ~TwoLists
           /\ to # {} /\ Valid(to \cup cc) /\ Allowed(to \cup cc, PyVMAllow, Key(Operator), r)
        THEN Granted(to, cc) ELSE Refused

Audience(r) ==
    IF r.by = "mailer.py" THEN PyAudience(r)
    ELSE IF TwoLists /\ r.kind # "operator" THEN Refused
    ELSE IF r.kind \in LaneNames THEN LaneResolve(r)
    ELSE IF r.kind = "owner" THEN OwnerAudience(r) ELSE GoAudience(r)

-----------------------------------------------------------------------------
Requests ==
    [by : {"cti-mailer", "mailer.py"}, kind : BaseKinds \cup LaneNames,
     to : Extra, cc : Extra, approve : BOOLEAN, mustApprove : BOOLEAN]

\* One request: its mail, or none when it is refused.
Send(r) ==
    LET a == Audience(r)
    IN  /\ mail = NoMail
        /\ mail' = IF a.ok /\ (r.mustApprove => r.approve)
                   THEN [request |-> r, to |-> a.to, cc |-> a.cc] ELSE NoMail
        /\ UNCHANGED <<env, owners, edits>>

\* It is delivered, and nothing of it is kept.
Delivered == mail # NoMail /\ mail' = NoMail /\ UNCHANGED <<env, owners, edits>>

EditSetting ==
    /\ edits < MaxEdits /\ edits' = edits + 1
    /\ \E v \in DOMAIN Settings : \E new \in Settings[v] \ {env[v]} : env' = [env EXCEPT ![v] = new]
    /\ mail' = NoMail /\ UNCHANGED owners

EditOwners ==
    /\ edits < MaxEdits /\ edits' = edits + 1
    /\ owners' \in OwnerEntries \ {owners}
    /\ mail' = NoMail /\ UNCHANGED env

PolicyInit ==
    env = Start.env /\ owners = Start.owners /\ edits = 0 /\ mail = NoMail

PolicyNext == EditSetting \/ EditOwners \/ Delivered \/ \E r \in Requests : Send(r)

PolicySpec == PolicyInit /\ [][PolicyNext]_mailVars

-----------------------------------------------------------------------------
(* Properties.                                                              *)

PolicyTypeOK ==
    /\ DOMAIN env = DOMAIN Settings
    /\ owners \in OwnerEntries /\ edits \in 0..MaxEdits
    /\ mail # NoMail => /\ mail.request \in Requests
                        /\ mail.to # {} /\ mail.to \cup mail.cc \subseteq Addresses
                        /\ mail.to \cap mail.cc = {}

\* The lists that a lane's allowlist names, directly or through others.
Closed(S) == \A s \in S : ListOf(s) \cap Refs \subseteq S
Named(l) == {n \in Refs : \A S \in SUBSET Refs : AllowVar[l] \in S /\ Closed(S) => n \in S}
Standing(l) == UNION {ListOf(n) : n \in Named(l)}

\* A mail reaches those alone whom the settings in force name for it.  A test
\* reaches the developer, an escalation the operator; what nobody approved
\* stays within the allowlist of its own lane, which has to be set; an owner's
\* report stays within the allowed domains, approved or not; and while the
\* digest's allowlist has two values only the operator is told (lane.go: a lane
\* allowlist has no fallback; allow.go; owner.go: --approve does not widen it).
OnlyAllowed ==
    mail # NoMail =>
        LET got == mail.to \cup mail.cc
            r == mail.request
        IN  /\ TwoLists => r.kind = "operator"
            /\ r.kind = "dev" => got \subseteq Entries(env["FLEET_DEV_EMAIL"])
            /\ r.kind = "operator" => got \subseteq Operator
            /\ r.kind = "owner" => {DomainOf[a] : a \in got} \subseteq OwnerDomains
            /\ r.kind \in LaneNames =>
                 /\ Entries(env[AllowVar[r.kind]]) # {} /\ mail.cc = {}
                 /\ r.approve \/ got \subseteq Standing(r.kind) \cup Operator
            /\ r.kind = "digest" =>
                 \/ r.approve
                 \/ got \subseteq Operator \cup VMList \cup OldList
                 \/ VMList \cup OldList = {} /\ got \subseteq Operator \cup Entries(env["DIGEST_TO"])
=============================================================================
