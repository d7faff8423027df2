--------------------------- MODULE MailPolicyProofs ---------------------------
(***************************************************************************)
(* Theorems of MailPolicy, for every setting there may be, every value it  *)
(* may be edited to, and every depth of references.                        *)
(*                                                                         *)
(* That a mail reaches only who it may is a fact of the step that sends    *)
(* it.  What takes an argument is a lane's allowlist: it may name other    *)
(* lists, which name others.  Walk follows them, to a depth; WalkIs shows  *)
(* that it is the function its definition describes, and WalkStays that    *)
(* what it collects was named by a list the lane's own one leads to.  Both *)
(* go from the deepest level up, by the least counterexample.              *)
(***************************************************************************)
EXTENDS MailPolicy, WellFoundedInduction, TLAPS

-----------------------------------------------------------------------------
(* What a list of references comes to.                                     *)

Depths == 0 .. MaxRefDepth + 1
AllBad == [list \in SUBSET Tokens |-> [chain \in SUBSET Refs |-> Bad]]

LEMMA LevelIs ==
    ASSUME NEW d, NEW f, NEW list \in SUBSET Tokens, NEW chain \in SUBSET Refs
    PROVE  Level(d, f)[list][chain] = Expand(d, f, list, chain)
BY DEF Level

\* Past the depth every list is refused, whatever is below.
LEMMA PastTheDepth ==
    ASSUME NEW d, NEW f, d > MaxRefDepth PROVE Level(d, f) = AllBad
<1>1. \A list \in SUBSET Tokens, chain \in SUBSET Refs : Expand(d, f, list, chain) = Bad
  BY DEF Expand
<1> QED BY <1>1 DEF Level, AllBad

\* Walk is what its definition says: a function that satisfies the equation
\* exists, built from the deepest level up.
LEMMA WalkIs ==
    ASSUME MaxRefDepth \in Nat
    PROVE  \A d \in Depths : Walk[d] = Level(d, Walk[d + 1])
<1> DEFINE IsWalk(f, k) == \A d \in Depths : d >= k => f[d] = Level(d, f[d + 1])
           Missing ==
             {n \in Depths : ~\E f : DOMAIN f = Depths /\ f = [d \in Depths |-> f[d]]
                                    /\ IsWalk(f, MaxRefDepth + 1 - n)}
<1>1. Missing = {}
  <2> SUFFICES ASSUME Missing # {} PROVE FALSE
    OBVIOUS
  <2>1. Missing \subseteq Nat
    BY DEF Depths
  <2> HIDE DEF Missing
  <2>2. PICK n \in Missing : \A m \in Missing : ~(<<m, n>> \in OpToRel(<, Nat))
    BY <2>1, NatLessThanWellFounded, WFMin
  <2>3. n \in Depths /\ n \in Nat
    BY <2>1, <2>2 DEF Missing
  <2>4. \A m \in Missing : ~(m < n)
    BY <2>1, <2>2, <2>3 DEF OpToRel
  <2> USE DEF Missing
  <2> DEFINE k == MaxRefDepth + 1 - n
  <2>5. CASE n = 0
    <3> DEFINE f == [d \in Depths |-> AllBad]
    <3>1. IsWalk(f, k)
      <4> SUFFICES ASSUME NEW d \in Depths, d >= k PROVE f[d] = Level(d, f[d + 1])
        OBVIOUS
      <4>1. d > MaxRefDepth
        BY <2>5 DEF Depths
      <4> QED BY <4>1, PastTheDepth
    <3>2. DOMAIN f = Depths /\ f = [d \in Depths |-> f[d]]
      OBVIOUS
    <3> HIDE DEF IsWalk, f
    <3> QED BY <2>2, <3>1, <3>2
  <2>6. CASE n # 0
    <3>0. ~(n - 1 \in Missing)
      <4>1. n - 1 < n
        BY <2>3
      <4> HIDE DEF Missing
      <4> QED BY <2>4, <4>1
    <3>1. /\ n - 1 \in Depths /\ MaxRefDepth + 1 - (n - 1) = k + 1
          /\ k \in Depths /\ k + 1 \in Depths
      <4> HIDE DEF Missing
      <4> QED BY <2>3, <2>6 DEF Depths
    <3>2. PICK f : DOMAIN f = Depths /\ f = [d \in Depths |-> f[d]] /\ IsWalk(f, k + 1)
      <4> HIDE DEF IsWalk, k
      <4>1. \E f : /\ DOMAIN f = Depths /\ f = [d \in Depths |-> f[d]]
                   /\ IsWalk(f, MaxRefDepth + 1 - (n - 1))
        BY <3>0, <3>1, Zenon
      <4>2. MaxRefDepth + 1 - (n - 1) = k + 1
        BY <3>1
      <4> QED BY <4>1, <4>2, Zenon
    <3> DEFINE g == [d \in Depths |-> IF d = k THEN Level(k, f[k + 1]) ELSE f[d]]
    <3>3. IsWalk(g, k)
      <4> SUFFICES ASSUME NEW d \in Depths, d >= k PROVE g[d] = Level(d, g[d + 1])
        OBVIOUS
      <4>1. CASE d = k
        <5>1. g[k + 1] = f[k + 1]
          BY <3>1 DEF Depths
        <5> QED BY <4>1, <5>1
      <4>2. CASE d # k /\ d <= MaxRefDepth
        <5>1. d >= k + 1 /\ d + 1 \in Depths /\ d + 1 # k
          <6>1. d \in Nat /\ k \in Nat /\ d >= k /\ d # k /\ d <= MaxRefDepth
            BY <4>2, <3>1 DEF Depths
          <6> HIDE DEF k, Missing
          <6> QED BY <6>1 DEF Depths
        <5>2. f[d] = Level(d, f[d + 1])
          BY <3>2, <5>1
        <5>3. g[d] = f[d] /\ g[d + 1] = f[d + 1]
          BY <4>2, <5>1
        <5> QED BY <5>2, <5>3
      <4>3. CASE d # k /\ d > MaxRefDepth
        <5>1. d >= k + 1
          BY <4>3, <3>1 DEF Depths
        <5>2. f[d] = Level(d, f[d + 1])
          <6>1. \A i \in Depths : i >= k + 1 => f[i] = Level(i, f[i + 1])
            BY <3>2
          <6> HIDE DEF k, Missing
          <6> QED BY <6>1, <5>1
        <5>3. g[d] = f[d]
          BY <4>3
        <5>4. Level(d, f[d + 1]) = Level(d, g[d + 1])
          BY <4>3, PastTheDepth
        <5> QED BY <5>2, <5>3, <5>4
      <4> QED BY <4>1, <4>2, <4>3 DEF Depths
    <3>4. DOMAIN g = Depths /\ g = [d \in Depths |-> g[d]]
      OBVIOUS
    <3> HIDE DEF IsWalk, g
    <3> QED BY <2>2, <3>3, <3>4
  <2> QED BY <2>5, <2>6
<1>2. MaxRefDepth + 1 \in Depths /\ MaxRefDepth + 1 - (MaxRefDepth + 1) = 0
  BY DEF Depths
<1>3. PICK f : DOMAIN f = Depths /\ f = [d \in Depths |-> f[d]] /\ IsWalk(f, 0)
  <2> HIDE DEF IsWalk
  <2> QED BY <1>1, <1>2
<1>4. f = [d \in Depths |-> Level(d, f[d + 1])]
  BY <1>3 DEF Depths
<1>5. Walk = [d \in Depths |-> Level(d, Walk[d + 1])]
  BY <1>4 DEF Walk, Depths
<1> QED BY <1>5

\* fleet.env has the settings it may have, with the values they may have.
EnvOK == DOMAIN env = Refs /\ \A v \in Refs : env[v] \in Settings[v]

LEMMA ListsAreTokens ==
    ASSUME PolicyAssumption, EnvOK PROVE \A r \in Refs : ListOf(r) \in SUBSET Tokens
<1>1. \A v \in Refs : Entries(env[v]) \subseteq Tokens
  <2> SUFFICES ASSUME NEW v \in Refs, NEW x \in env[v] PROVE x \in Tokens
    BY DEF Entries
  <2>1. x \in UNION Settings[v]
    BY DEF EnvOK
  <2> QED BY <2>1 DEF Tokens
<1>2. VMAllow \subseteq Tokens
  BY <1>1 DEF PolicyAssumption, Digest, VMAllow, VMList, OldList
<1> QED BY <1>1, <1>2 DEF ListOf

\* All that the lists of S name.
Reached(S) == UNION {ListOf(s) : s \in S}

\* A walk that starts in a set of lists closed under reference does not leave it.
LEMMA WalkStays ==
    ASSUME PolicyAssumption, EnvOK, NEW S \in SUBSET Refs, Closed(S), NEW d \in Depths,
           NEW list \in SUBSET Tokens, NEW chain \in SUBSET Refs,
           Walk[d][list][chain].ok, list \cap Refs \subseteq S
    PROVE  Walk[d][list][chain].list \subseteq list \cup Reached(S)
<1> DEFINE Stays(w, l) == w.ok /\ l \cap Refs \subseteq S => w.list \subseteq l \cup Reached(S)
           Good(i) == \A l \in SUBSET Tokens, c \in SUBSET Refs : Stays(Walk[i][l][c], l)
           Far == {n \in Depths : ~Good(MaxRefDepth + 1 - n)}
<1>0. MaxRefDepth \in Nat /\ Depths \subseteq Nat
  BY DEF PolicyAssumption, Depths
<1>1. ASSUME NEW i \in Depths, i <= MaxRefDepth => Good(i + 1) PROVE Good(i)
  <2> SUFFICES ASSUME NEW l \in SUBSET Tokens, NEW c \in SUBSET Refs,
                      Walk[i][l][c].ok, l \cap Refs \subseteq S
               PROVE  Walk[i][l][c].list \subseteq l \cup Reached(S)
    OBVIOUS
  <2>1. Walk[i][l][c] = Expand(i, Walk[i + 1], l, c)
    BY <1>0, WalkIs, LevelIs
  <2> DEFINE refs == l \cap Refs
             below == {Walk[i + 1][ListOf(r)][c \cup {r}] : r \in refs}
  <2>2. /\ i <= MaxRefDepth /\ \A b \in below : b.ok
        /\ Walk[i][l][c].list = (l \ refs) \cup UNION {b.list : b \in below}
    <3> DEFINE fails == \/ i > MaxRefDepth \/ Wild \in l
                        \/ \E r \in refs : r \in c \/ ~IsSet(r)
                        \/ \E b \in below : ~b.ok
    <3>1. ~fails
      <4> SUFFICES ASSUME fails PROVE FALSE
        OBVIOUS
      <4>1. Walk[i][l][c] = Bad
        BY <2>1, Zenon DEF Expand
      <4> QED BY <4>1 DEF Bad
    <3>2. Walk[i][l][c] = [ok |-> TRUE, list |-> (l \ refs) \cup UNION {b.list : b \in below}]
      BY <2>1, <3>1, Zenon DEF Expand
    <3>3. i <= MaxRefDepth
      BY <1>0, <3>1
    <3> HIDE DEF below, refs
    <3> QED BY <3>1, <3>2, <3>3
  <2>3. ASSUME NEW b \in below PROVE b.list \subseteq Reached(S)
    <3>1. PICK r \in refs : b = Walk[i + 1][ListOf(r)][c \cup {r}]
      OBVIOUS
    <3>2. /\ ListOf(r) \in SUBSET Tokens /\ c \cup {r} \in SUBSET Refs /\ r \in S
          /\ ListOf(r) \cap Refs \subseteq S /\ ListOf(r) \subseteq Reached(S)
      BY ListsAreTokens DEF Closed, Reached
    <3>3. Stays(b, ListOf(r))
      BY <1>1, <2>2, <3>1, <3>2
    <3>4. b.ok
      BY <2>2
    <3> QED BY <3>2, <3>3, <3>4
  <2> HIDE DEF below
  <2> QED BY <2>2, <2>3
<1>2. Far = {}
  <2> SUFFICES ASSUME Far # {} PROVE FALSE
    OBVIOUS
  <2>1. Far \subseteq Nat
    BY <1>0
  <2> HIDE DEF Far
  <2>2. PICK n \in Far : \A m \in Far : ~(<<m, n>> \in OpToRel(<, Nat))
    BY <2>1, NatLessThanWellFounded, WFMin
  <2>3. \A m \in Far : ~(m < n)
    BY <2>1, <2>2 DEF OpToRel
  <2>4. n \in Depths /\ n \in Nat /\ ~Good(MaxRefDepth + 1 - n)
    BY <2>1, <2>2 DEF Far
  <2> HIDE DEF Good
  <2> DEFINE i == MaxRefDepth + 1 - n
  <2>5. i \in Depths
    BY <1>0, <2>4 DEF Depths
  <2>6. ASSUME i <= MaxRefDepth PROVE Good(i + 1)
    <3>1. n - 1 < n /\ n - 1 \in Depths /\ MaxRefDepth + 1 - (n - 1) = i + 1
      BY <1>0, <2>4, <2>6 DEF Depths
    <3>2. ~(n - 1 \in Far)
      BY <2>3, <3>1
    <3>3. Good(MaxRefDepth + 1 - (n - 1))
      BY <3>1, <3>2 DEF Far
    <3> QED BY <3>1, <3>3
  <2> QED BY <1>1, <2>4, <2>5, <2>6
<1>3. Good(d)
  <2>1. MaxRefDepth + 1 - d \in Depths /\ MaxRefDepth + 1 - (MaxRefDepth + 1 - d) = d
    BY <1>0 DEF Depths
  <2> HIDE DEF Good
  <2> QED BY <1>2, <2>1
<1> QED BY <1>3

\* What a lane's allowlist expands to is named by it, or by a list it refers to.
LEMMA AllowedIsStanding ==
    ASSUME PolicyAssumption, EnvOK, NEW l \in LaneNames,
           ExpandAllow(Entries(env[AllowVar[l]])).ok
    PROVE  ExpandAllow(Entries(env[AllowVar[l]])).list \subseteq Standing(l)
<1> DEFINE own == Entries(env[AllowVar[l]])
<1>1. AllowVar[l] \in Refs /\ own = ListOf(AllowVar[l])
  BY DEF PolicyAssumption, ListOf
<1>2. AllowVar[l] \in Named(l) /\ Named(l) \in SUBSET Refs
  BY <1>1 DEF Named
<1>3. Closed(Named(l))
  BY DEF Closed, Named
<1>4. Reached(Named(l)) = Standing(l)
  BY DEF Reached, Standing
<1>5. own \in SUBSET Tokens /\ own \cap Refs \subseteq Named(l) /\ own \subseteq Standing(l)
  BY <1>1, <1>2, <1>3, <1>4, ListsAreTokens DEF Closed, Reached
<1>6. 0 \in Depths /\ {} \in SUBSET Refs
  BY DEF PolicyAssumption, Depths
<1>7. Walk[0][own][{}].ok
  BY DEF ExpandAllow
<1>8. Walk[0][own][{}].list \subseteq own \cup Reached(Named(l))
  <2> HIDE DEF own
  <2> QED BY <1>2, <1>3, <1>5, <1>6, <1>7, WalkStays
<1> QED BY <1>4, <1>5, <1>8 DEF ExpandAllow

-----------------------------------------------------------------------------
(* Who a request reaches.                                                  *)

\* What a request that is granted may reach.
Within(r, to, cc) ==
    LET got == to \cup cc
    IN  /\ TwoLists => r.kind = "operator"
        /\ r.kind = "dev" => got \subseteq Entries(env["FLEET_DEV_EMAIL"])
        /\ r.kind = "operator" => got \subseteq Operator
        /\ r.kind = "owner" => {DomainOf[a] : a \in got} \subseteq OwnerDomains
        /\ r.kind \in LaneNames =>
             /\ Entries(env[AllowVar[r.kind]]) # {} /\ cc = {}
             /\ r.approve \/ got \subseteq Standing(r.kind) \cup Operator
        /\ r.kind = "digest" =>
             \/ r.approve
             \/ got \subseteq Operator \cup VMList \cup OldList
             \/ VMList \cup OldList = {} /\ got \subseteq Operator \cup Entries(env["DIGEST_TO"])
Addressed(to, cc) ==
    to # {} /\ to \cup cc \subseteq Addresses /\ to \cap cc = {}
Fits(r, a) == a.ok => Within(r, a.to, a.cc) /\ Addressed(a.to, a.cc)

LEMMA RefusedFits == ASSUME NEW r \in Requests PROVE Fits(r, Refused)
BY DEF Fits, Refused

LEMMA GrantedIs ==
    ASSUME NEW to \in SUBSET Addresses, NEW cc \in SUBSET Addresses
    PROVE  /\ Granted(to, cc).ok /\ Granted(to, cc).to = to /\ Granted(to, cc).cc = cc \ to
           /\ to # {} => Addressed(Granted(to, cc).to, Granted(to, cc).cc)
BY DEF Granted, Addressed

LEMMA GrantedFits ==
    ASSUME NEW r \in Requests, NEW to \in SUBSET Addresses, NEW cc \in SUBSET Addresses, to # {},
           Within(r, to, cc \ to)
    PROVE  Fits(r, Granted(to, cc))
<1>1. /\ Granted(to, cc).to = to /\ Granted(to, cc).cc = cc \ to
      /\ Addressed(Granted(to, cc).to, Granted(to, cc).cc)
  BY GrantedIs
<1> QED BY <1>1 DEF Fits

LEMMA KeysAre == ASSUME NEW S PROVE Key(S) \subseteq S
BY DEF Key

LEMMA KindsAre ==
    ASSUME PolicyAssumption, NEW r \in Requests
    PROVE  /\ r.kind \in LaneNames => r.kind \notin BaseKinds
           /\ r.kind \in BaseKinds \cup LaneNames /\ r.approve \in BOOLEAN
BY DEF PolicyAssumption, Requests

LEMMA PyFits == ASSUME PolicyAssumption, NEW r \in Requests PROVE Fits(r, PyAudience(r))
<1> DEFINE to == IF r.kind = "operator" THEN Operator ELSE DigestTo(r)
           cc == IF r.kind = "operator" THEN {} ELSE DigestCC(r, PyVMAllow)
           fine == /\ r.kind \in {"digest", "operator"} /\ (r.kind = "operator" => r.to = {})
                   /\ r.kind = "digest" => ~TwoLists
                   /\ to # {} /\ Valid(to \cup cc)
                   /\ Allowed(to \cup cc, PyVMAllow, Key(Operator), r)
<1>1. PyAudience(r) = IF fine THEN Granted(to, cc) ELSE Refused
  BY DEF PyAudience
<1>2. CASE ~fine
  BY <1>1, <1>2, RefusedFits
<1>3. CASE fine
  <2>1. to \in SUBSET Addresses /\ cc \in SUBSET Addresses /\ to # {}
    BY <1>3 DEF Valid
  <2>2. r.kind \in {"digest", "operator"} /\ r.kind \notin LaneNames
    BY <1>3, KindsAre DEF BaseKinds
  <2>3. r.kind = "operator" => to = Operator /\ cc = {}
    OBVIOUS
  <2>4. r.kind = "digest" /\ ~r.approve =>
            \/ to \cup cc \subseteq Operator \cup VMList \cup OldList
            \/ /\ VMList \cup OldList = {}
               /\ to \cup cc \subseteq Operator \cup Entries(env["DIGEST_TO"])
    <3> HIDE DEF to, cc
    <3> QED BY <1>3, KeysAre DEF Allowed, PyVMAllow
  <2>5. TwoLists => r.kind = "operator"
    BY <1>3
  <2> HIDE DEF to, cc
  <2>6. Within(r, to, cc \ to)
    BY <2>2, <2>3, <2>4, <2>5 DEF Within
  <2>7. PyAudience(r) = Granted(to, cc)
    BY <1>1, <1>3
  <2> QED BY <2>1, <2>6, <2>7, GrantedFits
<1> QED BY <1>2, <1>3

LEMMA GoFits ==
    ASSUME PolicyAssumption, NEW r \in Requests, r.kind \in {"digest", "operator", "dev"},
           TwoLists => r.kind = "operator"
    PROVE  Fits(r, GoAudience(r))
<1> DEFINE dev == Entries(env["FLEET_DEV_EMAIL"])
           to == CASE r.kind = "dev" -> dev [] r.kind = "operator" -> Operator
                   [] OTHER -> DigestTo(r)
           cc == IF r.kind = "digest" THEN DigestCC(r, VMAllow) ELSE {}
           fine == /\ r.kind # "digest" => r.to = {}
                   /\ to # {} /\ Valid(to \cup cc)
                   /\ Allowed(to \cup cc, VMAllow, Key(IF r.kind = "dev" THEN dev ELSE Operator), r)
<1>1. GoAudience(r) = IF fine THEN Granted(to, cc) ELSE Refused
  BY DEF GoAudience
<1>2. CASE ~fine
  BY <1>1, <1>2, RefusedFits
<1>3. CASE fine
  <2>1. to \in SUBSET Addresses /\ cc \in SUBSET Addresses /\ to # {}
    BY <1>3 DEF Valid
  <2>2. r.kind \notin LaneNames
    BY KindsAre DEF BaseKinds
  <2>3. /\ r.kind = "operator" => to = Operator /\ cc = {}
        /\ r.kind = "dev" => to = dev /\ cc = {}
    OBVIOUS
  <2>4. r.kind = "digest" /\ ~r.approve =>
            \/ to \cup cc \subseteq Operator \cup VMList \cup OldList
            \/ /\ VMList \cup OldList = {}
               /\ to \cup cc \subseteq Operator \cup Entries(env["DIGEST_TO"])
    <3>1. ASSUME r.kind = "digest", ~r.approve
          PROVE  to \cup cc \subseteq
                   (IF VMAllow # {} THEN VMAllow ELSE Entries(env["DIGEST_TO"])) \cup Operator
      <4> HIDE DEF to, cc
      <4> QED BY <1>3, <3>1, KeysAre DEF Allowed
    <3> HIDE DEF to, cc
    <3> QED BY <3>1 DEF VMAllow
  <2> HIDE DEF to, cc
  <2>6. Within(r, to, cc \ to)
    BY <2>2, <2>3, <2>4 DEF Within
  <2>7. GoAudience(r) = Granted(to, cc)
    BY <1>1, <1>3
  <2> QED BY <2>1, <2>6, <2>7, GrantedFits
<1> QED BY <1>2, <1>3

LEMMA LaneFits ==
    ASSUME PolicyAssumption, EnvOK, NEW r \in Requests, r.kind \in LaneNames, ~TwoLists
    PROVE  Fits(r, LaneResolve(r))
<1> DEFINE to == Pick(r.to, ToVar[r.kind])
           own == Entries(env[AllowVar[r.kind]])
           allow == ExpandAllow(own)
           outside == to \ (allow.list \cup Key(Operator))
           fine == /\ own # {} /\ to # {} /\ allow.ok /\ allow.list # {}
                   /\ Valid(to) /\ (outside = {} \/ r.approve)
<1>1. LaneResolve(r) = IF fine THEN Granted(to, {}) ELSE Refused
  BY DEF LaneResolve
<1>2. CASE ~fine
  BY <1>1, <1>2, RefusedFits
<1>3. CASE fine
  <2>1. to \in SUBSET Addresses /\ to # {} /\ own # {} /\ {} \in SUBSET Addresses
    BY <1>3 DEF Valid
  <2>2. r.kind \notin BaseKinds
    BY KindsAre
  <2>3. allow.list \subseteq Standing(r.kind)
    BY <1>3, AllowedIsStanding
  <2> HIDE DEF to, allow
  <2>4. r.approve \/ to \subseteq Standing(r.kind) \cup Operator
    BY <1>3, <2>3, KeysAre
  <2>6. Within(r, to, {} \ to)
    BY <2>1, <2>2, <2>4 DEF Within, BaseKinds
  <2>7. LaneResolve(r) = Granted(to, {})
    BY <1>1, <1>3
  <2> QED BY <2>1, <2>6, <2>7, GrantedFits
<1> QED BY <1>2, <1>3

LEMMA OwnerFits ==
    ASSUME PolicyAssumption, NEW r \in Requests, r.kind = "owner", ~TwoLists
    PROVE  Fits(r, OwnerAudience(r))
<1> DEFINE permitted(a) == a \in Addresses /\ DomainOf[a] \in OwnerDomains
           to == {owners.email}
           cc == {w \in owners.watchers : permitted(w)}
           fine == /\ r.to = {} /\ r.cc = {} /\ owners.email # "" /\ OwnerDomains # {}
                   /\ permitted(owners.email)
<1>1. OwnerAudience(r) = IF fine THEN Granted(to, cc) ELSE Refused
  BY DEF OwnerAudience
<1>2. CASE ~fine
  BY <1>1, <1>2, RefusedFits
<1>3. CASE fine
  <2>1. to \in SUBSET Addresses /\ cc \in SUBSET Addresses /\ to # {}
    BY <1>3
  <2>2. r.kind \notin LaneNames
    BY KindsAre DEF BaseKinds
  <2>3. \A a \in to \cup cc : DomainOf[a] \in OwnerDomains
    BY <1>3
  <2> HIDE DEF to, cc
  <2>6. Within(r, to, cc \ to)
    BY <2>2, <2>3 DEF Within
  <2>7. OwnerAudience(r) = Granted(to, cc)
    BY <1>1, <1>3
  <2> QED BY <2>1, <2>6, <2>7, GrantedFits
<1> QED BY <1>2, <1>3

LEMMA AudienceFits ==
    ASSUME PolicyAssumption, EnvOK, NEW r \in Requests PROVE Fits(r, Audience(r))
<1>1. r.kind \in LaneNames \/ r.kind \in {"digest", "operator", "dev", "owner"}
  BY KindsAre DEF BaseKinds
<1>2. CASE r.by = "mailer.py"
  BY <1>2, PyFits DEF Audience
<1>3. CASE r.by # "mailer.py" /\ TwoLists /\ r.kind # "operator"
  BY <1>3, RefusedFits DEF Audience
<1>4. CASE r.by # "mailer.py" /\ ~(TwoLists /\ r.kind # "operator") /\ r.kind \in LaneNames
  <2>1. r.kind # "operator"
    BY <1>4, KindsAre DEF BaseKinds
  <2> QED BY <1>4, <2>1, LaneFits DEF Audience
<1>5. CASE r.by # "mailer.py" /\ ~(TwoLists /\ r.kind # "operator") /\ r.kind \notin LaneNames
             /\ r.kind = "owner"
  BY <1>5, OwnerFits DEF Audience
<1>6. CASE r.by # "mailer.py" /\ ~(TwoLists /\ r.kind # "operator") /\ r.kind \notin LaneNames
             /\ r.kind # "owner"
  BY <1>1, <1>6, GoFits DEF Audience
<1> QED BY <1>2, <1>3, <1>4, <1>5, <1>6

-----------------------------------------------------------------------------
(* The specification.                                                      *)

PolicyInv == EnvOK /\ PolicyTypeOK /\ OnlyAllowed

LEMMA SendStep ==
    ASSUME PolicyAssumption, PolicyInv, NEW r \in Requests, Send(r) PROVE PolicyInv'
<1> DEFINE a == Audience(r)
<1>1. /\ UNCHANGED <<env, owners, edits>>
      /\ mail' = IF a.ok /\ (r.mustApprove => r.approve)
                 THEN [request |-> r, to |-> a.to, cc |-> a.cc] ELSE NoMail
  BY DEF Send
<1>2. Fits(r, a)
  BY AudienceFits DEF PolicyInv
<1> HIDE DEF a
<1>3. EnvOK'
  BY <1>1 DEF PolicyInv, EnvOK
<1>4. CASE mail' = NoMail
  BY <1>1, <1>3, <1>4 DEF PolicyInv, PolicyTypeOK, OnlyAllowed
<1>5. CASE mail' # NoMail
  <2>1. a.ok /\ mail' = [request |-> r, to |-> a.to, cc |-> a.cc]
    BY <1>1, <1>5
  <2>2. mail'.request = r /\ mail'.to = a.to /\ mail'.cc = a.cc
    BY <2>1
  <2>3. Within(r, mail'.to, mail'.cc) /\ Addressed(mail'.to, mail'.cc)
    BY <1>2, <2>1, <2>2 DEF Fits
  <2>4. PolicyTypeOK'
    BY <1>1, <2>2, <2>3 DEF PolicyInv, PolicyTypeOK, Addressed
  <2>5. OnlyAllowed'
    <3>1. Within(mail'.request, mail'.to, mail'.cc)
      BY <2>2, <2>3
    <3>2. Within(mail'.request, mail'.to, mail'.cc) => OnlyAllowed'
      BY <1>1 DEF Within, OnlyAllowed, TwoLists, VMList, OldList, Operator, OwnerDomains,
                  Standing, Named, Closed, ListOf, VMAllow
    <3> QED BY <3>1, <3>2
  <2> QED BY <1>3, <2>4, <2>5 DEF PolicyInv
<1> QED BY <1>4, <1>5

LEMMA PolicyStep ==
    ASSUME PolicyAssumption, PolicyInv, [PolicyNext]_mailVars PROVE PolicyInv'
<1>1. CASE UNCHANGED mailVars
  BY <1>1 DEF mailVars, PolicyInv, EnvOK, PolicyTypeOK, OnlyAllowed, TwoLists, VMList, OldList,
              Operator, OwnerDomains, Standing, Named, Closed, ListOf, VMAllow
<1>2. CASE Delivered
  <2>1. UNCHANGED <<env, owners, edits>> /\ mail' = NoMail
    BY <1>2 DEF Delivered
  <2> QED BY <2>1 DEF PolicyInv, EnvOK, PolicyTypeOK, OnlyAllowed
<1>3. CASE EditSetting
  <2>1. edits < MaxEdits /\ edits' = edits + 1 /\ mail' = NoMail /\ UNCHANGED owners
    BY <1>3 DEF EditSetting
  <2>2. PICK v \in Refs : \E new \in Settings[v] : env' = [env EXCEPT ![v] = new]
    BY <1>3 DEF EditSetting, Refs
  <2>3. EnvOK'
    BY <2>2 DEF PolicyInv, EnvOK
  <2>4. edits' \in 0 .. MaxEdits
    BY <2>1 DEF PolicyInv, PolicyTypeOK, PolicyAssumption
  <2> QED BY <2>1, <2>3, <2>4 DEF PolicyInv, EnvOK, Refs, PolicyTypeOK, OnlyAllowed
<1>4. CASE EditOwners
  <2>1. /\ edits < MaxEdits /\ edits' = edits + 1 /\ mail' = NoMail /\ UNCHANGED env
        /\ owners' \in OwnerEntries
    BY <1>4 DEF EditOwners
  <2>2. edits' \in 0 .. MaxEdits
    BY <2>1 DEF PolicyInv, PolicyTypeOK, PolicyAssumption
  <2> QED BY <2>1, <2>2 DEF PolicyInv, EnvOK, PolicyTypeOK, OnlyAllowed
<1>5. ASSUME NEW r \in Requests, Send(r) PROVE PolicyInv'
  BY <1>5, SendStep
<1> QED BY <1>1, <1>2, <1>3, <1>4, <1>5 DEF PolicyNext

LEMMA PolicyInitial == ASSUME PolicyAssumption, PolicyInit PROVE PolicyInv
BY DEF PolicyInit, PolicyAssumption, PolicyInv, EnvOK, PolicyTypeOK, OnlyAllowed, Refs

LEMMA PolicyInvHolds == ASSUME PolicyAssumption PROVE PolicySpec => []PolicyInv
<1>1. PolicyInit => PolicyInv
  BY PolicyInitial
<1>2. PolicyInv /\ [PolicyNext]_mailVars => PolicyInv'
  BY PolicyStep
<1> QED BY <1>1, <1>2, PTL DEF PolicySpec

\* What is mailed has a recipient, goes to well-formed addresses, and to none of
\* them twice.
THEOREM MailPolicyTypes == ASSUME PolicyAssumption PROVE PolicySpec => []PolicyTypeOK
<1>1. PolicyInv => PolicyTypeOK
  BY DEF PolicyInv
<1> QED BY <1>1, PolicyInvHolds, PTL

\* A mail reaches those alone whom the settings in force name for it: however the
\* settings are edited, whatever a lane's allowlist refers to, whoever sends and
\* whatever the flags say (lane.go, allow.go, allowref.go, owner.go, mailer.py).
THEOREM OnlyAllowedHolds == ASSUME PolicyAssumption PROVE PolicySpec => []OnlyAllowed
<1>1. PolicyInv => OnlyAllowed
  BY DEF PolicyInv
<1> QED BY <1>1, PolicyInvHolds, PTL
=============================================================================
