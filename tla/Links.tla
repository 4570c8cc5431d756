------------------------------- MODULE Links -------------------------------
(***************************************************************************)
(* packages/workflow links: the public links of one subject.  A short one  *)
(* is a row (PublicLinkService); a signed one carries its claims, and only *)
(* its revocation is a row (LinkService).                                  *)
(***************************************************************************)
EXTENDS Naturals

CONSTANTS
  Callers, Visitors,
  MaxShort, MaxSigned, \* bounds on the links of either kind
  NoLink

VARIABLES
  short,           \* the rows of mortar_public_link, by number
  signed,          \* signed links there are
  revocations,     \* the rows of mortar_link_revocation
  lapsed,          \* links of either kind past their expiry
  caller, visitor, \* where each call is
  replaced,        \* links a finished revocation was about
  sole,            \* the link of the last reissue, where nothing else was issuing
  opened           \* what a visitor was let in by, and should not have been

linkVars == <<short, signed, revocations, lapsed, caller, visitor, replaced, sole, opened>>

Numbers == 1..MaxShort
SignedNumbers == 1..MaxSigned
Idle == [step |-> "idle"]
Short(n) == <<"short", n>>
Signed(n) == <<"signed", n>>
AllLinks == ({"short"} \X Numbers) \union ({"signed"} \X SignedNumbers)

TypeOK ==
  /\ short \in [Numbers -> {"none", "live", "revoked", "swept"}]
  /\ revocations \subseteq signed /\ signed \subseteq SignedNumbers
  /\ lapsed \subseteq AllLinks /\ replaced \subseteq AllLinks /\ opened \subseteq AllLinks
  /\ DOMAIN caller = Callers /\ DOMAIN visitor = Visitors
  /\ sole \in Numbers \union {NoLink}

Init ==
  /\ short = [n \in Numbers |-> "none"] /\ signed = {} /\ revocations = {} /\ lapsed = {}
  /\ caller = [c \in Callers |-> Idle] /\ visitor = [v \in Visitors |-> Idle]
  /\ replaced = {} /\ sole = NoLink /\ opened = {}

At(c, step) == caller[c].step = step
Goes(c, to) == caller' = [caller EXCEPT ![c] = to]
Live == {n \in Numbers : short[n] = "live"}
First(numbers) == {n \in numbers : \A m \in numbers : n <= m}
Alone(c) == \A d \in Callers \ {c} : At(d, "idle")

----------------------------------------------------------------------------
\* PublicLinkService.issue(), and the second half of reissue().
Issue(c) ==
  /\ At(c, "idle") \/ At(c, "issue")
  /\ \E n \in First({m \in Numbers : short[m] = "none"}) :
       /\ short' = [short EXCEPT ![n] = "live"]
       /\ sole' = IF At(c, "issue") /\ caller[c].alone THEN n ELSE NoLink
  /\ caller' = [d \in Callers |->
       IF d = c THEN Idle ELSE IF At(d, "issue") THEN [caller[d] EXCEPT !.alone = FALSE] ELSE caller[d]]
  /\ UNCHANGED <<signed, revocations, lapsed, visitor, replaced, opened>>

\* revoke() is by subject: "none of the links to their order work any more".
Outstanding == Live

RevokeShort ==
  /\ short' = [n \in Numbers |-> IF n \in Outstanding THEN "revoked" ELSE short[n]]
  /\ replaced' = replaced \union {Short(n) : n \in Live}

\* revoke(), or the first half of reissue().
Revoke(c) ==
  /\ At(c, "idle")
  /\ RevokeShort
  /\ \/ Goes(c, [step |-> "issue", alone |-> Alone(c)]) /\ sole' = NoLink
     \/ UNCHANGED <<caller, sole>>
  /\ UNCHANGED <<signed, revocations, lapsed, visitor, opened>>

\* LinkService.issue(), and the second half of its reissue(): no row at all.
Sign(c) ==
  /\ At(c, "idle") \/ At(c, "sign")
  /\ \E n \in First(SignedNumbers \ signed) : signed' = signed \union {n}
  /\ Goes(c, Idle)
  /\ UNCHANGED <<short, revocations, lapsed, visitor, replaced, sole, opened>>

\* LinkService.revoke() looks for the row first; reissue() goes on to issue.
AskRevoked(c, n) ==
  /\ At(c, "idle")
  /\ \E after \in {"idle", "sign"} :
       Goes(c, IF n \in revocations THEN [step |-> after]
               ELSE [step |-> "save", link |-> n, after |-> after])
  /\ UNCHANGED <<short, signed, revocations, lapsed, visitor, replaced, sole, opened>>

\* jti is unique: the later of two INSERTs is an error, and nothing is issued.
SaveRevocation(c) ==
  /\ At(c, "save")
  /\ revocations' = revocations \union {caller[c].link}
  /\ replaced' = replaced \union {Signed(caller[c].link)}
  /\ Goes(c, IF caller[c].link \in revocations THEN Idle ELSE [step |-> caller[c].after])
  /\ UNCHANGED <<short, signed, lapsed, visitor, sole, opened>>

\* The process dies between two statements.
Die(c) ==
  /\ ~At(c, "idle")
  /\ Goes(c, Idle)
  /\ UNCHANGED <<short, signed, revocations, lapsed, visitor, replaced, sole, opened>>

\* A short link may have no expiry, and a signed one always has.
Lapse(l) ==
  /\ l \notin lapsed
  /\ l[2] \in IF l[1] = "short" THEN {n \in Numbers : short[n] # "none"} ELSE signed
  /\ lapsed' = lapsed \union {l}
  /\ UNCHANGED <<short, signed, revocations, caller, visitor, replaced, sole, opened>>

\* LinkService.sweepExpired(): "an expired token is rejected regardless".
Sweepable == {n \in revocations : Signed(n) \in lapsed}

SweepRevocations ==
  /\ Sweepable # {}
  /\ revocations' = revocations \ Sweepable
  /\ UNCHANGED <<short, signed, lapsed, caller, visitor, replaced, sole, opened>>

\* PublicLinkService.sweepExpired() deletes the expired rows, revoked or not.
SweepShort ==
  /\ short' = [n \in Numbers |->
       IF Short(n) \in lapsed /\ short[n] \in {"live", "revoked"} THEN "swept" ELSE short[n]]
  /\ short' # short
  /\ UNCHANGED <<signed, revocations, lapsed, caller, visitor, replaced, sole, opened>>

\* resolve(): one query, and then the clock.
Resolve(n) ==
  /\ short[n] = "live" /\ Short(n) \notin lapsed
  /\ opened' = opened \union ({Short(n)} \intersect replaced)
  /\ UNCHANGED <<short, signed, revocations, lapsed, caller, visitor, replaced, sole>>

\* verifyLink(): the expiry first, and then "deliberately last" the row.
Verify(v, n) ==
  /\ visitor[v] = Idle /\ Signed(n) \notin lapsed
  /\ visitor' = [visitor EXCEPT ![v] =
       [step |-> "ask", link |-> n, was |-> Signed(n) \in replaced]]
  /\ UNCHANGED <<short, signed, revocations, lapsed, caller, replaced, sole, opened>>

IsRevoked(v) ==
  /\ visitor[v] # Idle
  /\ LET n == visitor[v].link IN
     opened' = IF n \notin revocations /\ visitor[v].was /\ Signed(n) \notin lapsed
               THEN opened \union {Signed(n)} ELSE opened
  /\ visitor' = [visitor EXCEPT ![v] = Idle]
  /\ UNCHANGED <<short, signed, revocations, lapsed, caller, replaced, sole>>

Next ==
  \/ SweepRevocations \/ SweepShort
  \/ \E l \in AllLinks : Lapse(l)
  \/ \E c \in Callers :
       \/ Issue(c) \/ Revoke(c) \/ Sign(c) \/ SaveRevocation(c) \/ Die(c)
       \/ \E n \in signed : AskRevoked(c, n)
  \/ \E n \in Numbers : Resolve(n)
  \/ \E v \in Visitors : IsRevoked(v) \/ \E n \in signed : Verify(v, n)

Spec == Init /\ [][Next]_linkVars

----------------------------------------------------------------------------
\* A link that was revoked before a visit began lets nobody in, "a re-issue
\* that leaves the old link working means a link forwarded to the wrong person
\* stays valid" -- but for a signed one that expires, and whose revocation is
\* swept, between the two questions of one verification -- and a reissue that
\* ran on its own leaves one short link.
ReplacedOpensNothing ==
  /\ opened = {}
  /\ sole # NoLink => Live \subseteq {sole}
=============================================================================
