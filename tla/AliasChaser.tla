----------------------------- MODULE AliasChaser -----------------------------
(***************************************************************************)
(* services/resolver/alias.go, with the part of HandleQuery around it: one *)
(* query that is answered from the zones, with the chain of its aliases    *)
(* (CNAMEs) followed, while the zones may be reloaded.                     *)
(*                                                                         *)
(* A Chase shares nothing with others but the zone cache, which it takes   *)
(* the lock of anew for every lookup; one query is therefore enough.       *)
(* "chain", "visited", "depth" and "current" are the fields of chaseState. *)
(*                                                                         *)
(* ZoneCache.FindRecords gives only records of the type asked for.  Chase  *)
(* is written for a first lookup that gives the alias of a name instead if *)
(* it has one, as the fakes of its tests do.  "finder" says which of the   *)
(* two the resolver was given; the chaser has a zone cache of its own, and *)
(* asks that for aliases by their type.                                    *)
(***************************************************************************)
EXTENDS ZoneCache

CONSTANTS
  Directories,  \* sequences of zone files [root, records] the server may start with
  Reloads,      \* the zone files it may reload later; no records: remove the zone
  MaxReloads,   \* bound: how often
  Finders,      \* which zone caches: "exact", "alias"
  MaxDepths,    \* the values maxDepth may have; 0 disables the limit
  Types,        \* the types asked for
  Classes,      \* and the classes
  Upstream(_, _),  \* Upstream(name, type): the record lists the servers may answer
  Nowhere       \* the text of a CNAME that is empty, or from which no question can be made

CNAME == "CNAME"

ASSUME AliasAssumption ==
  /\ Directories \subseteq Seq(ZoneFiles) /\ Reloads \subseteq ZoneFiles
  /\ MaxReloads \in Nat /\ MaxDepths \subseteq Nat /\ Nowhere \notin Names
  /\ \A r \in Records : r.type = CNAME => r.text \in Names \cup {Nowhere}
  \* Honest servers: the first record of an answer is of the name asked for.
  /\ \A n \in Names, t \in Types :
       \A rs \in Upstream(n, t) : rs \in Seq(Records) /\ (rs # <<>> => Head(rs).name = n)

VARIABLES
  finder, maxDepth,
  at,       \* where HandleQuery is
  query,    \* the question
  chain, visited, depth, current,
  target,   \* the target of the last alias
  outcome,  \* what HandleQuery makes of the zone: answers with an rcode, or nothing
  loaded,   \* history: the records last put for each root
  quiet,    \* history: no reload during the call, and no answer from upstream
  reloads   \* how many reloads there were

chase == <<chain, visited, depth, current, target>>
setup == <<finder, maxDepth, query>>
history == <<loaded, quiet, reloads>>
aliasVars == <<zones, setup, at, chase, outcome, history>>

NoOutcome == [rcode |-> "none", answers |-> <<>>]
NotLocal == [rcode |-> "not local", answers |-> <<>>]
NoError(rs) == [rcode |-> "noerror", answers |-> rs]
ServFail == [rcode |-> "servfail", answers |-> <<>>]

AliasInit ==
  /\ \E files \in Directories : loaded = LoadZoneDirectory(files)
  /\ zones = CacheOf(loaded)
  /\ finder \in Finders /\ maxDepth \in MaxDepths
  /\ at = "called"
  /\ query \in [name : Names, type : Types, class : Classes]
  /\ chain = <<>> /\ visited = {} /\ depth = 0 /\ current = <<>> /\ target = Nowhere
  /\ outcome = NoOutcome
  /\ quiet = TRUE /\ reloads = 0

\* The owner of the cache reloads a zone, or removes it.
Reload(f) ==
  /\ reloads < MaxReloads
  /\ reloads' = reloads + 1
  /\ quiet' = (quiet /\ at = "called")
  /\ IF f.records = <<>>
     THEN /\ RemoveZone(f.root)
          /\ loaded' = [z \in DOMAIN loaded \ {f.root} |-> loaded[z]]
     ELSE /\ PutZone(f.root, f.records)
          /\ loaded' = [z \in DOMAIN loaded \cup {f.root} |->
                          IF z = f.root THEN f.records ELSE loaded[z]]
  /\ UNCHANGED <<setup, at, chase, outcome>>

-----------------------------------------------------------------------------
(* HandleQuery and Chase.                                                  *)

\* Every question Chase makes has the class of the query.
Find(name, type) == FindRecords(name, type, query.class)

\* What the zone cache the resolver was given finds.
Initial ==
  LET exact == Find(query.name, query.type)
  IN IF exact = <<>> /\ finder = "alias" THEN Find(query.name, CNAME) ELSE exact

IsHeadCNAME(rs) == rs # <<>> /\ Head(rs).type = CNAME

Return(o) ==
  /\ at' = "done"
  /\ outcome' = o
  /\ UNCHANGED <<zones, setup, history>>

GoTo(s) ==
  /\ at' = s
  /\ UNCHANGED <<zones, setup, outcome, history>>

\* resolveFromZone finds nothing: HandleQuery goes on to its other sources.
NotFound ==
  /\ at = "called"
  /\ Initial = <<>>
  /\ Return(NotLocal)
  /\ UNCHANGED chase

\* Records that need no chase.
FoundRecords ==
  /\ at = "called"
  /\ Initial # <<>>
  /\ ~ IsHeadCNAME(Initial) \/ query.type = CNAME
  /\ Return(NoError(Initial))
  /\ UNCHANGED chase

FoundAlias ==
  /\ at = "called"
  /\ query.type # CNAME
  /\ IsHeadCNAME(Initial)
  /\ current' = Initial
  /\ GoTo("step")
  /\ UNCHANGED <<chain, visited, depth, target>>

\* Seeded bug: loops are only looked for when there is no limit on the depth.
InLoopBug == maxDepth = 0 /\ Head(current).name \in visited

\* guardDepth and guardLoop.
TooDeep == maxDepth > 0 /\ depth + 1 > maxDepth
InLoop == Head(current).name \in visited

\* The step fails; HandleQuery makes SERVFAIL of both errors and drops the chain.
StepFails ==
  /\ at = "step"
  /\ TooDeep \/ InLoop
  /\ depth' = depth + 1
  /\ chain' = Append(chain, Head(current))
  /\ Return(ServFail)
  /\ UNCHANGED <<visited, current, target>>

\* Seeded bug: the targets are marked as visited, not the owners.
HopTargetBug ==
  /\ ~ TooDeep /\ ~ InLoop
  /\ depth' = depth + 1
  /\ visited' = visited \cup {Head(current).text}
  /\ chain' = Append(chain, Head(current))
  /\ target' = Head(current).text
  /\ UNCHANGED current

Hop ==
  /\ ~ TooDeep /\ ~ InLoop
  /\ depth' = depth + 1
  /\ visited' = visited \cup {Head(current).name}
  /\ chain' = Append(chain, Head(current))
  /\ target' = Head(current).text
  /\ UNCHANGED current

\* The error is not fatal: the chain so far is the answer.
BadTarget ==
  /\ at = "step" /\ Hop
  /\ target' = Nowhere
  /\ Return(NoError(chain'))

FollowAlias ==
  /\ at = "step" /\ Hop
  /\ target' # Nowhere
  /\ GoTo("ask zone")

\* Records of the target: the end of the chain, or another alias.
Take(rs) ==
  /\ current' = rs
  /\ IF IsHeadCNAME(rs)
     THEN GoTo("step") /\ UNCHANGED chain
     ELSE chain' = chain \o rs /\ Return(NoError(chain'))
  /\ UNCHANGED <<visited, depth, target>>

AskZone ==
  /\ at = "ask zone"
  /\ LET rs == Find(target, query.type)
     IN IF rs = <<>> THEN GoTo("ask alias") /\ UNCHANGED chase ELSE Take(rs)

\* Seeded bug: the alias asked for is that of the name in the query.
AskAliasBug ==
  /\ at = "ask alias"
  /\ LET rs == Find(query.name, CNAME)
     IN IF rs = <<>> THEN GoTo("ask upstream") /\ UNCHANGED chase ELSE Take(rs)

AskAlias ==
  /\ at = "ask alias"
  /\ LET rs == Find(target, CNAME)
     IN IF rs = <<>> THEN GoTo("ask upstream") /\ UNCHANGED chase ELSE Take(rs)

\* Resolve of the upstream client returns records. It may give the rest of a
\* chain, of which only the first record is used before the zones are asked again.
UpstreamAnswers ==
  /\ at = "ask upstream"
  /\ \E rs \in Upstream(target, query.type) \ {<<>>} :
       /\ current' = rs
       /\ IF IsHeadCNAME(rs)
          THEN at' = "step" /\ UNCHANGED <<chain, outcome>>
          ELSE chain' = chain \o rs /\ at' = "done" /\ outcome' = NoError(chain')
  /\ quiet' = FALSE
  /\ UNCHANGED <<zones, setup, visited, depth, target, loaded, reloads>>

\* Seeded bug: Chase asks again until somebody answers.
UpstreamRetryBug ==
  /\ at = "ask upstream"
  /\ GoTo("ask zone")
  /\ UNCHANGED chase

\* It fails, has no records, or there is none: the chain so far is the answer.
UpstreamMisses ==
  /\ at = "ask upstream"
  /\ Return(NoError(chain))
  /\ UNCHANGED chase

Chase ==
  \/ StepFails \/ BadTarget \/ FollowAlias
  \/ AskZone \/ AskAlias \/ UpstreamAnswers \/ UpstreamMisses

Call == NotFound \/ FoundRecords \/ FoundAlias \/ Chase

AliasNext == Call \/ \E f \in Reloads : Reload(f)

AliasSpec == AliasInit /\ [][AliasNext]_aliasVars

\* The goroutine of the query is scheduled, and Resolve returns.
LiveAliasSpec == AliasSpec /\ WF_aliasVars(Call)

-----------------------------------------------------------------------------
(* Properties.                                                             *)

\* Type correctness.
AliasTypeOK ==
  /\ DOMAIN zones \subseteq Names
  /\ finder \in Finders /\ maxDepth \in MaxDepths
  /\ at \in {"called", "step", "ask zone", "ask alias", "ask upstream", "done"}
  /\ query \in [name : Names, type : Types, class : Classes]
  /\ chain \in Seq(Records) /\ current \in Seq(Records)
  /\ visited \subseteq Names /\ depth \in Nat
  /\ target \in Names \cup {Nowhere}
  /\ outcome.rcode \in {"none", "not local", "noerror", "servfail"}
  /\ outcome.answers \in Seq(Records)
  /\ quiet \in BOOLEAN /\ reloads \in 0..MaxReloads

\* What was last put for the zone of a name, from all its files and in their order.
LastPut(n, t, c) ==
  IF n \in Names /\ Apex[n] \in DOMAIN loaded
  THEN OfKey(loaded[Apex[n]], CacheKey(n, t, c)) ELSE <<>>

\* The cache finds, for every name, the records that were last put for the root
\* that is the apex of the name, from all the files of that zone and in their
\* order, and no others: nothing of an earlier version stays.
FindsWhatWasPut ==
  \A n \in Names, t \in Types \cup {CNAME}, c \in Classes :
    FindRecords(n, t, c) = LastPut(n, t, c)

\* The records the zones hold of the class asked for, without the cache: the
\* reference for the chains.
ZoneRecords(n, t) == LastPut(n, t, query.class)

HasAlias(n, t) == ZoneRecords(n, t) = <<>> /\ ZoneRecords(n, CNAME) # <<>>
Alias(n) == Head(ZoneRecords(n, CNAME))

\* The name k aliases away from n, if there are as many.
NameAfter(n, t) ==
  LET name[k \in 0..Cardinality(Names)] ==
        IF k = 0 THEN n
        ELSE IF HasAlias(name[k - 1], t) THEN Alias(name[k - 1]).text ELSE Nowhere
  IN name

\* The answer by its definition: all aliases on the way from the name and then the
\* records they lead to; SERVFAIL if the way has no end or is too long.
Expected(q) ==
  LET name == NameAfter(q.name, q.type)
      aliases == {k \in DOMAIN name : HasAlias(name[k], q.type)}
      hops == Cardinality(aliases)
  IN CASE hops = 0 ->
            IF ZoneRecords(q.name, q.type) = <<>> THEN NotLocal
            ELSE NoError(ZoneRecords(q.name, q.type))
       [] hops > Cardinality(Names) \/ (maxDepth > 0 /\ hops > maxDepth) -> ServFail
       [] OTHER -> NoError([k \in 1..hops |-> Alias(name[k - 1])]
                             \o ZoneRecords(name[hops], q.type))

\* If nothing was reloaded meanwhile and no server had to be asked, the answer is
\* the chain the zone files define, and an endless or too long one is an error.
AnswerIsTheChain ==
  at = "done" /\ quiet /\ finder = "alias" /\ query.type # CNAME =>
    outcome = Expected(query)

\* However zones are reloaded between two lookups, and whatever honest servers
\* answer: an answer is the aliases followed and then what is no alias, it names no
\* alias twice, each alias leads to the owner of the next record, and no more
\* aliases are followed than allowed.
ChainHoldsTogether ==
  outcome.rcode = "noerror" /\ query.type # CNAME =>
    LET answers == outcome.answers
        hops == Cardinality(visited)
    IN /\ hops <= Len(answers)
       /\ \A i \in DOMAIN answers :
            /\ i <= hops => answers[i].type = CNAME
            /\ i = hops + 1 => answers[i].type # CNAME
       /\ maxDepth > 0 => hops <= maxDepth
       /\ \A i \in 1..hops : i < Len(answers) => answers[i + 1].name = answers[i].text
       /\ \A i, j \in 1..hops : answers[i].name = answers[j].name => i = j

\* Every query gets its answer, with or without a limit on the depth, even if a
\* reload turns the chain into a loop while it is being followed.
EveryChaseEnds == <>(at = "done")

-----------------------------------------------------------------------------
(* What the documents say, and the code does not do.                       *)

\* README.md: "CNAME Alias Resolution: RFC 1034 3.6.2 compliant chain expansion".
\* So a query for a name the zones have an alias for is answered with that alias.
AliasesAreFollowed ==
  at = "done" /\ quiet /\ HasAlias(query.name, query.type) => outcome # NotLocal
=============================================================================
