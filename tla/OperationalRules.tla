--------------------------- MODULE OperationalRules ---------------------------
(***************************************************************************)
(* The owner's standing orders to the pollers and agents: rules that block *)
(* or allow what a subsystem does, kept in a file behind a cache, asked    *)
(* before anything is sent.  Followed from operational-rules.ts and        *)
(* ai/handlers/operational-rules.ts.  A rule is switched off by no caller, *)
(* and muting and blocking are the same to every caller.                   *)
(***************************************************************************)
EXTENDS Integers, SequencesExt, Lists

CONSTANTS RuleSubsystems,   \* who asks: email, sms, delivery, proactive, agents
          EverySubsystem,   \* the subsystem "*"
          Matters,          \* what a message is about, as conditions see it
          AnyMatter,        \* a rule without conditions
          RuleOrders,       \* what the owner may order (see OrdersAreRules)
          MaxRules,         \* MAX_RULES
          CacheTicks,       \* CACHE_TTL_MS
          MaxRuleAdds,      \* how many rules the owner ever orders
          MaxRuleTicks,     \* how long it is watched
          MaxRuleFaults     \* how many writes of the file fail

ASSUME OrdersAreRules ==
  RuleOrders \subseteq [subsystem : RuleSubsystems \cup {EverySubsystem},
                        action : {"block", "allow"},
                        about : Matters \cup {AnyMatter},
                        lasts : Nat]         \* 0 is for good

ASSUME CacheAssumption == CacheTicks \in Nat

VARIABLES ruleFile,      \* operational-rules.json; one nobody can read holds no rules
          ruleCache,     \* the store in memory, and when it was loaded
          ruleClock,
          ruleCount,     \* how many rules were ordered; the next id
          ruleFaults,    \* how many of MaxRuleFaults there were
          told,          \* ghost: the rules the owner believes in force
          doubted,       \* ghost: ids he was told of an error about, or lost
          shown          \* ghost: the ids of the last list of all, in order

ruleVars == <<ruleFile, ruleCache, ruleClock, ruleCount, ruleFaults,
              told, doubted, shown>>

Rules == [id : 1 .. MaxRuleAdds,
          subsystem : RuleSubsystems \cup {EverySubsystem},
          action : {"block", "allow"},
          about : Matters \cup {AnyMatter},
          dies : Nat]

NoCache == [rules |-> <<>>, at |-> 0 - CacheTicks]

OperationalRulesTypeOK ==
  /\ ruleFile \in Seq(Rules) /\ Len(ruleFile) <= MaxRules
  /\ ruleCache.rules \in Seq(Rules) /\ ruleCache.at \in (0 - CacheTicks) .. MaxRuleTicks
  /\ ruleClock \in 0 .. MaxRuleTicks
  /\ ruleCount \in 0 .. MaxRuleAdds
  /\ ruleFaults \in 0 .. MaxRuleFaults
  /\ told \subseteq Rules
  /\ doubted \subseteq 1 .. MaxRuleAdds
  /\ shown \in Seq(1 .. MaxRuleAdds)

OperationalRulesInit ==
  /\ ruleFile = <<>>
  /\ ruleCache = NoCache
  /\ ruleClock = 0 /\ ruleCount = 0 /\ ruleFaults = 0
  /\ told = {} /\ doubted = {} /\ shown = <<>>

----------------------------------------------------------------------------
InForce(rule) == rule.dies = 0 \/ rule.dies > ruleClock
Pruned(rules) == Keep(rules, {rule \in Range(rules) : InForce(rule)})

\* loadStore: the cache while it is fresh, expired rules and all; else the
\* file without them, which is written back if there were any.
CacheFresh == ruleClock - ruleCache.at < CacheTicks
Loaded == IF CacheFresh THEN ruleCache.rules ELSE Pruned(ruleFile)
LoadedAt == IF CacheFresh THEN ruleCache.at ELSE ruleClock
FileOnceLoaded == IF CacheFresh THEN ruleFile ELSE Pruned(ruleFile)

\* getActiveRules and matchesConditions: a condition the message has nothing
\* for does not hold, and no conditions always do.
ActiveRulesUnchecked(subsystem) ==   \* a mutant: expired ones are left to the load
  Keep(Loaded, {rule \in Range(Loaded) : rule.subsystem \in {subsystem, EverySubsystem}})
ActiveRules(subsystem) ==
  Keep(Loaded, {rule \in Range(Loaded) : /\ InForce(rule)
                                          /\ rule.subsystem \in {subsystem, EverySubsystem}})
MatchesConditions(rule, matter) == rule.about \in {AnyMatter, matter}

\* findMatchingRule: what allows goes before what blocks.
FindMatchingRules(subsystem, matter) ==
  LET active == ActiveRules(subsystem)
      matching(action) == Keep(active, {rule \in Range(active) :
                                          /\ rule.action = action
                                          /\ MatchesConditions(rule, matter)})
  IN  matching("allow") \o matching("block")

\* shouldForwardEmail, -SMS and -Delivery, shouldSendProactive, shouldRunAgent.
ShouldForward(subsystem, matter) ==
  LET found == FindMatchingRules(subsystem, matter)
  IN  found = <<>> \/ Head(found).action = "allow"

----------------------------------------------------------------------------
\* Any question loads the store: a poller's, or the prompt's list of rules.
AskRules ==
  /\ ruleFile' = FileOnceLoaded
  /\ ruleCache' = [rules |-> Loaded, at |-> LoadedAt]
  /\ shown' = IF FileOnceLoaded = ruleFile THEN shown ELSE <<>>
  /\ UNCHANGED <<ruleClock, ruleCount, ruleFaults, told, doubted>>

\* list_operational_rules: the numbers count the rules of the list asked for.
ListRules(whole) ==
  /\ ruleFile' = FileOnceLoaded
  /\ ruleCache' = [rules |-> Loaded, at |-> LoadedAt]
  /\ shown' = IF whole THEN [n \in DOMAIN Loaded |-> Loaded[n].id] ELSE <<>>
  /\ UNCHANGED <<ruleClock, ruleCount, ruleFaults, told, doubted>>

Ids(rules) == {rules[n].id : n \in DOMAIN rules}
ToldIds == {rule.id : rule \in told}

\* saveStore, once the cached store holds "rules": the cache is dropped only
\* after the write, so a write that fails leaves what it was to write in the
\* cache, and a write that dies in the file leaves a file nobody can read.
SaveStore(rules) ==
  /\ ruleFile' = rules /\ ruleCache' = NoCache
  /\ UNCHANGED ruleFaults
SaveFails(rules, touched) ==         \* the owner is told of an error
  /\ ruleFaults < MaxRuleFaults /\ ruleFaults' = ruleFaults + 1
  /\ ruleCache' = [rules |-> rules, at |-> LoadedAt]
  /\ \/ ruleFile' = FileOnceLoaded /\ doubted' = doubted \cup touched
     \/ ruleFile' = <<>> /\ doubted' = doubted \cup touched \cup ToldIds
  /\ UNCHANGED told

\* Over MaxRules the oldest is dropped, in silence.
KeptRules(rules) == IF Len(rules) > MaxRules THEN Tail(rules) ELSE rules

\* computeExpiry: an order without a term never dies.
ComputeExpiry(order) == IF order.lasts = 0 THEN 0 ELSE ruleClock + order.lasts

AddRule(order) ==
  LET rule == [id |-> ruleCount + 1, subsystem |-> order.subsystem,
               action |-> order.action, about |-> order.about,
               dies |-> ComputeExpiry(order)]
      all  == Append(Loaded, rule)
      kept == KeptRules(all)
      gone == Ids(all) \ Ids(kept)
  IN  /\ ruleCount < MaxRuleAdds
      /\ ruleCount' = ruleCount + 1
      /\ shown' = IF gone = {} /\ FileOnceLoaded = ruleFile THEN shown ELSE <<>>
      /\ \/ /\ SaveStore(kept)
            /\ told' = told \cup {rule} /\ doubted' = doubted \cup gone
         \/ SaveFails(kept, gone \cup {rule.id})
      /\ UNCHANGED ruleClock

\* What a number means to the owner: the rule he saw under it, as long as what
\* he saw were all rules, none has left since and no write has failed; else only
\* the answer tells him what he removed.
Meant(n) ==
  IF n \in DOMAIN shown /\ ruleFaults = 0 /\ FileOnceLoaded = ruleFile
  THEN shown[n] ELSE Loaded[n].id

\* removeRule, once it has found the rule: the n-th goes, and the owner is
\* told that the rule he meant did.
Removes(n, meant) ==
  /\ shown' = <<>>
  /\ \/ /\ SaveStore(RemoveAt(Loaded, n))
        /\ told' = {rule \in told : rule.id # meant}
        /\ UNCHANGED doubted
     \/ SaveFails(RemoveAt(Loaded, n), {Loaded[n].id})
  /\ UNCHANGED <<ruleClock, ruleCount>>

RemoveNumbered(n) == n \in DOMAIN Loaded /\ Removes(n, Meant(n))

\* Neither an id nor a number: the first rule whose words or conditions match.
RemoveAbout(matter) ==
  \E n \in DOMAIN Loaded :
    /\ Loaded[n].about = matter
    /\ \A k \in 1 .. n - 1 : Loaded[k].about # matter
    /\ Removes(n, Loaded[n].id)

\* A death in the middle of the write of a rule: the file is cut short, and
\* the process comes back without its cache.
DiesSaving ==
  /\ ruleFaults < MaxRuleFaults /\ ruleFaults' = ruleFaults + 1
  /\ Loaded # <<>>
  /\ ruleFile' = <<>> /\ ruleCache' = NoCache
  /\ doubted' = doubted \cup ToldIds
  /\ shown' = <<>>
  /\ UNCHANGED <<ruleClock, ruleCount, told>>

RulesRestart ==
  /\ ruleCache' = NoCache
  /\ UNCHANGED <<ruleFile, ruleClock, ruleCount, ruleFaults, told, doubted, shown>>

RuleTime ==
  /\ ruleClock < MaxRuleTicks
  /\ ruleClock' = ruleClock + 1
  /\ UNCHANGED <<ruleFile, ruleCache, ruleCount, ruleFaults, told, doubted, shown>>

OperationalRulesNext ==
  \/ AskRules
  \/ \E whole \in BOOLEAN : ListRules(whole)
  \/ \E order \in RuleOrders : AddRule(order)
  \/ \E n \in 1 .. MaxRules : RemoveNumbered(n)
  \/ \E matter \in Matters : RemoveAbout(matter)
  \/ DiesSaving
  \/ RulesRestart
  \/ RuleTime

OperationalRulesSpec == OperationalRulesInit /\ [][OperationalRulesNext]_ruleVars

----------------------------------------------------------------------------
(***************************************************************************)
(* Every subsystem is answered as the owner ordered: through the cache and *)
(* past restarts, an order he was told of holds until it expires or he was *)
(* told it is removed, "remove the second" takes the one he saw second,    *)
(* and what allows goes before what blocks.  Left out are the questions to *)
(* which a rule bears whose write failed, was torn by a death, or which    *)
(* was dropped as the oldest: of those the owner is told nothing right.    *)
(***************************************************************************)
RulesAsTold ==
  \A subsystem \in RuleSubsystems, matter \in Matters :
    LET bears(rule) == /\ InForce(rule)
                       /\ rule.subsystem \in {subsystem, EverySubsystem}
                       /\ MatchesConditions(rule, matter)
        wanted == {rule \in told : bears(rule)}
    IN  (\A rule \in told \cup Range(Loaded) : bears(rule) => rule.id \notin doubted)
          => (ShouldForward(subsystem, matter)
                <=> (wanted = {} \/ \E rule \in wanted : rule.action = "allow"))
=============================================================================
