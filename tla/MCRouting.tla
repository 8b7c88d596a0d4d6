----------------------------- MODULE MCRouting -----------------------------
(* A small instance of Affinity for TLC: a strong, dear endpoint, one in   *)
(* the middle, and a cheap and weak one that has no tools.                 *)
EXTENDS Affinity
LOCAL INSTANCE TLC

CONSTANTS h1, h2, strong, middle, weak

Profile(input, output, capability, tools) ==
  [price |-> [input |-> input, output |-> output, cached |-> None],
   billing |-> "payg", used |-> None, reset |-> None,
   capability |-> capability, family |-> capability, tools |-> tools,
   priority |-> 1, weight |-> 1]

ThreeModels ==
  strong :> Profile(300, 1500, 920, "yes") @@ middle :> Profile(100, 500, 850, "unknown")
    @@ weak :> [Profile(10, 40, 500, "no") EXCEPT !.billing = "subscription", !.used = 90]

Plain == [tokens |-> 10, tools |-> FALSE, code |-> FALSE, keyword |-> "none",
          long |-> FALSE, correction |-> FALSE]
EasyAndTask == {Plain, [Plain EXCEPT !.tools = TRUE, !.keyword = "task"]}

CapabilityOrCost ==
  {[strategy |-> "smart", affinity |-> TRUE, judge |-> TRUE, ttl |-> 1,
    members |-> {strong, middle, weak}],
   [strategy |-> "cost_aware", affinity |-> TRUE, judge |-> FALSE, ttl |-> 1,
    members |-> {middle, weak}]}

Quiet == [cooling |-> FALSE, errors |-> 0, latency |-> 0, active |-> 0, cache |-> "few"]
AllWell == [e \in Endpoints |-> Quiet]
WellOrNot ==
  {AllWell,
   [AllWell EXCEPT ![strong] = [@ EXCEPT !.cooling = TRUE, !.cache = "healthy"],
                   ![middle].cache = "collapsed", ![weak].errors = 20]}

Alike == Permutations({h1, h2})
=============================================================================
