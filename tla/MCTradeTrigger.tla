-------------------------- MODULE MCTradeTrigger --------------------------
(* Small instances of TradeTrigger: one market watched by two specs, a     *)
(* direct feed or one that needs corroboration, of which a poll looks at   *)
(* fewer items than it may publish.                                        *)
EXTENDS TradeTrigger

MCFeeds == <<"state.gov">>
MCItems == {"talks"}
MCTwoItems == {"talks", "terms"}
MCFeedOf == [i \in Items |-> "state.gov"]
MCMarkets == <<"iran">>
MCSpecs == [m \in {"iran"} |-> <<"up", "either">>]
MCTopicOf == [k \in Items \cup {"iran"} |-> "iran"]
MCDirect == {"whitehouse.gov"}
MCDirectFeeds == <<"whitehouse.gov">>
MCDirectFeedOf == [i \in Items |-> "whitehouse.gov"]
MCTierOf == [d \in Domains |-> "T1"]
MCMapping == <<[ticker |-> "ETH", direction |-> "long"],
               [ticker |-> "BTC", direction |-> "long"],
               [ticker |-> "SOL", direction |-> "short"]>>
MCOneTrigger == <<[ticker |-> "ETH", direction |-> "long"]>>
MCMoves == {-5, 0, 5}
===========================================================================
