------------------------------ MODULE MCDirectives ------------------------------
(* A small plan for DirectiveStore: directives chained by entities from the     *)
(* energy a decision spends to a project and the campaign it serves.            *)
EXTENDS DirectiveStore, TLC

Metrics == {"energy", "bases", "income"}
Rates == "energy" :> "income"

Directive(id, metric, comparator, target, starts, horizon, entities, priority) ==
    [id |-> id, metric |-> metric, comparator |-> comparator, target |-> target,
     baseline |-> None, issued |-> None, starts |-> starts, horizon |-> horizon,
     entities |-> entities, priority |-> priority]

Thrift == Directive(1, "energy", "at_least", 3, None, None, {"project"}, 5)
Project == Directive(2, "bases", "hold", None, None, 3, {"project", "campaign"}, 7)
Campaign == Directive(3, "bases", "at_most", 2, 3, 4, {"campaign"}, 9)
Wider == Directive(2, "bases", "increase", None, None, 1, {"campaign"}, 7)
Sooner == Directive(4, "bases", "at_most", 2, None, 1, {"campaign"}, 5)
Shapeless == Directive(3, "income", "at_least", None, None, None, {}, 5)

Fund == [turn |-> 0, metrics |-> [energy |-> 3, bases |-> 2, income |-> 1],
         actions |-> {<<>>, [bases |-> 1]}, entities |-> {"project"}]
Spend == [turn |-> 0, metrics |-> <<>>, actions |-> {[energy |-> -1]}, entities |-> {}]

Decisions == {Fund, Spend}
Brief == {Wider, Campaign}
Written == {Project, Campaign, Sooner, Shapeless}
Seeded == {[Thrift EXCEPT !.issued = 1], [Campaign EXCEPT !.id = 4, !.priority = 5,
            !.entities = {"campaign", "fleet"}]}
================================================================================
