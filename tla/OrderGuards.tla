------------------------------ MODULE OrderGuards -------------------------------
(* The guards an answer passes before it is played (hank.py, jev.py, yupana.py, *)
(* composed by service.py: build_guard) and the question an agent may put to    *)
(* the board first (yupana.py: what_if).  Yupana holds one board per tenant: a  *)
(* game id and a faction; a guard puts its decision's board there and then has  *)
(* the orders judged, in two calls.  All decisions share one client and its     *)
(* session; every what_if makes its own.                                        *)
EXTENDS Integers, FiniteSets

CONSTANTS Absent,         \* the value of a metric the game did not report
          Metrics,        \* metrics an action can have an effect on
          Pools,          \* those the vocabulary declares to be pools
          Actions,        \* action ids
          Effect,         \* action -> metric -> what the engine says it does to it
          Facts,          \* citable ids
          Policies,       \* what policies_from_quipu projects: order policies
          BoardViews,     \* the world views the game sends
          Answers,        \* what a brain can answer: choices and citations
          Judges,         \* threads that decide
          Askers,         \* threads that serve POST /agent/whatif
          MaxEpoch,       \* bound: lives of the yupana server
          MaxAnswered     \* bound: decisions and questions

ASSUME GuardConstantsOK ==
    /\ Pools \subseteq Metrics
    /\ \A p \in Policies : p.metric \in Metrics /\ p.effect \in {"deny", "warn"}
    /\ \A v \in BoardViews : /\ v.space \subseteq Actions
                             /\ v.grounded \cup v.planned \subseteq Facts
    /\ \A a \in Answers : a.choices \subseteq Actions /\ a.cited \subseteq Facts
    /\ {MaxEpoch, MaxAnswered} \subseteq Nat

-------------------------------------------------------------------------------
(* Rulings. *)

Ruling(stripped, advisories, degraded) ==
    [stripped |-> stripped, advisories |-> advisories, degraded |-> degraded]
Allow == Ruling({}, {}, FALSE)
Down == Ruling({}, {}, TRUE)

\* StateGuard: only a reported pool can be overdrawn.
Overdraws(v, a) ==
    \E m \in Pools : /\ v.metrics[m] # Absent
                     /\ Effect[a][m] < 0
                     /\ v.metrics[m] + Effect[a][m] < 0

StateRuling(v, answer) ==
    LET broke == {a \in answer.choices \cap v.space : Overdraws(v, a)}
    IN Ruling(broke, {"overdrawn" : a \in broke}
                  \cup {"breaks a directive" : a \in answer.choices \cap v.against}, FALSE)

\* CitationGuard, without a resolver.
CitationRuling(v, answer) ==
    Ruling({}, (IF answer.cited \subseteq v.grounded \cup v.planned THEN {}
                ELSE {"never offered"})
               \cup (IF v.grounded # {} /\ answer.cited = {} THEN {"none cited"} ELSE {}),
           FALSE)

\* JevGuard: it speaks when there is a directive to contradict, and never strips.
JevRulings(v, answer) ==
    IF v.planned = {} \/ answer.choices = {} THEN {Allow}
    ELSE {Ruling({}, {"jev"}, FALSE), Ruling({}, {"jev unavailable"}, TRUE)}

\* An order's consequences are the engine's statement, never the brain's (proposed).
Effected(v, a, m) ==
    IF v.metrics[m] = Absent \/ a \notin v.space THEN v.metrics[m]
    ELSE v.metrics[m] + Effect[a][m]

\* What yupana answers about orders over a board: a policy that a board fails before any
\* order blames none, and one whose metric the board lacks matched nothing.
Fails(x, p) == x # Absent /\ x < p.floor
Blamed(p, board, v, choices) ==
    IF Fails(board.metrics[p.metric], p) \/ board.metrics[p.metric] = Absent THEN {}
    ELSE {a \in choices : Fails(Effected(v, a, p.metric), p)}

\* _ruling: a violation that blames no order strips none.
BoardRuling(board, v, answer) ==
    Ruling(UNION {Blamed(p, board, v, answer.choices) : p \in {q \in Policies : q.effect = "deny"}},
           {p.label : p \in {q \in Policies : \/ board.metrics[q.metric] = Absent
                                              \/ Fails(board.metrics[q.metric], q)
                                              \/ Blamed(q, board, v, answer.choices) # {}}},
           FALSE)

\* GuardChain: any strip denies, any failure shows.
Chain(rulings) ==
    Ruling(UNION {r.stripped : r \in rulings}, UNION {r.advisories : r \in rulings},
           \E r \in rulings : r.degraded)

\* knowledge.apply
Apply(answer, ruling) == answer.choices \ ruling.stripped

-------------------------------------------------------------------------------
VARIABLES
    epoch,      \* the life of the yupana server
    up,         \* it answers
    boards,     \* tenant and faction -> the view last ingested there, and by whom
    session,    \* McpClient._session of the shared client: the life that opened it
    at, its, answer,
                \* of each thread: where it is, its view, and its answer
    verdict,    \* of each decision: the ruling, the board it was made on, and whether a
                \* guard threw on the way
    stale,      \* refusals of a session of an earlier life, in this life
    answered

guardVars == <<epoch, up, boards, session, at, its, answer, verdict, stale, answered>>
server == <<epoch, up, boards>>

Tenants == {"na", "game"}      \* YupanaGuard's game_id, and the orchestrator's
NoBoard == [view |-> CHOOSE v \in BoardViews : TRUE, by |-> "nobody"]
NoAnswer == [choices |-> {}, cited |-> {}]
NoVerdict == [ruling |-> Allow, board |-> NoBoard, asked |-> FALSE, thrown |-> FALSE]
FactionsSeen == {v.faction : v \in BoardViews}
Threads == Judges \cup Askers

GuardsInit ==
    /\ epoch = 1 /\ up = TRUE
    /\ boards = [t \in Tenants |-> [f \in FactionsSeen |-> NoBoard]]
    /\ session = 0
    /\ at = [t \in Threads |-> "idle"]
    /\ its = [t \in Threads |-> NoBoard.view]
    /\ answer = [t \in Threads |-> NoAnswer]
    /\ verdict = [t \in Threads |-> NoVerdict]
    /\ stale = 0
    /\ answered = 0

To(t, place) == at' = [at EXCEPT ![t] = place]

\* Legal orders reach the guards: validate has run.  An empty answer is not asked about.
Propose(t, v, a) ==
    /\ at[t] = "idle" /\ t \in Judges
    /\ answered < MaxAnswered /\ answered' = answered + 1
    /\ a.choices \subseteq v.space
    /\ its' = [its EXCEPT ![t] = v]
    /\ answer' = [answer EXCEPT ![t] = a]
    /\ verdict' = [verdict EXCEPT ![t] = NoVerdict]
    /\ To(t, IF a.choices = {} THEN "unasked" ELSE "connect")
    /\ UNCHANGED <<server, session, stale>>

\* An action nobody offered is not asked about.
AskWhatIf(t, v, a) ==
    /\ at[t] = "idle" /\ t \in Askers
    /\ answered < MaxAnswered /\ answered' = answered + 1
    /\ its' = [its EXCEPT ![t] = v]
    /\ answer' = [answer EXCEPT ![t] = [choices |-> {a}, cited |-> {}]]
    /\ verdict' = [verdict EXCEPT ![t] = NoVerdict]
    /\ To(t, IF a \in v.space THEN "connect" ELSE "unavailable")
    /\ UNCHANGED <<server, session, stale>>

GiveUp(t) == To(t, IF t \in Judges THEN "failed" ELSE "unavailable")

\* McpClient.connect: a session that is held is not opened again.
Connect(t) ==
    /\ at[t] = "connect"
    /\ IF t \in Judges /\ session # 0 THEN To(t, "ingest") /\ session' = session
       ELSE IF ~up THEN GiveUp(t) /\ session' = session
       ELSE To(t, "ingest") /\ session' = IF t \in Judges THEN epoch ELSE session
    /\ UNCHANGED <<server, its, answer, verdict, stale, answered>>

\* Mutant: what_if speaks in the guard's tenant.
OneTenant(t) == "na"

TenantOf(t) == IF t \in Judges THEN "na" ELSE "game"

Heard(t) == up /\ (t \in Judges => session = epoch)
Refused(t) == /\ GiveUp(t)
              /\ stale' = IF up /\ t \in Judges /\ session # epoch THEN stale + 1 ELSE stale

\* yupana_ingest, replacing what the tenant held.
Ingest(t) ==
    /\ at[t] = "ingest"
    /\ IF Heard(t)
       THEN /\ boards' = [boards EXCEPT ![TenantOf(t)][its[t].faction] =
                              [view |-> its[t], by |-> t]]
            /\ To(t, "judge") /\ stale' = stale
       ELSE Refused(t) /\ boards' = boards
    /\ UNCHANGED <<epoch, up, session, its, answer, verdict, answered>>

\* yupana_guard or yupana_whatif, over whatever board the tenant holds by then.
Judge(t) ==
    /\ at[t] = "judge"
    /\ LET board == boards[TenantOf(t)][its[t].faction]
       IN IF Heard(t) /\ board.by # "nobody"
          THEN /\ verdict' = [verdict EXCEPT ![t] =
                      [ruling |-> BoardRuling(board.view, its[t], answer[t]),
                       board |-> board, asked |-> TRUE, thrown |-> FALSE]]
               /\ To(t, IF t \in Judges THEN "judged" ELSE "told") /\ stale' = stale
          ELSE Refused(t) /\ verdict' = verdict
    /\ UNCHANGED <<server, session, its, answer, answered>>

\* A reply that is JSON but no report: _ruling, outside the guard's try, raises through the
\* chain, and knowledge.rule puts a degraded allow in place of every guard's ruling.
JudgeThrows(t) ==
    /\ at[t] = "judge" /\ t \in Judges
    /\ Heard(t)
    /\ verdict' = [verdict EXCEPT ![t] = [ruling |-> Down, board |-> NoBoard, asked |-> FALSE,
                                          thrown |-> TRUE]]
    /\ To(t, "ruled")
    /\ UNCHANGED <<server, session, its, answer, stale, answered>>

\* Mutant: a board guard that failed ends the chain.
FailedAlone(t, jev) ==
    /\ at[t] \in {"judged", "failed", "unasked"}
    /\ verdict' = [verdict EXCEPT ![t].ruling =
           IF at[t] = "failed" THEN Down
           ELSE Chain({StateRuling(its[t], answer[t]), CitationRuling(its[t], answer[t]),
                       verdict[t].ruling, jev})]
    /\ To(t, "ruled")
    /\ UNCHANGED <<server, session, its, answer, stale, answered>>

\* The chain as a whole; a board guard that failed is a degraded allow.
Rule(t, jev) ==
    /\ at[t] \in {"judged", "failed", "unasked"}
    /\ jev \in JevRulings(its[t], answer[t])
    /\ verdict' = [verdict EXCEPT ![t].ruling =
           Chain({StateRuling(its[t], answer[t]), CitationRuling(its[t], answer[t]), jev,
                  IF at[t] = "failed" THEN Down ELSE verdict[t].ruling})]
    /\ To(t, "ruled")
    /\ UNCHANGED <<server, session, its, answer, stale, answered>>

Leave(t) ==
    /\ at[t] \in {"ruled", "told", "unavailable"}
    /\ To(t, "idle")
    /\ its' = [its EXCEPT ![t] = NoBoard.view]
    /\ answer' = [answer EXCEPT ![t] = NoAnswer]
    /\ verdict' = [verdict EXCEPT ![t] = NoVerdict]
    /\ UNCHANGED <<server, session, stale, answered>>

\* The server dies and comes back with no boards and no sessions.
YupanaDies ==
    /\ up /\ epoch < MaxEpoch
    /\ up' = FALSE
    /\ UNCHANGED <<epoch, boards, session, at, its, answer, verdict, stale, answered>>

YupanaReturns ==
    /\ ~up
    /\ up' = TRUE
    /\ epoch' = epoch + 1
    /\ boards' = [t \in Tenants |-> [f \in FactionsSeen |-> NoBoard]]
    /\ stale' = 0
    /\ UNCHANGED <<session, at, its, answer, verdict, answered>>

GuardsNext ==
    \/ \E t \in Threads :
         \/ \E v \in BoardViews :
              \/ \E a \in Answers : Propose(t, v, a)
              \/ \E a \in Actions : AskWhatIf(t, v, a)
         \/ Connect(t) \/ Ingest(t) \/ Judge(t) \/ JudgeThrows(t) \/ Leave(t)
         \/ \E jev \in JevRulings(its[t], answer[t]) : Rule(t, jev)
    \/ YupanaDies \/ YupanaReturns

GuardsSpec == GuardsInit /\ [][GuardsNext]_guardVars

-------------------------------------------------------------------------------
(* Properties. *)

GuardsTypeOK ==
    /\ epoch \in 1..MaxEpoch /\ session \in 0..epoch
    /\ \A t \in Threads :
          /\ its[t] \in BoardViews
          /\ verdict[t].ruling.stripped \subseteq answer[t].choices
    /\ answered \in 0..MaxAnswered

\* The board a decision is judged on is one that a decision of its own faction put there:
\* asking what an order would do is free of consequence, and no board crosses factions
\* (yupana.py: what_if, YupanaGuard.rule).
JudgedOnFactionsBoard ==
    \A t \in Judges : verdict[t].asked =>
        /\ verdict[t].board.by \in Judges
        /\ verdict[t].board.view.faction = its[t].faction

\* Whether the servers behind the other guards answer, refuse or are gone, an order its
\* faction cannot pay for is not played, and with the board guard down nothing else is
\* withheld: a dead guard allows and the living ones still rule (hank.py: GuardChain;
\* knowledge.py: apply).  All of it only while no guard throws: after a reply that is no
\* report, nobody rules.
DeadGuardAllows ==
    \A t \in Judges : at[t] = "ruled" /\ ~verdict[t].thrown =>
        LET played == Apply(answer[t], verdict[t].ruling)
            broke == {a \in answer[t].choices :
                         \E m \in Pools : /\ its[t].metrics[m] # Absent
                                          /\ its[t].metrics[m] + Effect[a][m] < 0
                                          /\ Effect[a][m] < 0}
        IN /\ played \cap broke = {}
           /\ ~verdict[t].asked => played = answer[t].choices \ broke

\* "Deny wins.  A chain in which one guard allows and another denies has denied"
\* (hank.py:249), also when the other is the board's and its reply cannot be read.
DenyWins ==
    \A t \in Judges : at[t] = "ruled" =>
        Apply(answer[t], verdict[t].ruling)
            \cap StateRuling(its[t], answer[t]).stripped = {}

\* yupana.py: "Replace is what makes that closure true rather than hoped for": judged on
\* the entities this world view carried.  Two calls are not one, and another decision of
\* the faction may put its board in between.
JudgedOnOwnBoard ==
    \A t \in Threads : verdict[t].asked => verdict[t].board.view = its[t]

\* yupana.py, of a server restart: "degrade, record, and let the next decision
\* re-establish."  connect never opens a second session, so no later decision does.
Reestablishes == stale <= Cardinality(Judges)
================================================================================
