---------------------------- MODULE Knowledge_proofs ----------------------------
(* What stands around a decision, for any views, answers, policies, judges and   *)
(* lives of the board server, and for any factions, intents, limits and lives of *)
(* the process: the board it is judged on, the plans in front of it, and the     *)
(* evidence its record names.                                                    *)
EXTENDS Grounding, OrderGuards, FunctionTheorems, FiniteSetTheorems, SequenceTheorems, TLAPS

(*---------------------------------------------------------------------------*)
(* The guards.                                                                *)

GuardPlaces == {"idle", "unasked", "connect", "ingest", "judge", "judged", "failed", "ruled",
                "told", "unavailable"}
Undecided == {"unasked", "connect", "ingest", "judge", "failed"}
Deliberating == Undecided \cup {"judged", "ruled"}

\* What the record updates below need to know of their shapes.
VerdictShape(d) == d = [ruling |-> d.ruling, board |-> d.board, asked |-> d.asked,
                        thrown |-> d.thrown]
GuardShapes ==
    /\ at \in [Threads -> GuardPlaces]
    /\ DOMAIN its = Threads /\ DOMAIN answer = Threads /\ DOMAIN verdict = Threads
    /\ DOMAIN boards = Tenants
    /\ \A tn \in Tenants : DOMAIN boards[tn] = FactionsSeen
    /\ \A t \in Threads : VerdictShape(verdict[t])

\* Judges alone put boards in the tenant of the guards, each its own faction's.
JudgesBoards ==
    \A f \in FactionsSeen : boards["na"][f].by # "nobody" =>
        /\ boards["na"][f].by \in Judges
        /\ boards["na"][f].view.faction = f

\* What reached the guards is legal.
LegalAnswers ==
    \A t \in Threads : at[t] \in Deliberating =>
        its[t] \in BoardViews /\ answer[t].choices \subseteq its[t].space

\* No ruling is in before the chain's, but the board's.
Unruled ==
    \A t \in Threads :
        /\ at[t] \in Undecided => ~verdict[t].asked /\ verdict[t].ruling = Allow
        /\ at[t] = "judged" => verdict[t].asked

\* What the chain strips, with the guard of the state in it, unless a guard threw.
ChainRuled ==
    \A t \in Threads : at[t] = "ruled" /\ ~verdict[t].thrown =>
        LET broke == StateRuling(its[t], answer[t]).stripped
        IN /\ broke \subseteq verdict[t].ruling.stripped
           /\ ~verdict[t].asked => verdict[t].ruling.stripped = broke

GuardInv ==
    /\ GuardShapes
    /\ JudgesBoards
    /\ LegalAnswers
    /\ Unruled
    /\ ChainRuled
    /\ JudgedOnFactionsBoard

\* A record updated in its ruling keeps the rest.
LEMMA RulingReplaced ==
    ASSUME NEW d, VerdictShape(d), NEW r
    PROVE  [d EXCEPT !.ruling = r] = [ruling |-> r, board |-> d.board, asked |-> d.asked,
                                      thrown |-> d.thrown]
BY DEF VerdictShape

\* A chain strips what one of its guards strips.
LEMMA ChainStrips ==
    ASSUME NEW rs
    PROVE  Chain(rs).stripped = UNION {r.stripped : r \in rs}
BY DEF Chain, Ruling

LEMMA GuardInvInit == GuardsInit => GuardInv
<1> SUFFICES ASSUME GuardsInit PROVE GuardInv
  OBVIOUS
<1>1. GuardShapes
  BY DEF GuardShapes, GuardsInit, VerdictShape, NoVerdict, GuardPlaces
<1>2. JudgesBoards
  BY DEF JudgesBoards, GuardsInit, NoBoard, Tenants
<1>3. LegalAnswers /\ Unruled /\ ChainRuled
  BY DEF LegalAnswers, Unruled, ChainRuled, GuardsInit, Deliberating, Undecided
<1>4. JudgedOnFactionsBoard
  BY DEF JudgedOnFactionsBoard, GuardsInit, NoVerdict, Threads
<1> QED
  BY <1>1, <1>2, <1>3, <1>4 DEF GuardInv

\* A thread that starts, or gives up, or leaves, judges nothing.
LEMMA StartKeepsGuardInv ==
    ASSUME GuardInv, NEW t \in Threads, NEW v \in BoardViews,
           \/ \E a \in Answers : Propose(t, v, a)
           \/ \E a \in Actions : AskWhatIf(t, v, a)
    PROVE  GuardInv'
<1> USE DEF GuardInv
<1>1. PICK a, p : /\ p \in GuardPlaces /\ at' = [at EXCEPT ![t] = p]
                  /\ its' = [its EXCEPT ![t] = v]
                  /\ answer' = [answer EXCEPT ![t] = a]
                  /\ verdict' = [verdict EXCEPT ![t] = NoVerdict]
                  /\ boards' = boards
                  /\ p \in {"unasked", "connect", "unavailable"}
                  /\ p # "unavailable" => a.choices \subseteq v.space
  <2>1. CASE \E a \in Answers : Propose(t, v, a)
    <3>1. PICK a \in Answers : Propose(t, v, a)
      BY <2>1
    <3>2. WITNESS a
    <3>3. WITNESS IF a.choices = {} THEN "unasked" ELSE "connect"
    <3> QED
      BY <3>1 DEF Propose, To, GuardPlaces, server
  <2>2. CASE \E a \in Actions : AskWhatIf(t, v, a)
    <3>1. PICK a \in Actions : AskWhatIf(t, v, a)
      BY <2>2
    <3> DEFINE one == [choices |-> {a}, cited |-> {}]
               to == IF a \in v.space THEN "connect" ELSE "unavailable"
    <3>2. /\ to \in GuardPlaces /\ at' = [at EXCEPT ![t] = to]
          /\ its' = [its EXCEPT ![t] = v]
          /\ answer' = [answer EXCEPT ![t] = one]
          /\ verdict' = [verdict EXCEPT ![t] = NoVerdict]
          /\ boards' = boards
          /\ to \in {"unasked", "connect", "unavailable"}
          /\ to # "unavailable" => one.choices \subseteq v.space
      BY <3>1 DEF AskWhatIf, To, GuardPlaces, server
    <3> QED
      BY <3>2
  <2> QED
    BY <2>1, <2>2
<1>2. GuardShapes'
  BY <1>1 DEF GuardShapes, VerdictShape, NoVerdict
<1>3. JudgesBoards'
  BY <1>1 DEF JudgesBoards
<1>4. LegalAnswers' /\ Unruled' /\ ChainRuled'
  <2>1. \A u \in Threads : u # t => /\ at'[u] = at[u] /\ its'[u] = its[u]
                                    /\ answer'[u] = answer[u] /\ verdict'[u] = verdict[u]
    BY <1>1 DEF GuardShapes
  <2>2. /\ at'[t] = p /\ its'[t] = v /\ answer'[t] = a /\ verdict'[t] = NoVerdict
    BY <1>1 DEF GuardShapes
  <2> QED
    BY <1>1, <2>1, <2>2
    DEF LegalAnswers, Unruled, ChainRuled, NoVerdict, Deliberating, Undecided
<1>5. JudgedOnFactionsBoard'
  BY <1>1 DEF JudgedOnFactionsBoard, GuardShapes, NoVerdict, Threads
<1> QED
  BY <1>2, <1>3, <1>4, <1>5

\* A thread that only moves, to a place that asks no more of it, keeps the rest.
LEMMA MoveKeepsGuardInv ==
    ASSUME GuardInv, NEW t \in Threads, NEW p \in GuardPlaces, To(t, p),
           p = at[t] \/ p \notin {"judged", "ruled"},
           p \in Undecided => at[t] \in Undecided,
           UNCHANGED <<boards, its, answer, verdict>>
    PROVE  GuardInv'
<1> USE DEF GuardInv
<1>1. /\ \A u \in Threads : at'[u] = IF u = t THEN p ELSE at[u]
      /\ at' \in [Threads -> GuardPlaces]
  BY DEF To, GuardShapes
<1>2. GuardShapes' /\ JudgesBoards' /\ JudgedOnFactionsBoard'
  BY <1>1 DEF GuardShapes, JudgesBoards, JudgedOnFactionsBoard, VerdictShape
<1>3. LegalAnswers' /\ Unruled' /\ ChainRuled'
  BY <1>1 DEF LegalAnswers, Unruled, ChainRuled, Deliberating, Undecided, GuardPlaces
<1> QED
  BY <1>2, <1>3

LEMMA ConnectKeepsGuardInv ==
    ASSUME GuardInv, NEW t \in Threads, Connect(t)
    PROVE  GuardInv'
<1>1. PICK p \in {"ingest", "failed", "unavailable"} : To(t, p)
  BY DEF Connect, GiveUp
<1>2. at[t] = "connect" /\ UNCHANGED <<boards, its, answer, verdict>>
  BY DEF Connect, server
<1> QED
  BY <1>1, <1>2, MoveKeepsGuardInv DEF Undecided, GuardPlaces

\* A board goes to the tenant of its thread, under the faction of its view.
LEMMA IngestKeepsGuardInv ==
    ASSUME GuardInv, NEW t \in Threads, Ingest(t)
    PROVE  GuardInv'
<1> DEFINE own == [view |-> its[t], by |-> t]
           tn == TenantOf(t)
           f0 == its[t].faction
<1>1. at[t] = "ingest" /\ UNCHANGED <<its, answer, verdict>>
  BY DEF Ingest
<1>2. CASE Heard(t)
  <2>1. /\ boards' = [boards EXCEPT ![tn][f0] = own]
        /\ To(t, "judge")
    BY <1>2 DEF Ingest
  <2>2. f0 \in FactionsSeen /\ tn \in Tenants
    BY <1>1 DEF GuardInv, LegalAnswers, Deliberating, Undecided, FactionsSeen, TenantOf, Tenants
  <2>3. \A u \in Threads : at'[u] = IF u = t THEN "judge" ELSE at[u]
    BY <2>1 DEF To, GuardInv, GuardShapes
  <2>4. GuardShapes'
    <3>1. at' \in [Threads -> GuardPlaces]
      BY <2>1 DEF To, GuardInv, GuardShapes, GuardPlaces
    <3>2. DOMAIN boards' = Tenants /\ \A n \in Tenants : DOMAIN boards'[n] = FactionsSeen
      BY <2>1, <2>2 DEF GuardInv, GuardShapes
    <3> QED
      BY <1>1, <3>1, <3>2 DEF GuardInv, GuardShapes, VerdictShape
  <2>5. JudgesBoards'
    <3>1. CASE t \in Judges
      <4>1. tn = "na"
        BY <3>1 DEF TenantOf
      <4>2. boards'["na"] = [boards["na"] EXCEPT ![f0] = own]
        BY <2>1, <4>1 DEF GuardInv, GuardShapes, Tenants
      <4>3. \A f \in FactionsSeen : boards'["na"][f] = IF f = f0 THEN own ELSE boards["na"][f]
        BY <4>2 DEF GuardInv, GuardShapes, Tenants
      <4> QED
        BY <3>1, <4>3 DEF GuardInv, JudgesBoards
    <3>2. CASE t \notin Judges
      <4>1. tn = "game"
        BY <3>2 DEF TenantOf
      <4>2. boards'["na"] = boards["na"]
        BY <2>1, <4>1 DEF GuardInv, GuardShapes, Tenants
      <4> QED
        BY <4>2 DEF GuardInv, JudgesBoards
    <3> QED
      BY <3>1, <3>2
  <2>6. LegalAnswers' /\ Unruled' /\ ChainRuled'
    BY <1>1, <2>3 DEF GuardInv, LegalAnswers, Unruled, ChainRuled, Deliberating, Undecided
  <2> QED
    BY <1>1, <2>4, <2>5, <2>6 DEF GuardInv, JudgedOnFactionsBoard
<1>3. CASE ~Heard(t)
  <2>1. PICK p \in {"failed", "unavailable"} : To(t, p)
    BY <1>3 DEF Ingest, Refused, GiveUp
  <2>2. boards' = boards
    BY <1>3 DEF Ingest
  <2> QED
    BY <1>1, <2>1, <2>2, MoveKeepsGuardInv DEF Undecided, GuardPlaces
<1> QED
  BY <1>2, <1>3

\* The board the tenant holds by then is some judge's, of the same faction.
LEMMA JudgeKeepsGuardInv ==
    ASSUME GuardInv, NEW t \in Threads, Judge(t)
    PROVE  GuardInv'
<1> DEFINE board == boards[TenantOf(t)][its[t].faction]
           ruled == [ruling |-> BoardRuling(board.view, its[t], answer[t]),
                     board |-> board, asked |-> TRUE, thrown |-> FALSE]
           p == IF t \in Judges THEN "judged" ELSE "told"
<1>1. at[t] = "judge" /\ UNCHANGED <<its, answer, boards>>
  BY DEF Judge, server
<1>2. CASE Heard(t) /\ board.by # "nobody"
  <2>1. verdict' = [verdict EXCEPT ![t] = ruled] /\ To(t, p)
    BY <1>2 DEF Judge
  <2>2. \A u \in Threads : /\ at'[u] = IF u = t THEN p ELSE at[u]
                           /\ verdict'[u] = IF u = t THEN ruled ELSE verdict[u]
    BY <2>1 DEF To, GuardInv, GuardShapes
  <2>3. VerdictShape(ruled) /\ ruled.asked = TRUE /\ ruled.board = board
    BY DEF VerdictShape
  <2> HIDE DEF ruled
  <2>4. GuardShapes'
    <3>1. at' \in [Threads -> GuardPlaces] /\ DOMAIN verdict' = Threads
      BY <2>1 DEF To, GuardInv, GuardShapes, GuardPlaces
    <3>2. \A u \in Threads : VerdictShape(verdict'[u])
      BY <2>2, <2>3 DEF GuardInv, GuardShapes
    <3> QED
      BY <1>1, <3>1, <3>2 DEF GuardInv, GuardShapes, VerdictShape
  <2>5. JudgedOnFactionsBoard'
    <3>1. ASSUME t \in Judges PROVE board.by \in Judges /\ board.view.faction = its[t].faction
      <4>1. board = boards["na"][its[t].faction]
        BY <3>1 DEF TenantOf
      <4>2. its[t].faction \in FactionsSeen
        BY <1>1 DEF GuardInv, LegalAnswers, Deliberating, Undecided, FactionsSeen
      <4> HIDE DEF board
      <4> QED
        BY <1>2, <4>1, <4>2 DEF GuardInv, JudgesBoards
    <3> HIDE DEF board
    <3>2. \A u \in Judges : u \in Threads
      BY DEF Threads
    <3> QED
      BY <1>1, <2>2, <2>3, <3>1, <3>2 DEF GuardInv, JudgedOnFactionsBoard
  <2>6. LegalAnswers' /\ Unruled' /\ ChainRuled'
    BY <1>1, <2>2, <2>3 DEF GuardInv, LegalAnswers, Unruled, ChainRuled, Deliberating, Undecided
  <2> QED
    BY <1>1, <2>4, <2>5, <2>6 DEF GuardInv, JudgesBoards
<1>3. CASE ~(Heard(t) /\ board.by # "nobody")
  <2>1. PICK q \in {"failed", "unavailable"} : To(t, q)
    BY <1>3 DEF Judge, Refused, GiveUp
  <2>2. verdict' = verdict
    BY <1>3 DEF Judge
  <2> QED
    BY <1>1, <2>1, <2>2, MoveKeepsGuardInv DEF Undecided, GuardPlaces
<1> QED
  BY <1>2, <1>3

\* A reply that cannot be read leaves no ruling, and no board it was made on.
LEMMA ThrowKeepsGuardInv ==
    ASSUME GuardInv, NEW t \in Threads, JudgeThrows(t)
    PROVE  GuardInv'
<1> DEFINE ruled == [ruling |-> Down, board |-> NoBoard, asked |-> FALSE, thrown |-> TRUE]
<1>1. /\ at[t] = "judge" /\ UNCHANGED <<its, answer, boards>>
      /\ verdict' = [verdict EXCEPT ![t] = ruled] /\ To(t, "ruled")
  BY DEF JudgeThrows, server
<1>2. VerdictShape(ruled) /\ ruled.asked = FALSE /\ ruled.thrown = TRUE
  BY DEF VerdictShape
<1> HIDE DEF ruled
<1>3. \A u \in Threads : /\ at'[u] = IF u = t THEN "ruled" ELSE at[u]
                         /\ verdict'[u] = IF u = t THEN ruled ELSE verdict[u]
  BY <1>1 DEF To, GuardInv, GuardShapes
<1>4. GuardShapes'
  <2>1. at' \in [Threads -> GuardPlaces] /\ DOMAIN verdict' = Threads
    BY <1>1 DEF To, GuardInv, GuardShapes, GuardPlaces
  <2>2. \A u \in Threads : VerdictShape(verdict'[u])
    BY <1>2, <1>3 DEF GuardInv, GuardShapes
  <2> QED
    BY <1>1, <2>1, <2>2 DEF GuardInv, GuardShapes, VerdictShape
<1>5. LegalAnswers' /\ Unruled' /\ ChainRuled'
  BY <1>1, <1>2, <1>3 DEF GuardInv, LegalAnswers, Unruled, ChainRuled, Deliberating, Undecided
<1>6. JudgedOnFactionsBoard'
  BY <1>1, <1>2, <1>3 DEF GuardInv, JudgedOnFactionsBoard, Threads
<1> QED
  BY <1>1, <1>4, <1>5, <1>6 DEF GuardInv, JudgesBoards

\* The chain strips what the guard of the state strips, and what a board added.
LEMMA RuleKeepsGuardInv ==
    ASSUME GuardInv, NEW t \in Threads, NEW jev \in JevRulings(its[t], answer[t]), Rule(t, jev)
    PROVE  GuardInv'
<1> DEFINE sr == StateRuling(its[t], answer[t])
           cr == CitationRuling(its[t], answer[t])
           br == IF at[t] = "failed" THEN Down ELSE verdict[t].ruling
           all == Chain({sr, cr, jev, br})
           ruled == [ruling |-> all, board |-> verdict[t].board, asked |-> verdict[t].asked,
                     thrown |-> verdict[t].thrown]
<1>1. /\ at[t] \in {"judged", "failed", "unasked"}
      /\ To(t, "ruled")
      /\ UNCHANGED <<boards, its, answer>>
      /\ verdict' = [verdict EXCEPT ![t].ruling = all]
  BY DEF Rule, server
<1>2. cr.stripped = {} /\ jev.stripped = {}
  <2>1. cr.stripped = {}
    BY DEF CitationRuling, Ruling
  <2>2. jev \in {Allow, Ruling({}, {"jev"}, FALSE), Ruling({}, {"jev unavailable"}, TRUE)}
    BY DEF JevRulings
  <2>3. \A ad, dg : Ruling({}, ad, dg).stripped = {}
    BY DEF Ruling
  <2>4. jev.stripped = {}
    BY <2>2, <2>3, Zenon DEF Allow
  <2> QED
    BY <2>1, <2>4
<1>3. ~verdict[t].asked => br.stripped = {}
  BY <1>1 DEF GuardInv, Unruled, Undecided, Allow, Down, Ruling
<1>4. all.stripped = UNION {r.stripped : r \in {sr, cr, jev, br}}
  BY ChainStrips
<1> HIDE DEF sr, cr, br, all
<1>5. /\ sr.stripped \subseteq all.stripped
      /\ ~verdict[t].asked => all.stripped = sr.stripped
  BY <1>2, <1>3, <1>4
<1>6. [verdict[t] EXCEPT !.ruling = all] = ruled
  BY RulingReplaced DEF GuardInv, GuardShapes
<1>7. \A u \in Threads : /\ at'[u] = IF u = t THEN "ruled" ELSE at[u]
                         /\ verdict'[u] = IF u = t THEN ruled ELSE verdict[u]
  BY <1>1, <1>6 DEF To, GuardInv, GuardShapes
<1>8. /\ VerdictShape(ruled) /\ ruled.asked = verdict[t].asked
      /\ ruled.board = verdict[t].board /\ ruled.ruling = all
      /\ ruled.thrown = verdict[t].thrown
  BY DEF VerdictShape
<1> HIDE DEF ruled
<1>9. GuardShapes'
  <2>1. at' \in [Threads -> GuardPlaces] /\ DOMAIN verdict' = Threads
    BY <1>1 DEF To, GuardInv, GuardShapes, GuardPlaces
  <2>2. \A u \in Threads : VerdictShape(verdict'[u])
    BY <1>7, <1>8 DEF GuardInv, GuardShapes
  <2> QED
    BY <1>1, <2>1, <2>2 DEF GuardInv, GuardShapes, VerdictShape
<1>10. JudgedOnFactionsBoard'
  BY <1>1, <1>7, <1>8 DEF GuardInv, JudgedOnFactionsBoard, Threads
<1>11. LegalAnswers' /\ Unruled'
  BY <1>1, <1>7, <1>8 DEF GuardInv, LegalAnswers, Unruled, Deliberating, Undecided
<1>12. ChainRuled'
  <2> SUFFICES ASSUME NEW u \in Threads, at'[u] = "ruled", ~verdict'[u].thrown
               PROVE  LET broke == StateRuling(its[u], answer[u]).stripped
                      IN /\ broke \subseteq verdict'[u].ruling.stripped
                         /\ ~verdict'[u].asked => verdict'[u].ruling.stripped = broke
    BY <1>1 DEF ChainRuled
  <2>1. CASE u = t
    BY <1>5, <1>7, <1>8, <2>1 DEF sr
  <2>2. CASE u # t
    BY <1>7, <2>2 DEF GuardInv, ChainRuled
  <2> QED
    BY <2>1, <2>2
<1> QED
  BY <1>1, <1>9, <1>10, <1>11, <1>12 DEF GuardInv, JudgesBoards

LEMMA LeaveKeepsGuardInv ==
    ASSUME GuardInv, NEW t \in Threads, Leave(t)
    PROVE  GuardInv'
<1>1. /\ To(t, "idle") /\ boards' = boards
      /\ its' = [its EXCEPT ![t] = NoBoard.view]
      /\ answer' = [answer EXCEPT ![t] = NoAnswer]
      /\ verdict' = [verdict EXCEPT ![t] = NoVerdict]
  BY DEF Leave, server
<1>2. GuardShapes'
  BY <1>1 DEF GuardInv, GuardShapes, VerdictShape, NoVerdict, To, GuardPlaces
<1>3. \A u \in Threads :
         /\ at'[u] = IF u = t THEN "idle" ELSE at[u]
         /\ verdict'[u] = IF u = t THEN NoVerdict ELSE verdict[u]
         /\ u # t => its'[u] = its[u] /\ answer'[u] = answer[u]
  BY <1>1 DEF GuardInv, GuardShapes, To
<1>4. LegalAnswers' /\ Unruled' /\ ChainRuled'
  BY <1>3 DEF GuardInv, LegalAnswers, Unruled, ChainRuled, Deliberating, Undecided
<1>5. JudgedOnFactionsBoard'
  BY <1>3 DEF GuardInv, JudgedOnFactionsBoard, NoVerdict, Threads
<1> QED
  BY <1>1, <1>2, <1>4, <1>5 DEF GuardInv, JudgesBoards

LEMMA ServerKeepsGuardInv ==
    ASSUME GuardInv, YupanaDies \/ YupanaReturns
    PROVE  GuardInv'
<1>1. /\ UNCHANGED <<at, its, answer, verdict>>
      /\ \/ boards' = boards
         \/ boards' = [tn \in Tenants |-> [f \in FactionsSeen |-> NoBoard]]
  BY DEF YupanaDies, YupanaReturns
<1>2. GuardShapes'
  BY <1>1 DEF GuardInv, GuardShapes, VerdictShape
<1>3. JudgesBoards'
  BY <1>1 DEF GuardInv, JudgesBoards, NoBoard, Tenants
<1> QED
  BY <1>1, <1>2, <1>3
  DEF GuardInv, LegalAnswers, Unruled, ChainRuled, JudgedOnFactionsBoard

LEMMA GuardInvKept == GuardInv /\ [GuardsNext]_guardVars => GuardInv'
<1> SUFFICES ASSUME GuardInv, [GuardsNext]_guardVars PROVE GuardInv'
  OBVIOUS
<1>1. CASE UNCHANGED guardVars
  BY <1>1
  DEF guardVars, GuardInv, GuardShapes, VerdictShape, JudgesBoards, LegalAnswers, Unruled,
      ChainRuled, JudgedOnFactionsBoard
<1>2. CASE YupanaDies \/ YupanaReturns
  BY <1>2, ServerKeepsGuardInv
<1>3. ASSUME NEW t \in Threads,
             \/ \E v \in BoardViews :
                   \/ \E a \in Answers : Propose(t, v, a)
                   \/ \E a \in Actions : AskWhatIf(t, v, a)
             \/ Connect(t) \/ Ingest(t) \/ Judge(t) \/ JudgeThrows(t) \/ Leave(t)
             \/ \E jev \in JevRulings(its[t], answer[t]) : Rule(t, jev)
      PROVE  GuardInv'
  BY <1>3, StartKeepsGuardInv, ConnectKeepsGuardInv, IngestKeepsGuardInv, JudgeKeepsGuardInv,
     ThrowKeepsGuardInv, LeaveKeepsGuardInv, RuleKeepsGuardInv
<1> QED
  BY <1>1, <1>2, <1>3 DEF GuardsNext

\* Whoever decides, whoever asks what an order would do, and however often the board server
\* dies, the boards of the guards are the judges' and every ruling is the chain's.
THEOREM GuardInvariant == GuardsSpec => []GuardInv
BY GuardInvInit, GuardInvKept, PTL DEF GuardsSpec

\* A decision is judged on a board of its own faction that a decision put there, never on
\* what an agent asked about (yupana.py: what_if, YupanaGuard.rule).
THEOREM JudgedOnOwnFaction == GuardsSpec => []JudgedOnFactionsBoard
<1>1. GuardInv => JudgedOnFactionsBoard
  BY DEF GuardInv
<1> QED
  BY GuardInvariant, <1>1, PTL

\* Whether the servers answer or not, what cannot be paid for is not played, and without
\* the board nothing else is withheld (hank.py: GuardChain; knowledge.py: apply), unless a
\* reply that is no report took every guard's ruling with it.
THEOREM LivingGuardsRule == GuardsSpec => []DeadGuardAllows
<1>1. GuardInv => DeadGuardAllows
  <2> SUFFICES ASSUME GuardInv, NEW t \in Judges, at[t] = "ruled", ~verdict[t].thrown
               PROVE  LET played == Apply(answer[t], verdict[t].ruling)
                          broke == {a \in answer[t].choices :
                                       \E m \in Pools : /\ its[t].metrics[m] # Absent
                                                        /\ its[t].metrics[m] + Effect[a][m] < 0
                                                        /\ Effect[a][m] < 0}
                      IN /\ played \cap broke = {}
                         /\ ~verdict[t].asked => played = answer[t].choices \ broke
    BY DEF DeadGuardAllows
  <2> DEFINE broke == {a \in answer[t].choices :
                          \E m \in Pools : /\ its[t].metrics[m] # Absent
                                           /\ its[t].metrics[m] + Effect[a][m] < 0
                                           /\ Effect[a][m] < 0}
  <2>1. answer[t].choices \subseteq its[t].space
    BY DEF GuardInv, LegalAnswers, Deliberating, Threads
  <2>2. StateRuling(its[t], answer[t]).stripped
           = {a \in answer[t].choices \cap its[t].space : Overdraws(its[t], a)}
    BY DEF StateRuling, Ruling
  <2>3. broke = StateRuling(its[t], answer[t]).stripped
    BY <2>1, <2>2 DEF Overdraws
  <2>4. /\ broke \subseteq verdict[t].ruling.stripped
        /\ ~verdict[t].asked => verdict[t].ruling.stripped = broke
    BY <2>3 DEF GuardInv, ChainRuled, Threads
  <2> HIDE DEF broke
  <2>5. Apply(answer[t], verdict[t].ruling) = answer[t].choices \ verdict[t].ruling.stripped
    BY DEF Apply
  <2> QED
    BY <2>4, <2>5 DEF broke
<1> QED
  BY GuardInvariant, <1>1, PTL

(*---------------------------------------------------------------------------*)
(* What is in front of a decision.                                            *)

\* A finite set, read in some order, is all there and nothing else.
LEMMA SetRead ==
    ASSUME NEW S, IsFiniteSet(S)
    PROVE  SetToSeq(S) \in Seq(S) /\ ToSet(SetToSeq(S)) = S
<1> DEFINE n == Cardinality(S)
           q == SetToSeq(S)
<1>1. n \in Nat /\ ExistsBijection(1..n, S)
  BY FS_CardinalityType
<1>2. PICK b \in Bijection(1..n, S) : TRUE
  BY <1>1, Fun_ExistsBij
<1>3. b \in [1..n -> S] /\ IsInjective(b)
  <2>1. b \in Injection(1..n, S)
    BY Fun_BijectionProperties
  <2> QED
    BY <2>1 DEF Injection
<1>4. q \in [1..n -> S] /\ IsInjective(q)
  BY <1>3 DEF SetToSeq
<1>5. q \in Injection(1..n, S)
  BY <1>4 DEF Injection
<1>6. IsFiniteSet(1..n) /\ Cardinality(1..n) = n
  BY <1>1, FS_Interval
<1>7. q \in Surjection(1..n, S)
  BY <1>5, <1>6, FS_Injection
<1> HIDE DEF n, q
<1>8. \A x \in S : \E j \in 1..n : q[j] = x
  BY <1>7 DEF Surjection
<1>9. q \in Seq(S)
  BY <1>1, <1>4
<1>10. ToSet(q) = S
  BY <1>4, <1>8 DEF ToSet
<1> QED
  BY <1>9, <1>10 DEF q

\* Lines that follow leave those before them.
LEMMA LinesJoined ==
    ASSUME NEW S, NEW s \in Seq(S), NEW t \in Seq(S)
    PROVE  /\ s \o t \in Seq(S)
           /\ ToSet(s) \subseteq ToSet(s \o t)
           /\ ToSet(t) \subseteq ToSet(s \o t)
<1>1. s \o t \in Seq(S) /\ Len(s \o t) = Len(s) + Len(t)
  OBVIOUS
<1>2. ASSUME NEW j \in DOMAIN s PROVE s[j] \in ToSet(s \o t)
  <2>1. j \in DOMAIN (s \o t) /\ (s \o t)[j] = s[j]
    BY <1>2
  <2> QED
    BY <2>1 DEF ToSet
<1>3. ASSUME NEW j \in DOMAIN t PROVE t[j] \in ToSet(s \o t)
  <2>1. j + Len(s) \in DOMAIN (s \o t) /\ (s \o t)[j + Len(s)] = t[j]
    BY <1>3
  <2> QED
    BY <2>1 DEF ToSet
<1> QED
  BY <1>1, <1>2, <1>3 DEF ToSet

\* What a finite set of intents, or of lessons, is put as is finite.
LEMMA LinesFinite ==
    ASSUME NEW kind, NEW S, IsFiniteSet(S), NEW L, NEW f \in [S -> L],
           L = {f[x] : x \in S}
    PROVE  IsFiniteSet(L)
<1>1. f \in Surjection(S, L)
  BY Fun_IsSurj
<1> QED
  BY <1>1, FS_Surjection

DecidingPlaces == {"new", "rows", "intents", "lessons", "bind", "open", "write", "rename",
                   "prune", "done"}
Remembered == [kind : {"intent", "tactic"}, what : Units \cup Tactics,
               of : Factions \cup {Nobody}]
Intents == [boot : Nat, faction : Factions, unit : Units, until : Turns]
GroundingShape(g) ==
    g = [ids |-> g.ids, facts |-> g.facts, remembered |-> g.remembered,
         unmatched |-> g.unmatched, shed |-> g.shed, degraded |-> g.degraded]

\* What the memory adds leaves the rest of a grounding.
LEMMA LinesAdded ==
    ASSUME NEW h, GroundingShape(h), NEW x
    PROVE  LET g == [h EXCEPT !.remembered = x]
           IN GroundingShape(g) /\ g.remembered = x /\ g.degraded = h.degraded
<1>1. [h EXCEPT !.remembered = x]
         = [ids |-> h.ids, facts |-> h.facts, remembered |-> x,
            unmatched |-> h.unmatched, shed |-> h.shed, degraded |-> h.degraded]
  BY DEF GroundingShape
<1> QED
  BY <1>1 DEF GroundingShape

GroundingShapes ==
    /\ memory \in BOOLEAN /\ boot \in Nat
    /\ intents \subseteq Intents /\ IsFiniteSet(intents)
    /\ recalled \in [Factions -> (SUBSET Tactics) \cup {Unread}]
    /\ pc \in [Deciders -> DecidingPlaces]
    /\ DOMAIN view = Deciders /\ DOMAIN told = Deciders /\ DOMAIN due = Deciders
    /\ DOMAIN recall = Deciders
    /\ \A d \in Deciders :
          /\ GroundingShape(told[d]) /\ told[d].remembered \in Seq(Remembered)
          /\ pc[d] # "new" => view[d] \in Views
          /\ pc[d] \in {"intents", "lessons"} => view[d].faction \in Factions

\* Before the memory server is read: what is due is live.
PlansLive ==
    \A d \in Deciders : pc[d] \in {"rows", "intents"} =>
        /\ view[d].faction = Nobody => due[d] = {}
        /\ due[d] \subseteq PlansOf(view[d].faction, view[d].turn)

\* And after a whole recall: what was due, of this life of the process, is told.
PlansTold ==
    \A d \in Deciders :
        /\ pc[d] \in {"lessons", "bind", "open", "write", "rename", "prune", "done"}
        /\ ~told[d].degraded /\ recall[d] = "whole"
        => \A i \in due[d] :
              i.boot = boot => Line("intent", i.unit, i.faction) \in ToSet(told[d].remembered)

PlanInv == GroundingShapes /\ PlansLive /\ PlansTold

LEMMA PlanInvInit == GroundingInit => PlanInv
<1> SUFFICES ASSUME GroundingInit PROVE PlanInv
  OBVIOUS
<1>1. GroundingShapes
  <2>1. NoGrounding(FALSE).remembered \in Seq(Remembered) /\ GroundingShape(NoGrounding(FALSE))
    BY DEF NoGrounding, GroundingShape
  <2> QED
    BY <2>1, FS_EmptySet DEF GroundingShapes, GroundingInit, DecidingPlaces
<1>2. PlansLive /\ PlansTold
  BY DEF PlansLive, PlansTold, GroundingInit
<1> QED
  BY <1>1, <1>2 DEF PlanInv

LEMMA ArriveKeepsPlanInv ==
    ASSUME PlanInv, NEW d \in Deciders, NEW v \in Views, Arrive(d, v)
    PROVE  PlanInv'
<1> DEFINE mine == IF v.faction = Nobody THEN {} ELSE PlansOf(v.faction, v.turn)
<1>1. /\ view' = [view EXCEPT ![d] = v] /\ due' = [due EXCEPT ![d] = mine]
      /\ pc' = [pc EXCEPT ![d] = "rows"]
      /\ UNCHANGED <<memory, boot, intents, recalled, told, recall>>
  BY DEF Arrive, Goto, world, caches
<1>2. \A e \in Deciders : /\ pc'[e] = IF e = d THEN "rows" ELSE pc[e]
                          /\ view'[e] = IF e = d THEN v ELSE view[e]
                          /\ due'[e] = IF e = d THEN mine ELSE due[e]
  BY <1>1 DEF PlanInv, GroundingShapes
<1>3. GroundingShapes'
  <2>1. pc' \in [Deciders -> DecidingPlaces]
    BY <1>1 DEF PlanInv, GroundingShapes, DecidingPlaces
  <2> HIDE DEF mine
  <2> QED
    BY <1>1, <1>2, <2>1 DEF PlanInv, GroundingShapes, GroundingShape
<1>4. \A f, n : PlansOf(f, n)' = PlansOf(f, n)
  BY <1>1 DEF PlansOf
<1>5. PlansLive'
  <2>1. mine \subseteq PlansOf(v.faction, v.turn)
    OBVIOUS
  <2>2. v.faction = Nobody => mine = {}
    OBVIOUS
  <2> HIDE DEF mine
  <2> QED
    BY <1>2, <1>4, <2>1, <2>2 DEF PlanInv, PlansLive
<1>6. PlansTold'
  BY <1>1, <1>2 DEF PlanInv, PlansTold
<1> QED
  BY <1>3, <1>5, <1>6 DEF PlanInv

LEMMA ReadRowsKeepsPlanInv ==
    ASSUME PlanInv, NEW d \in Deciders, ReadRows(d)
    PROVE  PlanInv'
<1> DEFINE rows == UNION {e.rows : e \in Keyed(primed, view[d])}
<1> DEFINE mine == Keyed(primed, view[d])
           idle == view[d].menu = <<>>
           raises == ~idle /\ (view[d].faction = Nobody \/ mine = {} \/ rows = {})
           g == IF idle \/ raises THEN NoGrounding(raises) ELSE Grounded(view[d].menu, rows)
<1>1. /\ told' = [told EXCEPT ![d] = g]
      /\ pc' = [pc EXCEPT ![d] = IF raises \/ view[d].faction = Nobody THEN "bind"
                                 ELSE "intents"]
  BY DEF ReadRows, Goto
<1>2. /\ pc[d] = "rows" /\ UNCHANGED <<memory, boot, intents, recalled, view, due, recall>>
  BY DEF ReadRows, world, caches
<1> DEFINE p == IF raises \/ view[d].faction = Nobody THEN "bind" ELSE "intents"
<1>3. /\ GroundingShape(g) /\ g.remembered = <<>>
      /\ raises => g.degraded
  <2>1. \A x : /\ GroundingShape(NoGrounding(x)) /\ NoGrounding(x).remembered = <<>>
               /\ NoGrounding(x).degraded = x
    BY DEF NoGrounding, GroundingShape
  <2>2. \A m, rs : GroundingShape(Grounded(m, rs)) /\ Grounded(m, rs).remembered = <<>>
    BY DEF Grounded, GroundingShape
  <2> HIDE DEF raises, idle
  <2> QED
    BY <2>1, <2>2
<1> HIDE DEF raises, g
<1>4. \A e \in Deciders : /\ pc'[e] = IF e = d THEN p ELSE pc[e]
                          /\ told'[e] = IF e = d THEN g ELSE told[e]
  BY <1>1 DEF PlanInv, GroundingShapes
<1>5. view[d] \in Views
  BY <1>2 DEF PlanInv, GroundingShapes
<1>6. GroundingShapes'
  <2>1. pc' \in [Deciders -> DecidingPlaces] /\ DOMAIN told' = Deciders
    BY <1>1 DEF PlanInv, GroundingShapes, DecidingPlaces
  <2>2. \A e \in Deciders : GroundingShape(told'[e]) /\ told'[e].remembered \in Seq(Remembered)
    <3>1. <<>> \in Seq(Remembered)
      OBVIOUS
    <3>2. GroundingShape(g) /\ g.remembered \in Seq(Remembered)
      BY <1>3, <3>1
    <3> QED
      BY <1>4, <3>2, Zenon DEF PlanInv, GroundingShapes
  <2>3. \A e \in Deciders : /\ pc'[e] # "new" => view[e] \in Views
                            /\ pc'[e] \in {"intents", "lessons"} => view[e].faction \in Factions
    BY <1>4, <1>5, GroundingConstantsOK DEF PlanInv, GroundingShapes
  <2> QED
    BY <1>2, <2>1, <2>2, <2>3 DEF PlanInv, GroundingShapes, GroundingShape
<1>7. \A f, n : PlansOf(f, n)' = PlansOf(f, n)
  BY <1>2 DEF PlansOf
<1>8. PlansLive'
  BY <1>2, <1>4, <1>7 DEF PlanInv, PlansLive
<1>9. PlansTold'
  BY <1>2, <1>3, <1>4 DEF PlanInv, PlansTold, PlansLive
<1> QED
  BY <1>6, <1>8, <1>9 DEF PlanInv

LEMMA ReadIntentsKeepsPlanInv ==
    ASSUME PlanInv, NEW d \in Deciders, ReadIntents(d)
    PROVE  PlanInv'
<1> DEFINE live == LiveFor(view[d].faction, view[d].turn)
           lineOf(i) == Line("intent", i.unit, i.faction)
           few == memory /\ Cardinality(live) <= RecallLimit
<1>1. PICK is \in SUBSET RecallIntents(d) :
         /\ (is = RecallIntents(d) /\ Cardinality(is) <= RecallLimit) \/ Cardinality(is) = RecallLimit
         /\ Told(d, SetToSeq({lineOf(i) : i \in is}))
  BY DEF ReadIntents
<1> DEFINE lines == {lineOf(i) : i \in is}
           more == SetToSeq(lines)
           g == [told[d] EXCEPT !.remembered = @ \o more]
<1>2. /\ pc[d] = "intents" /\ pc' = [pc EXCEPT ![d] = "lessons"]
      /\ recall' = [recall EXCEPT ![d] = IF ~memory THEN "refused"
                                          ELSE IF few THEN "whole" ELSE "cut"]
      /\ told' = [told EXCEPT ![d] = g]
      /\ UNCHANGED <<memory, boot, intents, recalled, view, due>>
  BY <1>1 DEF ReadIntents, Goto, Told, world, caches
<1>3. live \subseteq intents /\ IsFiniteSet(live)
  <2>1. live \subseteq intents
    BY DEF LiveFor
  <2> QED
    BY <2>1, FS_Subset DEF PlanInv, GroundingShapes
<1>4. is \subseteq live /\ is \subseteq Intents /\ IsFiniteSet(is)
  <2>1. is \subseteq live
    BY <1>1 DEF RecallIntents
  <2> QED
    BY <2>1, <1>3, FS_Subset DEF PlanInv, GroundingShapes
<1>5. lines \subseteq Remembered /\ IsFiniteSet(lines)
  <2>1. \A i \in Intents : lineOf(i) \in Remembered
    BY DEF Line, Remembered, Intents
  <2>2. [i \in is |-> lineOf(i)] \in [is -> Remembered]
    BY <2>1, <1>4
  <2>3. lines = {[i \in is |-> lineOf(i)][x] : x \in is}
    OBVIOUS
  <2> HIDE DEF lineOf
  <2>4. [i \in is |-> lineOf(i)] \in [is -> lines]
    OBVIOUS
  <2> HIDE DEF lines
  <2>5. IsFiniteSet(lines)
    BY <1>4, <2>3, <2>4, LinesFinite
  <2> QED
    BY <2>1, <2>5, <1>4 DEF lines
<1>6. more \in Seq(lines) /\ ToSet(more) = lines
  <2> HIDE DEF lines
  <2> QED
    BY <1>5, SetRead
<1> HIDE DEF lines, more
<1>7. more \in Seq(Remembered) /\ told[d].remembered \in Seq(Remembered)
  BY <1>5, <1>6 DEF PlanInv, GroundingShapes
<1>8. /\ told[d].remembered \o more \in Seq(Remembered)
      /\ ToSet(more) \subseteq ToSet(told[d].remembered \o more)
  BY <1>7, LinesJoined
<1>9. /\ GroundingShape(g) /\ g.remembered = told[d].remembered \o more
      /\ g.degraded = told[d].degraded
  <2>1. GroundingShape(told[d])
    BY DEF PlanInv, GroundingShapes
  <2> QED
    BY <2>1, LinesAdded
<1> HIDE DEF g
<1>10. \A e \in Deciders : /\ pc'[e] = IF e = d THEN "lessons" ELSE pc[e]
                           /\ told'[e] = IF e = d THEN g ELSE told[e]
                           /\ e # d => recall'[e] = recall[e]
                           /\ recall'[d] = "whole" => few
  BY <1>2 DEF PlanInv, GroundingShapes
<1>11. view[d] \in Views /\ view[d].faction \in Factions
  BY <1>2 DEF PlanInv, GroundingShapes
<1>12. GroundingShapes'
  <2>1. pc' \in [Deciders -> DecidingPlaces] /\ DOMAIN told' = Deciders /\ DOMAIN recall' = Deciders
    BY <1>2 DEF PlanInv, GroundingShapes, DecidingPlaces
  <2>2. \A e \in Deciders : GroundingShape(told'[e]) /\ told'[e].remembered \in Seq(Remembered)
    BY <1>8, <1>9, <1>10, Zenon DEF PlanInv, GroundingShapes
  <2>3. \A e \in Deciders : /\ pc'[e] # "new" => view[e] \in Views
                            /\ pc'[e] \in {"intents", "lessons"} => view[e].faction \in Factions
    BY <1>10, <1>11 DEF PlanInv, GroundingShapes
  <2> QED
    BY <1>2, <2>1, <2>2, <2>3 DEF PlanInv, GroundingShapes, GroundingShape
<1>13. PlansLive'
  <2>1. \A f, n : PlansOf(f, n)' = PlansOf(f, n)
    BY <1>2 DEF PlansOf
  <2> QED
    BY <1>2, <1>10, <2>1 DEF PlanInv, PlansLive
<1>14. PlansTold'
  <2>1. recall'[d] = "whole" =>
           \A i \in due[d] : i.boot = boot => lineOf(i) \in ToSet(g.remembered)
    <3>1. CASE ~few
      BY <1>10, <3>1
    <3>2. CASE few
      <4>1. \A i \in due[d] : i.boot = boot => i \in live
        BY <1>2 DEF PlanInv, PlansLive, PlansOf, LiveFor, InScope
      <4>2. RecallIntents(d) = live
        BY <3>2 DEF RecallIntents
      <4>3. is = live
        <5>1. CASE Cardinality(is) = RecallLimit
          <6>1. Cardinality(is) \in Nat /\ Cardinality(live) \in Nat
            BY <1>3, <1>4, FS_CardinalityType
          <6>2. Cardinality(is) <= Cardinality(live) /\ (Cardinality(live) = Cardinality(is) => live = is)
            BY <1>3, <1>4, FS_Subset
          <6> QED
            BY <3>2, <5>1, <6>1, <6>2
        <5> QED
          BY <1>1, <4>2, <5>1
      <4>4. \A i \in live : lineOf(i) \in lines
        BY <4>3 DEF lines
      <4> QED
        BY <1>6, <1>8, <1>9, <4>1, <4>4
    <3> QED
      BY <3>1, <3>2
  <2> QED
    BY <1>2, <1>10, <2>1 DEF PlanInv, PlansTold
<1> QED
  BY <1>12, <1>13, <1>14 DEF PlanInv

LEMMA ReadTacticsKeepsPlanInv ==
    ASSUME PlanInv, NEW d \in Deciders, ReadTactics(d)
    PROVE  PlanInv'
<1> DEFINE f == view[d].faction
           answered0 == IF recalled[f] # Unread THEN recalled[f]
                        ELSE IF memory THEN Tactics ELSE {}
           more == Lessons(answered0)
           g == [told[d] EXCEPT !.remembered = @ \o more]
<1>1. /\ pc[d] = "lessons" /\ pc' = [pc EXCEPT ![d] = "bind"]
      /\ recalled' = [recalled EXCEPT ![f] = answered0]
      /\ told' = [told EXCEPT ![d] = g]
      /\ UNCHANGED <<memory, boot, intents, view, due, recall>>
  BY DEF ReadTactics, Goto, Told, world
<1>2. f \in Factions /\ view[d] \in Views
  BY <1>1 DEF PlanInv, GroundingShapes
<1>3. answered0 \subseteq Tactics
  BY <1>2 DEF PlanInv, GroundingShapes
<1> HIDE DEF answered0
<1>4. more \in Seq(Remembered)
  <2> DEFINE lineOf(t) == Line("tactic", t, Nobody)
             lines == {lineOf(t) : t \in answered0}
  <2>1. \A t \in answered0 : lineOf(t) \in Remembered
    BY <1>3 DEF Line, Remembered
  <2>2. IsFiniteSet(answered0)
    BY <1>3, FS_Subset, GroundingConstantsOK
  <2> HIDE DEF lineOf
  <2>3. /\ [t \in answered0 |-> lineOf(t)] \in [answered0 -> lines]
        /\ lines = {[t \in answered0 |-> lineOf(t)][x] : x \in answered0}
    OBVIOUS
  <2>4. lines \subseteq Remembered
    BY <2>1
  <2>5. more = SetToSeq(lines)
    BY DEF Lessons, lineOf
  <2> HIDE DEF lines
  <2>6. IsFiniteSet(lines)
    BY <2>2, <2>3, LinesFinite
  <2>7. SetToSeq(lines) \in Seq(lines)
    BY <2>6, SetRead
  <2> HIDE DEF more
  <2> QED
    BY <2>4, <2>5, <2>7
<1> HIDE DEF more
<1>5. told[d].remembered \in Seq(Remembered) /\ GroundingShape(told[d])
  BY DEF PlanInv, GroundingShapes
<1>6. /\ told[d].remembered \o more \in Seq(Remembered)
      /\ ToSet(told[d].remembered) \subseteq ToSet(told[d].remembered \o more)
  BY <1>4, <1>5, LinesJoined
<1>7. /\ GroundingShape(g) /\ g.remembered = told[d].remembered \o more
      /\ g.degraded = told[d].degraded
  BY <1>5, LinesAdded
<1> HIDE DEF g
<1>8. \A e \in Deciders : /\ pc'[e] = IF e = d THEN "bind" ELSE pc[e]
                          /\ told'[e] = IF e = d THEN g ELSE told[e]
  BY <1>1 DEF PlanInv, GroundingShapes
<1>9. GroundingShapes'
  <2>1. pc' \in [Deciders -> DecidingPlaces] /\ DOMAIN told' = Deciders
    BY <1>1 DEF PlanInv, GroundingShapes, DecidingPlaces
  <2>2. \A e \in Deciders : GroundingShape(told'[e]) /\ told'[e].remembered \in Seq(Remembered)
    BY <1>6, <1>7, <1>8, Zenon DEF PlanInv, GroundingShapes
  <2>3. \A e \in Deciders : /\ pc'[e] # "new" => view[e] \in Views
                            /\ pc'[e] \in {"intents", "lessons"} => view[e].faction \in Factions
    BY <1>2, <1>8 DEF PlanInv, GroundingShapes
  <2>4. recalled' \in [Factions -> (SUBSET Tactics) \cup {Unread}]
    BY <1>1, <1>3 DEF PlanInv, GroundingShapes
  <2> QED
    BY <1>1, <2>1, <2>2, <2>3, <2>4 DEF PlanInv, GroundingShapes, GroundingShape
<1>10. PlansLive'
  <2>1. \A q, n : PlansOf(q, n)' = PlansOf(q, n)
    BY <1>1 DEF PlansOf
  <2> QED
    BY <1>1, <1>8, <2>1 DEF PlanInv, PlansLive
<1>11. PlansTold'
  BY <1>1, <1>6, <1>7, <1>8 DEF PlanInv, PlansTold
<1> QED
  BY <1>9, <1>10, <1>11 DEF PlanInv

\* A plan written again is due no longer to who has not read the old one.
LEMMA RecordKeepsPlanInv ==
    ASSUME PlanInv, NEW faction \in Factions, NEW unit \in Units, NEW until \in Turns,
           RecordIntent(faction, unit, until)
    PROVE  PlanInv'
<1> DEFINE others == {i \in intents : ~(InScope(i, faction) /\ i.unit = unit)}
           new == [boot |-> boot, faction |-> faction, unit |-> unit, until |-> until]
           left(e) == IF pc[e] \in {"rows", "intents"} THEN due[e] \cap others ELSE due[e]
<1>1. /\ UNCHANGED <<memory, boot, recalled, pc, view, told, recall>>
      /\ \/ UNCHANGED <<intents, due>>
         \/ intents' = others \cup {new} /\ due' = [e \in Deciders |-> left(e)]
  BY DEF RecordIntent, caches
<1>2. CASE UNCHANGED <<intents, due>>
  BY <1>1, <1>2
  DEF PlanInv, GroundingShapes, GroundingShape, PlansLive, PlansTold, PlansOf
<1>3. CASE intents' = others \cup {new} /\ due' = [e \in Deciders |-> left(e)]
  <2>1. GroundingShapes'
    <3>1. others \subseteq intents /\ IsFiniteSet(others)
      <4>1. others \subseteq intents
        OBVIOUS
      <4> QED
        BY <4>1, FS_Subset DEF PlanInv, GroundingShapes
    <3>2. new \in Intents
      BY DEF Intents, PlanInv, GroundingShapes
    <3> HIDE DEF others, new
    <3>3. IsFiniteSet(intents') /\ intents' \subseteq Intents
      BY <1>3, <3>1, <3>2, FS_AddElement DEF PlanInv, GroundingShapes
    <3>4. DOMAIN due' = Deciders
      BY <1>3
    <3> QED
      BY <1>1, <3>3, <3>4 DEF PlanInv, GroundingShapes, GroundingShape
  <2>2. PlansLive'
    <3> SUFFICES ASSUME NEW e \in Deciders, pc[e] \in {"rows", "intents"}
                 PROVE  /\ view[e].faction = Nobody => due'[e] = {}
                        /\ due'[e] \subseteq PlansOf(view[e].faction, view[e].turn)'
      BY <1>1 DEF PlansLive
    <3>1. due'[e] = due[e] \cap others /\ others \subseteq intents'
      BY <1>3
    <3>2. /\ view[e].faction = Nobody => due[e] = {}
          /\ due[e] \subseteq PlansOf(view[e].faction, view[e].turn)
      BY DEF PlanInv, PlansLive
    <3> HIDE DEF others
    <3> QED
      BY <1>1, <3>1, <3>2 DEF PlansOf
  <2>3. PlansTold'
    <3>1. \A e \in Deciders : due'[e] \subseteq due[e]
      BY <1>3
    <3> QED
      BY <1>1, <3>1 DEF PlanInv, PlansTold
  <2> QED
    BY <2>1, <2>2, <2>3 DEF PlanInv
<1> QED
  BY <1>1, <1>2, <1>3

\* Where the evidence goes is all the same to the plans.
LEMMA EvidenceKeepsPlanInv ==
    ASSUME PlanInv, NEW d \in Deciders,
           NEW p \in {"open", "write", "rename", "prune", "done"},
           pc[d] \in {"bind", "open", "write", "rename", "prune"},
           pc' = [pc EXCEPT ![d] = p],
           UNCHANGED <<memory, boot, intents, recalled, view, told, due, recall>>
    PROVE  PlanInv'
<1>1. /\ pc' \in [Deciders -> DecidingPlaces]
      /\ \A e \in Deciders : pc'[e] = IF e = d THEN p ELSE pc[e]
  BY DEF PlanInv, GroundingShapes, DecidingPlaces
<1>2. GroundingShapes'
  BY <1>1 DEF PlanInv, GroundingShapes, GroundingShape, DecidingPlaces
<1>3. PlansLive' /\ PlansTold'
  BY <1>1 DEF PlanInv, PlansLive, PlansTold, PlansOf
<1> QED
  BY <1>2, <1>3 DEF PlanInv

LEMMA ReplyKeepsPlanInv ==
    ASSUME PlanInv, NEW d \in Deciders, Reply(d)
    PROVE  PlanInv'
<1> DEFINE g == NoGrounding(FALSE)
<1>1. /\ pc' = [pc EXCEPT ![d] = "new"] /\ told' = [told EXCEPT ![d] = g]
      /\ view' = [view EXCEPT ![d] = FirstView] /\ due' = [due EXCEPT ![d] = {}]
      /\ recall' = [recall EXCEPT ![d] = "none"]
      /\ UNCHANGED <<memory, boot, intents, recalled>>
  BY DEF Reply, Goto, caches, world
<1>2. GroundingShape(g) /\ g.remembered = <<>>
  BY DEF NoGrounding, GroundingShape
<1>3. <<>> \in Seq(Remembered)
  OBVIOUS
<1> HIDE DEF g
<1>4. \A e \in Deciders : /\ pc'[e] = IF e = d THEN "new" ELSE pc[e]
                          /\ told'[e] = IF e = d THEN g ELSE told[e]
                          /\ e # d => /\ view'[e] = view[e] /\ due'[e] = due[e]
                                      /\ recall'[e] = recall[e]
  BY <1>1 DEF PlanInv, GroundingShapes
<1>5. GroundingShapes'
  <2>1. /\ pc' \in [Deciders -> DecidingPlaces] /\ DOMAIN told' = Deciders
        /\ DOMAIN due' = Deciders /\ DOMAIN view' = Deciders /\ DOMAIN recall' = Deciders
    BY <1>1 DEF PlanInv, GroundingShapes, DecidingPlaces
  <2>2. \A e \in Deciders : GroundingShape(told'[e]) /\ told'[e].remembered \in Seq(Remembered)
    <3>1. g.remembered \in Seq(Remembered)
      BY <1>2, <1>3
    <3> QED
      BY <1>2, <3>1, <1>4, Zenon DEF PlanInv, GroundingShapes
  <2>3. \A e \in Deciders : /\ pc'[e] # "new" => view'[e] \in Views
                            /\ pc'[e] \in {"intents", "lessons"} => view'[e].faction \in Factions
    BY <1>4 DEF PlanInv, GroundingShapes
  <2> QED
    BY <1>1, <2>1, <2>2, <2>3 DEF PlanInv, GroundingShapes, GroundingShape
<1>6. \A f, n : PlansOf(f, n)' = PlansOf(f, n)
  BY <1>1 DEF PlansOf
<1>7. PlansLive' /\ PlansTold'
  BY <1>1, <1>4, <1>6 DEF PlanInv, PlansLive, PlansTold
<1> QED
  BY <1>5, <1>7 DEF PlanInv

LEMMA RestartKeepsPlanInv == ASSUME PlanInv, Restart PROVE PlanInv'
<1> DEFINE g == NoGrounding(FALSE)
<1>1. /\ boot' = boot + 1 /\ recalled' = [f \in Factions |-> Unread]
      /\ pc' = [d \in Deciders |-> "new"] /\ view' = [d \in Deciders |-> FirstView]
      /\ told' = [d \in Deciders |-> g] /\ due' = [d \in Deciders |-> {}]
      /\ recall' = [d \in Deciders |-> "none"]
      /\ UNCHANGED <<memory, intents>>
  BY DEF Restart, world
<1>2. GroundingShape(g) /\ g.remembered = <<>>
  BY DEF NoGrounding, GroundingShape
<1>3. <<>> \in Seq(Remembered)
  OBVIOUS
<1>4. g.remembered \in Seq(Remembered)
  BY <1>2, <1>3
<1> HIDE DEF g
<1>5. \A d \in Deciders : told'[d] = g /\ pc'[d] = "new"
  BY <1>1
<1>6. \A d \in Deciders : GroundingShape(told'[d]) /\ told'[d].remembered \in Seq(Remembered)
  BY <1>2, <1>4, <1>5, Zenon
<1>7. GroundingShapes'
  BY <1>1, <1>5, <1>6 DEF PlanInv, GroundingShapes, GroundingShape, DecidingPlaces
<1>8. PlansLive' /\ PlansTold'
  BY <1>5 DEF PlansLive, PlansTold
<1> QED
  BY <1>7, <1>8 DEF PlanInv

\* What the rulebook, the clock and the two servers do moves no plan.
LEMMA QuietKeepsPlanInv ==
    ASSUME PlanInv, memory' \in BOOLEAN,
           UNCHANGED <<boot, intents, recalled, pc, view, told, due, recall>>
    PROVE  PlanInv'
BY DEF PlanInv, GroundingShapes, GroundingShape, PlansLive, PlansTold, PlansOf

LEMMA PlanInvKept == PlanInv /\ [GroundingNext]_groundingVars => PlanInv'
<1> SUFFICES ASSUME PlanInv, [GroundingNext]_groundingVars PROVE PlanInv'
  OBVIOUS
<1>1. CASE UNCHANGED groundingVars
  <2>1. memory' \in BOOLEAN /\ UNCHANGED <<boot, intents, recalled, pc, view, told, due, recall>>
    BY <1>1 DEF groundingVars, caches, world, decisions, PlanInv, GroundingShapes
  <2> QED
    BY <2>1, QuietKeepsPlanInv
<1>2. CASE Boundary
  <2>1. memory' \in BOOLEAN /\ UNCHANGED <<boot, intents, recalled, pc, view, told, due, recall>>
    BY <1>2 DEF Boundary, Prime, KeepRows, world, decisions, PlanInv, GroundingShapes
  <2> QED
    BY <2>1, QuietKeepsPlanInv
<1>3. CASE RulebookTurns \/ MemoryTurns \/ Tick
  <2>1. memory' \in BOOLEAN /\ UNCHANGED <<boot, intents, recalled, pc, view, told, due, recall>>
    BY <1>3
    DEF RulebookTurns, DatasetTurns, MemoryTurns, Tick, caches, decisions, PlanInv, GroundingShapes
  <2> QED
    BY <2>1, QuietKeepsPlanInv
<1>4. CASE Ordering
  BY <1>4, RecordKeepsPlanInv DEF Ordering
<1>5. CASE Restart
  BY <1>5, RestartKeepsPlanInv
<1>6. ASSUME NEW d \in Deciders,
             \/ \E v \in Views : Arrive(d, v)
             \/ ReadRows(d) \/ ReadIntents(d) \/ ReadTactics(d) \/ Reply(d)
      PROVE  PlanInv'
  BY <1>6, ArriveKeepsPlanInv, ReadRowsKeepsPlanInv, ReadIntentsKeepsPlanInv,
     ReadTacticsKeepsPlanInv, ReplyKeepsPlanInv
<1>7. ASSUME NEW d \in Deciders,
             \/ Bind(d) \/ OpenScratch(d) \/ WriteScratch(d) \/ RenameScratch(d)
             \/ PublishFails(d) \/ PruneEvidence(d)
      PROVE  PlanInv'
  <2>1. PICK p \in {"open", "write", "rename", "prune", "done"} : pc' = [pc EXCEPT ![d] = p]
    BY <1>7 DEF Bind, OpenScratch, WriteScratch, RenameScratch, PublishFails, PruneEvidence,
               Record, Goto
  <2>2. pc[d] \in {"bind", "open", "write", "rename", "prune"}
    BY <1>7 DEF Bind, OpenScratch, WriteScratch, RenameScratch, PublishFails, PruneEvidence
  <2>3. UNCHANGED <<memory, boot, intents, recalled, view, told, due, recall>>
    BY <1>7 DEF Bind, OpenScratch, WriteScratch, RenameScratch, PublishFails, PruneEvidence,
               caches, world
  <2> QED
    BY <2>1, <2>2, <2>3, EvidenceKeepsPlanInv
<1> QED
  BY <1>1, <1>2, <1>3, <1>4, <1>5, <1>6, <1>7 DEF GroundingNext, Deciding

\* However threads, orders, outages and restarts interleave, what is due before the memory
\* server is read is live there, and what was due is told after it.
THEOREM PlanInvariant == GroundingSpec => []PlanInv
BY PlanInvInit, PlanInvKept, PTL DEF GroundingSpec

\* A plan of this life of the process, made before a decision arrives and not written again,
\* is in front of it (memory.py: _intents), if the decision's retrieval did not degrade as a
\* whole and its read of the memory server was answered in full.
THEOREM PlansAreShown == GroundingSpec => []OwnPlansShown
<1>1. PlanInv => OwnPlansShown
  <2> SUFFICES ASSUME PlanInv, NEW d \in Deciders, pc[d] = "done", ~told[d].degraded,
                      recall[d] = "whole", NEW i \in due[d], i.boot = boot
               PROVE  \E l \in Shown(d, "intent") : l.what = i.unit
    BY DEF OwnPlansShown
  <2> DEFINE l == Line("intent", i.unit, i.faction)
  <2>1. l \in ToSet(told[d].remembered)
    BY DEF PlanInv, PlansTold
  <2>2. l.kind = "intent" /\ l.what = i.unit
    BY DEF Line
  <2> HIDE DEF l
  <2> QED
    BY <2>1, <2>2 DEF Shown
<1> QED
  BY PlanInvariant, <1>1, PTL

(*---------------------------------------------------------------------------*)
(* The evidence of a decision.                                                *)

\* What a bounded ordered dictionary holds is what was put there.
LEMMA StoredHolds ==
    ASSUME NEW S, NEW s \in Seq(S), NEW e \in S
    PROVE  Stored(s, e) \in Seq(S)
<1> DEFINE kept == [j \in DOMAIN s |-> IF SameKey(s[j], e) THEN e ELSE s[j]]
           written == IF Keyed(s, e) = {} THEN Append(s, e) ELSE kept
<1>1. kept \in Seq(S)
  <2>1. kept \in [1..Len(s) -> S]
    OBVIOUS
  <2> HIDE DEF kept
  <2> QED
    BY <2>1
<1>2. Append(s, e) \in Seq(S)
  OBVIOUS
<1> HIDE DEF kept
<1>3. written \in Seq(S)
  BY <1>1, <1>2
<1>4. Stored(s, e) = IF Len(written) > KeptTurns THEN Tail(written) ELSE written
  BY DEF Stored, kept
<1> HIDE DEF written
<1>5. Len(written) > KeptTurns => Tail(written) \in Seq(S)
  <2>1. KeptTurns \in Nat
    BY GroundingConstantsOK
  <2> QED
    BY <1>3, <2>1
<1> QED
  BY <1>3, <1>4, <1>5

LEMMA KeyedIsIn ==
    ASSUME NEW S, NEW s \in Seq(S), NEW k
    PROVE  Keyed(s, k) \subseteq S
BY DEF Keyed

Dated(n) ==
    {x \in [turn : Turns, faction : Factions, outcome : Outcomes, at : Nat] : x.at <= n}

\* A file, or a file about to be, that a record may name.
Verifies(r) == r.c.at \in Nat /\ (OnDisk(r) \/ clock > r.c.at + Ceiling)

EvidenceShapes ==
    /\ clock \in Nat
    /\ consulted \in Seq(Dated(clock))
    /\ pc \in [Deciders -> DecidingPlaces]
    /\ DOMAIN evidence = Deciders

\* A file is written no earlier than what it binds was consulted.
WellDated(f) == f.written \in Nat /\ f.file.c.at \in Nat /\ f.file.c.at <= f.written
FilesDated == \A f \in files \cup scratch : WellDated(f)

\* What is about to be written is of the past; what was written is there, or too old.
ToBeWritten == {"open", "write", "rename"}
Bygone(r) == r.c.at \in Nat /\ r.c.at <= clock
Underway ==
    \A d \in Deciders :
        /\ pc[d] \in ToBeWritten => Bygone(evidence[d])
        /\ pc[d] = "prune" => Verifies(evidence[d])

EvidenceInv ==
    /\ EvidenceShapes
    /\ FilesDated
    /\ Underway
    /\ \A r \in referenced : Verifies(r)

\* The longest a consultation may count is over before its file is pruned.
LEMMA PrunedIsOld ==
    /\ Ceiling \in Nat
    /\ (IF Ceiling = 0 THEN 1 ELSE Ceiling) * Generous \in Nat
    /\ (IF Ceiling = 0 THEN 1 ELSE Ceiling) * Generous >= Ceiling
<1>1. Ceiling \in Nat /\ Generous \in Nat /\ Generous >= 1
  BY GroundingConstantsOK
<1> DEFINE age == IF Ceiling = 0 THEN 1 ELSE Ceiling
<1>2. age \in Nat /\ age >= Ceiling
  BY <1>1
<1> HIDE DEF age
<1>3. age * Generous \in Nat /\ age * Generous >= age
  <2>1. PICK k \in Nat : Generous = k + 1
    BY <1>1
  <2>2. age * (k + 1) = age * k + age /\ age * k \in Nat
    BY <1>2, <2>1
  <2> QED
    BY <1>2, <2>1, <2>2
<1> QED
  BY <1>1, <1>2, <1>3 DEF age

\* Time passes and files are replaced: what verified does.
LEMMA VerifiesStill ==
    ASSUME NEW r, Verifies(r), clock \in Nat, clock' \in Nat, clock' >= clock,
           \A f \in files : f.file = r => \/ \E h \in files' : h.file = r
                                          \/ clock' > r.c.at + Ceiling
    PROVE  Verifies(r)'
<1>1. Ceiling \in Nat
  BY GroundingConstantsOK
<1>2. CASE OnDisk(r)
  BY <1>2 DEF Verifies, OnDisk
<1>3. CASE clock > r.c.at + Ceiling
  BY <1>1, <1>3 DEF Verifies
<1> QED
  BY <1>2, <1>3 DEF Verifies

LEMMA EvidenceInvInit == GroundingInit => EvidenceInv
<1> SUFFICES ASSUME GroundingInit PROVE EvidenceInv
  OBVIOUS
<1>1. EvidenceShapes
  <2>1. <<>> \in Seq(Dated(0))
    OBVIOUS
  <2> QED
    BY <2>1 DEF EvidenceShapes, GroundingInit, DecidingPlaces
<1>2. FilesDated /\ Underway /\ \A r \in referenced : Verifies(r)
  <2>1. /\ files \cup scratch = {} /\ referenced = {}
        /\ \A d \in Deciders : pc[d] = "new"
    BY DEF GroundingInit
  <2> QED
    BY <2>1 DEF FilesDated, Underway, ToBeWritten
<1> QED
  BY <1>1, <1>2 DEF EvidenceInv

\* Steps that do not touch the clock and take no file away.
LEMMA StillKeepsEvidenceInv ==
    ASSUME EvidenceInv, UNCHANGED clock,
           \A f \in files' \cup scratch' : f \in files \cup scratch \/ WellDated(f),
           \A r : OnDisk(r) => OnDisk(r)',
           consulted' \in Seq(Dated(clock)),
           pc' \in [Deciders -> DecidingPlaces], DOMAIN evidence' = Deciders,
           \A d \in Deciders :
              \/ pc'[d] \notin ToBeWritten \cup {"prune"}
              \/ pc'[d] = pc[d] /\ evidence'[d] = evidence[d]
              \/ pc'[d] \in ToBeWritten /\ Bygone(evidence'[d])
              \/ pc'[d] = "prune" /\ evidence'[d].c.at \in Nat /\ OnDisk(evidence[d])',
           \A r \in referenced' : Verifies(r)
    PROVE  EvidenceInv'
<1>1. \A r : Verifies(r) => Verifies(r)'
  BY DEF Verifies
<1>2. EvidenceShapes' /\ FilesDated'
  BY DEF EvidenceInv, EvidenceShapes, FilesDated, WellDated
<1>3. Underway'
  <2> SUFFICES ASSUME NEW d \in Deciders
               PROVE  /\ pc'[d] \in ToBeWritten => Bygone(evidence'[d])
                      /\ pc'[d] = "prune" => Verifies(evidence[d])'
    BY DEF Underway, Bygone
  <2>1. CASE pc'[d] = pc[d] /\ evidence'[d] = evidence[d]
    <3>1. Verifies(evidence[d]) => Verifies(evidence[d])'
      BY <2>1, <1>1 DEF Verifies, OnDisk
    <3> QED
      BY <2>1, <3>1 DEF EvidenceInv, Underway
  <2>2. CASE pc'[d] \notin ToBeWritten \cup {"prune"}
    BY <2>2
  <2>3. CASE pc'[d] \in ToBeWritten /\ Bygone(evidence'[d])
    BY <2>3 DEF ToBeWritten
  <2>4. CASE pc'[d] = "prune" /\ evidence'[d].c.at \in Nat /\ OnDisk(evidence[d])'
    BY <2>4 DEF ToBeWritten, Verifies, OnDisk
  <2> QED
    BY <2>1, <2>2, <2>3, <2>4
<1>4. \A r \in referenced' : Verifies(r)'
  BY <1>1
<1> QED
  BY <1>2, <1>3, <1>4 DEF EvidenceInv

LEMMA PrimeKeepsEvidenceInv ==
    ASSUME EvidenceInv, NEW a \in Announcers, NEW turn \in Turns, NEW faction \in Factions,
           Prime(a, turn, faction), dataset \in {"full", "empty", "down"}
    PROVE  EvidenceInv'
<1> DEFINE entry == [turn |-> turn, faction |-> faction, outcome |-> OutcomeOf(dataset),
                     at |-> clock]
<1>1. /\ consulted' = Stored(consulted, entry)
      /\ UNCHANGED <<clock, files, scratch, pc, evidence, referenced>>
  BY DEF Prime, world, decisions, evidenceFiles, writing
<1>2. entry \in Dated(clock)
  <2>1. OutcomeOf(dataset) \in Outcomes
    BY DEF OutcomeOf, Outcomes
  <2> QED
    BY <2>1 DEF Dated, EvidenceInv, EvidenceShapes
<1> HIDE DEF entry
<1>3. consulted' \in Seq(Dated(clock))
  BY <1>1, <1>2, StoredHolds DEF EvidenceInv, EvidenceShapes
<1>4. \A r : OnDisk(r)' = OnDisk(r)
  BY <1>1 DEF OnDisk
<1> QED
  BY <1>1, <1>3, <1>4, StillKeepsEvidenceInv DEF EvidenceInv, EvidenceShapes

\* A decision binds a consultation it finds; a file of that content may be there already.
LEMMA BindKeepsEvidenceInv ==
    ASSUME EvidenceInv, NEW d \in Deciders, Bind(d)
    PROVE  EvidenceInv'
<1>1. UNCHANGED <<clock, files, scratch, consulted>>
  BY DEF Bind, caches, world, writing
<1>2. PICK ref : \/ Record(d, ref) /\ (ref = NoFile \/ Verifies(ref))
                 \/ /\ evidence' = [evidence EXCEPT ![d] = ref]
                    /\ Goto(d, "open")
                    /\ referenced' = referenced
                    /\ ref.c.at \in Nat /\ ref.c.at <= clock
  <2> DEFINE mine == Keyed(consulted, view[d])
  <2>1. mine \subseteq Dated(clock)
    BY KeyedIsIn DEF EvidenceInv, EvidenceShapes
  <2>2. CASE mine = {}
    <3>1. Record(d, NoFile)
      BY <2>2 DEF Bind
    <3> QED
      BY <3>1
  <2>3. CASE mine # {}
    <3>1. PICK c \in mine :
             LET file == [c |-> c, view |-> view[d],
                          facts |-> told[d].facts \o told[d].remembered]
             IN IF OnDisk(file) THEN Record(d, file)
                ELSE /\ evidence' = [evidence EXCEPT ![d] = file]
                     /\ Goto(d, "open")
                     /\ UNCHANGED referenced
      BY <2>3 DEF Bind
    <3> DEFINE file == [c |-> c, view |-> view[d],
                        facts |-> told[d].facts \o told[d].remembered]
    <3>2. file.c.at \in Nat /\ file.c.at <= clock
      BY <2>1 DEF Dated
    <3> HIDE DEF file
    <3>3. OnDisk(file) => Verifies(file)
      BY <3>2 DEF Verifies
    <3>4. IF OnDisk(file) THEN Record(d, file)
          ELSE /\ evidence' = [evidence EXCEPT ![d] = file]
               /\ Goto(d, "open")
               /\ referenced' = referenced
      BY <3>1 DEF file
    <3> QED
      BY <3>2, <3>3, <3>4
  <2> QED
    BY <2>2, <2>3
<1>3. /\ evidence' = [evidence EXCEPT ![d] = ref]
      /\ \/ pc' = [pc EXCEPT ![d] = "done"]
         \/ pc' = [pc EXCEPT ![d] = "open"] /\ ref.c.at \in Nat /\ ref.c.at <= clock
      /\ \A r \in referenced' : r \in referenced \/ Verifies(r)
  BY <1>2 DEF Record, Goto
<1>4. pc' \in [Deciders -> DecidingPlaces] /\ DOMAIN evidence' = Deciders
  BY <1>3 DEF EvidenceInv, EvidenceShapes, DecidingPlaces
<1>5. \A e \in Deciders :
         /\ e # d => pc'[e] = pc[e] /\ evidence'[e] = evidence[e]
         /\ evidence'[d] = ref
         /\ \/ pc'[d] = "done"
            \/ pc'[d] = "open" /\ ref.c.at \in Nat /\ ref.c.at <= clock
  BY <1>3 DEF EvidenceInv, EvidenceShapes
<1>6. \A r : OnDisk(r)' = OnDisk(r)
  BY <1>1 DEF OnDisk
<1>7. consulted' \in Seq(Dated(clock)) /\ \A r \in referenced' : Verifies(r)
  BY <1>1, <1>3 DEF EvidenceInv, EvidenceShapes
<1> QED
  BY <1>1, <1>4, <1>5, <1>6, <1>7, StillKeepsEvidenceInv DEF ToBeWritten, Bygone

\* A thread that goes where no file of its own is underway, and names none.
LEMMA StepKeepsEvidenceInv ==
    ASSUME EvidenceInv, NEW d \in Deciders,
           NEW p \in DecidingPlaces \ (ToBeWritten \cup {"prune"}),
           pc' = [pc EXCEPT ![d] = p], UNCHANGED <<clock, files, consulted, referenced>>,
           scratch' \subseteq scratch,
           evidence' = evidence \/ evidence' = [evidence EXCEPT ![d] = NoFile]
    PROVE  EvidenceInv'
<1>1. pc' \in [Deciders -> DecidingPlaces] /\ DOMAIN evidence' = Deciders
  BY DEF EvidenceInv, EvidenceShapes
<1>2. \A e \in Deciders : /\ e # d => pc'[e] = pc[e] /\ evidence'[e] = evidence[e]
                          /\ pc'[d] = p
  BY DEF EvidenceInv, EvidenceShapes
<1>3. \A r : OnDisk(r)' = OnDisk(r)
  BY DEF OnDisk
<1> QED
  BY <1>1, <1>2, <1>3, StillKeepsEvidenceInv DEF EvidenceInv, EvidenceShapes

\* Opening and writing a scratch file, or the evidence file it has become, and renaming it:
\* the file is there the moment it is renamed, and no other goes.
LEMMA WritingKeepsEvidenceInv ==
    ASSUME EvidenceInv, NEW d \in Deciders,
           OpenScratch(d) \/ WriteScratch(d) \/ RenameScratch(d)
    PROVE  EvidenceInv'
<1>1. UNCHANGED <<clock, consulted, evidence, referenced>>
  BY DEF OpenScratch, WriteScratch, RenameScratch, caches, world
<1>2. /\ pc[d] \in ToBeWritten
      /\ \E p \in {"write", "rename", "prune"} : pc' = [pc EXCEPT ![d] = p]
      /\ pc'[d] = "prune" => RenameScratch(d)
  BY DEF OpenScratch, WriteScratch, RenameScratch, Goto, ToBeWritten, EvidenceInv, EvidenceShapes
<1>3. Bygone(evidence[d]) /\ clock \in Nat
  BY <1>2 DEF EvidenceInv, EvidenceShapes, Underway
<1>4. \A w : WellDated(Entry(d, w)) /\ Entry(d, w).file = evidence[d]
  BY <1>3 DEF WellDated, Entry, Bygone
<1>5. \A fs, w : \A f \in Placed(fs, Entry(d, w)) : f \in fs \/ WellDated(f)
  BY <1>4 DEF Placed
<1>6. \A f \in files' \cup scratch' : f \in files \cup scratch \/ WellDated(f)
  <2>1. CASE OpenScratch(d)
    BY <2>1, <1>5 DEF OpenScratch
  <2>2. CASE WriteScratch(d)
    BY <2>2, <1>5 DEF WriteScratch
  <2>3. CASE RenameScratch(d)
    BY <2>3 DEF RenameScratch, Placed
  <2> QED
    BY <2>1, <2>2, <2>3
<1>7. \A r : OnDisk(r) => OnDisk(r)'
  <2>1. \A f, r : (\E g \in files : g.file = r) => \E g \in Placed(files, f) : g.file = r
    BY DEF Placed
  <2>2. \E f : files' = files \/ files' = Placed(files, f)
    BY DEF OpenScratch, WriteScratch, RenameScratch
  <2> QED
    BY <2>1, <2>2 DEF OnDisk
<1>8. pc'[d] = "prune" => OnDisk(evidence[d])'
  <2> SUFFICES ASSUME RenameScratch(d) PROVE OnDisk(evidence[d])'
    BY <1>2
  <2>1. PICK s \in scratch : s.file = evidence[d] /\ files' = Placed(files, s)
    BY DEF RenameScratch
  <2> QED
    BY <1>1, <2>1 DEF OnDisk, Placed
<1>9. /\ pc' \in [Deciders -> DecidingPlaces] /\ DOMAIN evidence' = Deciders
      /\ \A e \in Deciders : e # d => pc'[e] = pc[e] /\ evidence'[e] = evidence[e]
      /\ pc'[d] \in {"write", "rename", "prune"} /\ evidence'[d] = evidence[d]
  BY <1>1, <1>2 DEF EvidenceInv, EvidenceShapes, DecidingPlaces
<1>10. \A e \in Deciders :
          \/ pc'[e] = pc[e] /\ evidence'[e] = evidence[e]
          \/ pc'[e] \in ToBeWritten /\ Bygone(evidence'[e])
          \/ pc'[e] = "prune" /\ evidence'[e].c.at \in Nat /\ OnDisk(evidence[e])'
  <2> SUFFICES \/ pc'[d] \in ToBeWritten /\ Bygone(evidence'[d])
               \/ pc'[d] = "prune" /\ evidence'[d].c.at \in Nat /\ OnDisk(evidence[d])'
    BY <1>9
  <2>1. CASE pc'[d] = "prune"
    BY <1>1, <1>3, <1>8, <2>1 DEF Bygone, OnDisk
  <2>2. CASE pc'[d] # "prune"
    BY <1>3, <1>9, <2>2 DEF ToBeWritten
  <2> QED
    BY <2>1, <2>2
<1> QED
  BY <1>1, <1>6, <1>7, <1>9, <1>10, StillKeepsEvidenceInv DEF EvidenceInv, EvidenceShapes

\* What is pruned is too old to count, and its own file is another's to prune too.
LEMMA PruneKeepsEvidenceInv ==
    ASSUME EvidenceInv, NEW d \in Deciders, PruneEvidence(d)
    PROVE  EvidenceInv'
<1> DEFINE generous == (IF Ceiling = 0 THEN 1 ELSE Ceiling) * Generous
<1>1. /\ pc[d] = "prune" /\ pc' = [pc EXCEPT ![d] = "done"]
      /\ files' = {f \in files : clock <= f.written + generous}
      /\ evidence' = [evidence EXCEPT ![d] = evidence[d]]
      /\ referenced' \subseteq referenced \cup {evidence[d]} /\ scratch' \subseteq scratch
      /\ UNCHANGED <<clock, consulted>>
  BY DEF PruneEvidence, Record, Goto, Unlink, caches, world
<1>2. generous \in Nat /\ generous >= Ceiling /\ Ceiling \in Nat
  BY PrunedIsOld
<1> HIDE DEF generous
<1>3. clock \in Nat /\ FilesDated
  BY DEF EvidenceInv, EvidenceShapes
<1>4. ASSUME NEW r, Verifies(r) PROVE Verifies(r)'
  <2>1. ASSUME NEW f \in files, f.file = r
        PROVE  f \in files' \/ clock > r.c.at + Ceiling
    BY <1>1, <1>2, <1>3, <2>1 DEF FilesDated, WellDated
  <2> QED
    BY <1>1, <1>3, <1>4, <2>1, VerifiesStill
<1>5. DOMAIN evidence' = Deciders /\ \A e \in Deciders : evidence'[e] = evidence[e]
  BY <1>1 DEF EvidenceInv, EvidenceShapes
<1>6. EvidenceShapes'
  BY <1>1, <1>5 DEF EvidenceInv, EvidenceShapes, DecidingPlaces
<1>7. FilesDated'
  BY <1>1, <1>3 DEF FilesDated, WellDated
<1>8. Underway'
  <2>1. \A e \in Deciders : /\ e # d => pc'[e] = pc[e]
                            /\ pc'[d] = "done"
    BY <1>1 DEF EvidenceInv, EvidenceShapes
  <2>2. \A e \in Deciders : Verifies(evidence[e]) => Verifies(evidence[e])'
    BY <1>4, <1>5 DEF Verifies, OnDisk
  <2> QED
    BY <1>1, <1>5, <2>1, <2>2 DEF EvidenceInv, Underway, ToBeWritten, Bygone
<1>9. \A r \in referenced' : Verifies(r)'
  <2>1. \A r \in referenced \cup {evidence[d]} : Verifies(r)
    BY <1>1 DEF EvidenceInv, Underway
  <2> QED
    BY <1>1, <1>4, <2>1
<1> QED
  BY <1>6, <1>7, <1>8, <1>9 DEF EvidenceInv

LEMMA TickKeepsEvidenceInv == ASSUME EvidenceInv, Tick PROVE EvidenceInv'
<1>1. clock' = clock + 1 /\ UNCHANGED <<files, scratch, consulted, pc, evidence, referenced>>
  BY DEF Tick, caches, decisions, evidenceFiles, writing
<1>2. clock \in Nat
  BY DEF EvidenceInv, EvidenceShapes
<1>3. \A r : Verifies(r) => Verifies(r)'
  BY <1>1, <1>2, VerifiesStill
<1>4. EvidenceShapes'
  <2>1. Dated(clock) \subseteq Dated(clock + 1)
    BY <1>2 DEF Dated
  <2>2. consulted \in Seq(Dated(clock + 1))
    BY <2>1 DEF EvidenceInv, EvidenceShapes
  <2> QED
    BY <1>1, <1>2, <2>2 DEF EvidenceInv, EvidenceShapes
<1>5. FilesDated'
  BY <1>1 DEF EvidenceInv, FilesDated, WellDated
<1>6. Underway'
  <2>1. \A e \in Deciders : Verifies(evidence[e]) => Verifies(evidence[e])'
    BY <1>1, <1>3 DEF Verifies, OnDisk
  <2> QED
    BY <1>1, <1>2, <2>1 DEF EvidenceInv, Underway, Bygone
<1> QED
  BY <1>1, <1>3, <1>4, <1>5, <1>6 DEF EvidenceInv

LEMMA RestartKeepsEvidenceInv == ASSUME EvidenceInv, Restart PROVE EvidenceInv'
<1>1. /\ consulted' = <<>> /\ pc' = [d \in Deciders |-> "new"]
      /\ evidence' = [d \in Deciders |-> NoFile]
      /\ scratch' = {}
      /\ UNCHANGED <<clock, files, referenced>>
  BY DEF Restart, world
<1>2. consulted' \in Seq(Dated(clock))
  BY <1>1
<1>3. \A r : OnDisk(r)' = OnDisk(r)
  BY <1>1 DEF OnDisk
<1>4. /\ pc' \in [Deciders -> DecidingPlaces] /\ DOMAIN evidence' = Deciders
      /\ \A d \in Deciders : pc'[d] \notin ToBeWritten \cup {"prune"}
  BY <1>1 DEF DecidingPlaces, ToBeWritten
<1> QED
  BY <1>1, <1>2, <1>3, <1>4, StillKeepsEvidenceInv DEF EvidenceInv

\* The rulebook answers in one of three ways.
Answering == dataset \in {"full", "empty", "down"}

LEMMA EvidenceInvKept ==
    Answering /\ EvidenceInv /\ [GroundingNext]_groundingVars => (Answering /\ EvidenceInv)'
<1> SUFFICES ASSUME Answering, EvidenceInv, [GroundingNext]_groundingVars
             PROVE  (Answering /\ EvidenceInv)'
  OBVIOUS
<1>1. Answering'
  <2>1. CASE UNCHANGED groundingVars \/ Boundary \/ Ordering \/ MemoryTurns \/ Tick \/ Restart
    BY <2>1 DEF Answering, groundingVars, world, Boundary, Prime, KeepRows, Ordering,
               RecordIntent, MemoryTurns, Tick, Restart
  <2>2. CASE Deciding
    BY <2>2 DEF Answering, world, Deciding, Arrive, ReadRows, ReadIntents, ReadTactics, Bind,
               OpenScratch, WriteScratch, RenameScratch, PublishFails, PruneEvidence, Reply
  <2>3. CASE RulebookTurns
    BY <2>3 DEF Answering, RulebookTurns, DatasetTurns
  <2> QED
    BY <2>1, <2>2, <2>3 DEF GroundingNext
<1>2. CASE \/ UNCHANGED groundingVars \/ Ordering \/ RulebookTurns \/ MemoryTurns
           \/ \E a \in Announcers : KeepRows(a)
  <2>1. UNCHANGED <<clock, files, scratch, consulted, pc, evidence, referenced>>
    BY <1>2
    DEF groundingVars, caches, world, decisions, evidenceFiles, writing, Ordering,
        RecordIntent, RulebookTurns, DatasetTurns, MemoryTurns, KeepRows
  <2>2. \A r : OnDisk(r)' = OnDisk(r)
    BY <2>1 DEF OnDisk
  <2> QED
    BY <1>1, <2>1, <2>2, StillKeepsEvidenceInv DEF EvidenceInv, EvidenceShapes
<1>3. ASSUME NEW a \in Announcers, NEW v \in Views, v.faction # Nobody,
             Prime(a, v.turn, v.faction)
      PROVE  EvidenceInv'
  <2>1. v.turn \in Turns /\ v.faction \in Factions
    BY <1>3, GroundingConstantsOK DEF Turns
  <2> QED
    BY <1>3, <2>1, PrimeKeepsEvidenceInv DEF Answering
<1>4. ASSUME NEW d \in Deciders,
             \/ \E v \in Views : Arrive(d, v)
             \/ ReadRows(d) \/ ReadIntents(d) \/ ReadTactics(d) \/ Reply(d)
             \/ PublishFails(d)
      PROVE  EvidenceInv'
  <2>1. PICK p \in DecidingPlaces \ (ToBeWritten \cup {"prune"}) : pc' = [pc EXCEPT ![d] = p]
    BY <1>4 DEF Arrive, ReadRows, ReadIntents, ReadTactics, Reply, PublishFails, Record, Goto,
               DecidingPlaces, ToBeWritten
  <2>2. /\ UNCHANGED <<clock, files, consulted, referenced>> /\ scratch' \subseteq scratch
        /\ evidence' = evidence \/ evidence' = [evidence EXCEPT ![d] = NoFile]
    BY <1>4 DEF Arrive, ReadRows, ReadIntents, ReadTactics, Reply, PublishFails, Record, Unlink,
               caches, world, evidenceFiles, writing
  <2> QED
    BY <2>1, <2>2, StepKeepsEvidenceInv
<1>5. ASSUME NEW d \in Deciders,
             \/ Bind(d) \/ OpenScratch(d) \/ WriteScratch(d) \/ RenameScratch(d)
             \/ PruneEvidence(d)
      PROVE  EvidenceInv'
  BY <1>5, BindKeepsEvidenceInv, WritingKeepsEvidenceInv, PruneKeepsEvidenceInv
<1> QED
  BY <1>1, <1>2, <1>3, <1>4, <1>5, TickKeepsEvidenceInv, RestartKeepsEvidenceInv
  DEF GroundingNext, Boundary, Deciding

\* Whatever the threads, the two servers and the clock do, every file is written no earlier
\* than what it binds, and every file that is named, or about to be, verifies.
THEOREM EvidenceInvariant == GroundingSpec => []EvidenceInv
<1>1. GroundingInit => Answering
  BY DEF GroundingInit, Answering
<1> QED
  BY <1>1, EvidenceInvInit, EvidenceInvKept, PTL DEF GroundingSpec

(*---------------------------------------------------------------------------*)
(* What is in the files.                                                      *)

WriterShapes ==
    /\ pc \in [Deciders -> DecidingPlaces]
    /\ DOMAIN evidence = Deciders /\ DOMAIN holds = Deciders

\* Of a content that two threads never wrote at once: one thread is between its opening and
\* its renaming, nobody writes into the evidence file, what is renamed is whole.
Writes(d, r) == pc[d] \in {"write", "rename"} /\ evidence[d] = r
Unmixed(r) ==
    /\ \A d, e \in Deciders : Writes(d, r) /\ Writes(e, r) => d = e
    /\ \A d \in Deciders : pc[d] = "write" /\ evidence[d] = r =>
          /\ holds[d] \in {"scratch", "gone"}
          /\ holds[d] = "gone" => \A s \in scratch : s.file # r
    /\ \A d \in Deciders : pc[d] = "rename" /\ evidence[d] = r =>
          \A s \in scratch : s.file = r => s.whole
    /\ \A f \in files : f.file = r => f.whole
WholeInv == WriterShapes /\ \A r : r \notin shared => Unmixed(r)

LEMMA WholeInvInit == GroundingInit => WholeInv
BY DEF GroundingInit, WholeInv, WriterShapes, Unmixed, Writes, DecidingPlaces

\* Steps that put nothing into a file: whoever is writing goes on, or has lost its scratch
\* file to an unlinking, or its file to a pruning.
LEMMA ElsewhereKeepsWholeInv ==
    ASSUME WholeInv, WriterShapes', shared' = shared, files' \subseteq files,
           scratch' \subseteq scratch,
           \A d \in Deciders : pc'[d] \in {"write", "rename"} =>
              /\ pc'[d] = pc[d] /\ evidence'[d] = evidence[d]
              /\ \/ holds'[d] = holds[d]
                 \/ holds'[d] = "gone" /\ \A s \in scratch' : s.file # evidence[d]
                 \/ holds'[d] = "gone" /\ holds[d] = "file"
    PROVE  WholeInv'
<1> SUFFICES ASSUME NEW r, r \notin shared PROVE Unmixed(r)'
  BY DEF WholeInv
<1>1. Unmixed(r)
  BY DEF WholeInv
<1>2. \A d, e \in Deciders : Writes(d, r)' /\ Writes(e, r)' => d = e
  BY <1>1 DEF Unmixed, Writes
<1>3. \A d \in Deciders : pc'[d] = "write" /\ evidence'[d] = r =>
         /\ holds'[d] \in {"scratch", "gone"}
         /\ holds'[d] = "gone" => \A s \in scratch' : s.file # r
  BY <1>1 DEF Unmixed
<1>4. \A d \in Deciders : pc'[d] = "rename" /\ evidence'[d] = r =>
         \A s \in scratch' : s.file = r => s.whole
  BY <1>1 DEF Unmixed
<1>5. \A f \in files' : f.file = r => f.whole
  BY <1>1 DEF Unmixed
<1> QED
  BY <1>2, <1>3, <1>4, <1>5 DEF Unmixed

\* A thread that moves, and is not yet or no more writing.
LEMMA MoveKeepsWholeInv ==
    ASSUME WholeInv, NEW d \in Deciders, NEW p \in DecidingPlaces \ {"write", "rename"},
           pc' = [pc EXCEPT ![d] = p],
           evidence' = evidence \/ \E ref : evidence' = [evidence EXCEPT ![d] = ref],
           \/ holds' = holds /\ scratch' = scratch
           \/ \E left : holds' = LetGo(d, left) /\ Unlink(d),
           files' \subseteq files, shared' = shared
    PROVE  WholeInv'
<1>1. WriterShapes'
  BY DEF WholeInv, WriterShapes, LetGo
<1>2. scratch' \subseteq scratch
  BY DEF Unlink
<1>3. ASSUME NEW e \in Deciders, pc'[e] \in {"write", "rename"}
      PROVE  /\ pc'[e] = pc[e] /\ evidence'[e] = evidence[e] /\ e # d
             /\ \/ holds'[e] = holds[e]
                \/ holds'[e] = "gone" /\ \A s \in scratch' : s.file # evidence[e]
                \/ holds'[e] = "gone" /\ holds[e] = "file"
  <2>1. e # d /\ pc'[e] = pc[e] /\ evidence'[e] = evidence[e]
    BY <1>3 DEF WholeInv, WriterShapes
  <2>2. CASE holds' = holds
    BY <2>1, <2>2
  <2>3. ASSUME NEW left, holds' = LetGo(d, left), Unlink(d)
        PROVE  \/ holds'[e] = holds[e]
               \/ holds'[e] = "gone" /\ \A s \in scratch' : s.file # evidence[e]
               \/ holds'[e] = "gone" /\ holds[e] = "file"
    BY <2>1, <2>3 DEF LetGo, Unlink, Others
  <2> QED
    BY <2>1, <2>2, <2>3
<1> QED
  BY <1>1, <1>2, <1>3, ElsewhereKeepsWholeInv

\* Opening cuts a content's scratch file to nothing; a second writer makes it a shared one.
LEMMA OpenKeepsWholeInv ==
    ASSUME WholeInv, NEW d \in Deciders, OpenScratch(d)
    PROVE  WholeInv'
<1>1. /\ pc[d] = "open" /\ pc' = [pc EXCEPT ![d] = "write"]
      /\ holds' = [holds EXCEPT ![d] = "scratch"]
      /\ scratch' = Placed(scratch, Entry(d, FALSE))
      /\ shared \subseteq shared'
      /\ (\E e \in Others(d) : pc[e] \in {"write", "rename"}) => evidence[d] \in shared'
      /\ UNCHANGED <<evidence, files>>
  BY DEF OpenScratch, Goto
<1>2. WriterShapes'
  BY <1>1 DEF WholeInv, WriterShapes, DecidingPlaces
<1>3. \A e \in Deciders : /\ pc'[e] = IF e = d THEN "write" ELSE pc[e]
                          /\ holds'[e] = IF e = d THEN "scratch" ELSE holds[e]
  BY <1>1 DEF WholeInv, WriterShapes
<1>4. \A s \in scratch' : s \in scratch \/ s.file = evidence[d]
  BY <1>1 DEF Placed, Entry
<1> SUFFICES ASSUME NEW r, r \notin shared' PROVE Unmixed(r)'
  BY <1>2 DEF WholeInv
<1>5. Unmixed(r)
  BY <1>1 DEF WholeInv
<1>6. CASE r = evidence[d]
  <2>1. \A e \in Deciders : e # d => ~Writes(e, r)
    BY <1>1, <1>6 DEF Others, Writes
  <2>2. \A e \in Deciders : Writes(e, r)' => e = d
    BY <1>1, <1>3, <2>1 DEF Writes
  <2>3. holds'[d] = "scratch" /\ pc'[d] = "write"
    BY <1>3
  <2>4. \A f \in files' : f.file = r => f.whole
    BY <1>1, <1>5 DEF Unmixed
  <2>5. \A e \in Deciders : pc'[e] \in {"write", "rename"} /\ evidence'[e] = r => e = d
    BY <2>2 DEF Writes
  <2> QED
    BY <2>2, <2>3, <2>4, <2>5 DEF Unmixed
<1>7. CASE r # evidence[d]
  <2>1. \A e \in Deciders : Writes(e, r)' => Writes(e, r) /\ e # d
    BY <1>1, <1>3, <1>7 DEF Writes
  <2>2. \A e \in Deciders : Writes(e, r)' =>
           pc'[e] = pc[e] /\ evidence'[e] = evidence[e] /\ holds'[e] = holds[e]
    BY <1>1, <1>3, <2>1
  <2>3. \A s \in scratch' : s.file = r => s \in scratch
    BY <1>4, <1>7
  <2>4. \A e, f \in Deciders : Writes(e, r)' /\ Writes(f, r)' => e = f
    BY <1>5, <2>1 DEF Unmixed
  <2>5. \A f \in files' : f.file = r => f.whole
    BY <1>1, <1>5 DEF Unmixed
  <2>6. \A e \in Deciders : pc'[e] \in {"write", "rename"} /\ evidence'[e] = r => Writes(e, r)'
    BY DEF Writes
  <2>7. \A e \in Deciders : pc'[e] = "write" /\ evidence'[e] = r =>
           /\ holds'[e] \in {"scratch", "gone"}
           /\ holds'[e] = "gone" => \A s \in scratch' : s.file # r
    BY <1>5, <2>2, <2>3, <2>6 DEF Unmixed
  <2>8. \A e \in Deciders : pc'[e] = "rename" /\ evidence'[e] = r =>
           \A s \in scratch' : s.file = r => s.whole
    BY <1>5, <2>2, <2>3, <2>6 DEF Unmixed
  <2> QED
    BY <2>4, <2>5, <2>7, <2>8 DEF Unmixed
<1> QED
  BY <1>6, <1>7

\* Writing fills the file the thread has open.
LEMMA WriteKeepsWholeInv ==
    ASSUME WholeInv, NEW d \in Deciders, WriteScratch(d)
    PROVE  WholeInv'
<1> DEFINE full == Entry(d, TRUE)
<1>1. /\ pc[d] = "write" /\ pc' = [pc EXCEPT ![d] = "rename"]
      /\ holds' = [holds EXCEPT ![d] = "none"]
      /\ scratch' = IF holds[d] = "scratch" THEN Placed(scratch, full) ELSE scratch
      /\ files' = IF holds[d] = "file" THEN Placed(files, full) ELSE files
      /\ UNCHANGED <<evidence, shared>>
  BY DEF WriteScratch, Goto
<1>2. WriterShapes'
  BY <1>1 DEF WholeInv, WriterShapes, DecidingPlaces
<1>3. \A e \in Deciders : /\ pc'[e] = IF e = d THEN "rename" ELSE pc[e]
                          /\ e # d => holds'[e] = holds[e]
  BY <1>1 DEF WholeInv, WriterShapes
<1>4. full.file = evidence[d] /\ full.whole = TRUE
  BY DEF Entry
<1> HIDE DEF full
<1> SUFFICES ASSUME NEW r, r \notin shared PROVE Unmixed(r)'
  BY <1>1, <1>2 DEF WholeInv
<1>5. Unmixed(r)
  BY DEF WholeInv
<1>6. \A e \in Deciders : Writes(e, r)' <=> Writes(e, r)
  BY <1>1, <1>3 DEF Writes
<1>7. \A f \in files' : f.file = r => f.whole
  BY <1>1, <1>4, <1>5 DEF Unmixed, Placed
<1>8. r # evidence[d] => \A s \in scratch' : s.file = r => s \in scratch
  BY <1>1, <1>4 DEF Placed
<1>9. r = evidence[d] => \A s \in scratch' : s.file = r => s.whole
  <2>1. r = evidence[d] => holds[d] \in {"scratch", "gone"}
                           /\ (holds[d] = "gone" => \A s \in scratch : s.file # r)
    BY <1>1, <1>5 DEF Unmixed
  <2> QED
    BY <1>1, <1>4, <2>1 DEF Placed
<1>10. r = evidence[d] => \A e \in Deciders : e # d => ~Writes(e, r)
  BY <1>1, <1>5 DEF Unmixed, Writes
<1>11. CASE r = evidence[d]
  BY <1>1, <1>3, <1>5, <1>6, <1>7, <1>9, <1>10, <1>11 DEF Unmixed, Writes
<1>12. CASE r # evidence[d]
  BY <1>1, <1>3, <1>5, <1>6, <1>7, <1>8, <1>12 DEF Unmixed, Writes
<1> QED
  BY <1>11, <1>12

\* Renaming puts a whole file in the place of another.
LEMMA RenameKeepsWholeInv ==
    ASSUME WholeInv, NEW d \in Deciders, RenameScratch(d)
    PROVE  WholeInv'
<1>1. /\ pc[d] = "rename" /\ pc' = [pc EXCEPT ![d] = "prune"]
      /\ UNCHANGED <<evidence, shared>>
      /\ \A e \in Deciders : e \notin Others(d) => holds'[e] = holds[e]
      /\ DOMAIN holds' = Deciders
  BY DEF RenameScratch, Goto
<1>2. PICK s \in scratch : /\ s.file = evidence[d] /\ scratch' = scratch \ {s}
                           /\ files' = Placed(files, s)
  BY DEF RenameScratch
<1>3. WriterShapes'
  BY <1>1 DEF WholeInv, WriterShapes, DecidingPlaces
<1>4. \A e \in Deciders : pc'[e] = IF e = d THEN "prune" ELSE pc[e]
  BY <1>1 DEF WholeInv, WriterShapes
<1> SUFFICES ASSUME NEW r, r \notin shared PROVE Unmixed(r)'
  BY <1>1, <1>3 DEF WholeInv
<1>5. Unmixed(r)
  BY DEF WholeInv
<1>6. \A e \in Deciders : Writes(e, r)' => Writes(e, r) /\ e # d
  BY <1>1, <1>4 DEF Writes
<1>7. \A e \in Deciders : Writes(e, r)' => holds'[e] = holds[e]
  <2>1. \A e \in Deciders : Writes(e, r)' => evidence[e] # evidence[d]
    BY <1>1, <1>5, <1>6 DEF Unmixed, Writes
  <2> QED
    BY <1>1, <2>1 DEF Others
<1>8. \A f \in files' : f.file = r => f.whole
  BY <1>1, <1>2, <1>5 DEF Unmixed, Placed
<1> QED
  BY <1>1, <1>2, <1>4, <1>5, <1>6, <1>7, <1>8 DEF Unmixed, Writes

LEMMA WholeInvKept == WholeInv /\ [GroundingNext]_groundingVars => WholeInv'
<1> SUFFICES ASSUME WholeInv, [GroundingNext]_groundingVars PROVE WholeInv'
  OBVIOUS
<1>1. CASE UNCHANGED groundingVars \/ Boundary \/ Ordering \/ RulebookTurns \/ MemoryTurns \/ Tick
  <2>1. UNCHANGED <<pc, evidence, holds, scratch, files, shared>>
    BY <1>1
    DEF groundingVars, decisions, evidenceFiles, writing, Boundary, Prime, KeepRows, Ordering,
        RecordIntent, RulebookTurns, DatasetTurns, MemoryTurns, Tick
  <2> QED
    BY <2>1, ElsewhereKeepsWholeInv DEF WholeInv, WriterShapes
<1>2. CASE Restart
  <2>1. /\ pc' = [d \in Deciders |-> "new"] /\ evidence' = [d \in Deciders |-> NoFile]
        /\ holds' = [d \in Deciders |-> "none"] /\ scratch' = {}
        /\ UNCHANGED <<files, shared>>
    BY <1>2 DEF Restart
  <2>2. WriterShapes' /\ \A d \in Deciders : pc'[d] \notin {"write", "rename"}
    BY <2>1 DEF WriterShapes, DecidingPlaces
  <2> QED
    BY <2>1, <2>2, ElsewhereKeepsWholeInv
<1>3. ASSUME NEW d \in Deciders,
             \/ \E v \in Views : Arrive(d, v)
             \/ ReadRows(d) \/ ReadIntents(d) \/ ReadTactics(d) \/ Bind(d) \/ Reply(d)
             \/ PublishFails(d) \/ PruneEvidence(d)
      PROVE  WholeInv'
  <2>1. PICK p \in DecidingPlaces \ {"write", "rename"} : pc' = [pc EXCEPT ![d] = p]
    BY <1>3 DEF Arrive, ReadRows, ReadIntents, ReadTactics, Bind, Reply, PublishFails,
               PruneEvidence, Record, Goto, DecidingPlaces
  <2>2. evidence' = evidence \/ \E ref : evidence' = [evidence EXCEPT ![d] = ref]
    BY <1>3 DEF Arrive, ReadRows, ReadIntents, ReadTactics, Bind, Reply, PublishFails,
               PruneEvidence, Record
  <2>3. \/ holds' = holds /\ scratch' = scratch
        \/ \E left : holds' = LetGo(d, left) /\ Unlink(d)
    BY <1>3 DEF Arrive, ReadRows, ReadIntents, ReadTactics, Bind, Reply, PublishFails,
               PruneEvidence, evidenceFiles, writing
  <2>4. files' \subseteq files /\ shared' = shared
    BY <1>3 DEF Arrive, ReadRows, ReadIntents, ReadTactics, Bind, Reply, PublishFails,
               PruneEvidence, evidenceFiles, writing
  <2> QED
    BY <2>1, <2>2, <2>3, <2>4, MoveKeepsWholeInv
<1>4. ASSUME NEW d \in Deciders, OpenScratch(d) \/ WriteScratch(d) \/ RenameScratch(d)
      PROVE  WholeInv'
  BY <1>4, OpenKeepsWholeInv, WriteKeepsWholeInv, RenameKeepsWholeInv
<1> QED
  BY <1>1, <1>2, <1>3, <1>4 DEF GroundingNext, Deciding

\* However the threads of a process interleave in writing, failing to write, renaming and
\* unlinking, a content only one of them was writing at a time is whole wherever it is.
THEOREM UnsharedIsWhole == GroundingSpec => []WholeInv
BY WholeInvInit, WholeInvKept, PTL DEF GroundingSpec

\* A file a record names is there until what it binds is too old to count, and whole unless
\* two threads were writing its content at once (grounding_evidence.py: publish,
\* _write_atomic, _prune).
THEOREM NamedFilesVerify == GroundingSpec => []ReferencesVerify
<1>1. EvidenceInv /\ WholeInv => ReferencesVerify
  <2> SUFFICES ASSUME EvidenceInv, WholeInv, NEW r \in referenced, ~(clock > r.c.at + Ceiling)
               PROVE  \E f \in files : f.file = r /\ (f.whole \/ r \in shared)
    BY DEF ReferencesVerify
  <2>1. PICK f \in files : f.file = r
    BY DEF EvidenceInv, Verifies, OnDisk
  <2> QED
    BY <2>1 DEF WholeInv, Unmixed
<1> QED
  BY EvidenceInvariant, UnsharedIsWhole, <1>1, PTL
================================================================================
