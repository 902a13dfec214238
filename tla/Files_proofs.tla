------------------------------ MODULE Files_proofs ------------------------------
(* The command file and the result file with any number of issuing threads,     *)
(* observers, orders, lines and deaths of the game: nothing is acted on twice,  *)
(* credited twice or confirmed unseen.  The decision log with any number of     *)
(* deciders, answers, failed writes and lives of the process: what of it can be *)
(* lost, and what its readers make of the rest.                                 *)
EXTENDS CommandFile, LogReaders, FiniteSetTheorems, SequenceTheorems, WellFoundedInduction,
        TLAPS

(*---------------------------------------------------------------------------*)
(* The inductive invariant.                                                   *)

\* A number belongs to one asker at a time, who has one only while it asks.
Given ==
    /\ \A i \in Issuers : mine[i] <= issued /\ (mine[i] = 0 <=> pc[i] = "idle")
    /\ \A w \in Observers : asks[w] <= issued /\ (asks[w] = 0 <=> look[w] = "idle")

Distinct ==
    /\ \A i, j \in Issuers : mine[i] = mine[j] /\ mine[i] # 0 => i = j
    /\ \A v, w \in Observers : asks[v] = asks[w] /\ asks[v] # 0 => v = w
    /\ \A i \in Issuers, w \in Observers : mine[i] # 0 => mine[i] # asks[w]

OwnNumbers == Given /\ Distinct

\* One issuer at a time is past the lock.
Exclusive == \A i \in Issuers : pc[i] \in {"clearing", "writing", "waiting"} => lock = i

\* Nobody has been told of what was done for n.
Unheard(n) == slot.of # n /\ \A m \in Orders : report[m].from # n

\* n is still to be put in the command file, if ever.
Unsent(n) == \/ n > issued
             \/ \E i \in Issuers : mine[i] = n /\ pc[i] \in {"queued", "clearing", "writing"}
             \/ \E w \in Observers : asks[w] = n /\ look[w] = "opening"

UnsentIsUntouched ==
    \A n \in Orders : Unsent(n) => runs[n] = 0 /\ cmd # n /\ game.order # n

\* What lies in the file was not acted on, and is not in the game's hands.
FileIsFresh == cmd # 0 => runs[cmd] = 0 /\ game.order # cmd

GameOK ==
    /\ game.at = "polling" <=> game.order = 0
    /\ game.at = "acting" => runs[game.order] = 0
    /\ game.at \in {"acted", "writing"} => runs[game.order] = 1 /\ Unheard(game.order)

\* Only what was acted on, once, is told of, and told of once.
Heard ==
    /\ \A n \in Orders : runs[n] <= 1
    /\ \A n \in Orders : runs[n] = 0 => Unheard(n)
    /\ \A n, m \in Orders : report[n].from = report[m].from /\ report[n].from # 0 => n = m
    /\ \A n \in Orders : report[n].status \in {"ok", "refused"} => report[n].from # 0

\* Whoever waits for a result finds none that was credited already.
SlotIsNew ==
    \A i \in Issuers : pc[i] \in {"writing", "waiting"} =>
        slot.of = 0 \/ \A m \in Orders : report[m].from # slot.of

\* What the game did with an order it does not do again; a single command is one.
DoneOnce(n) == runs[n] = 1 => size[n] # 0 \/ Len(did[n]) = 1

\* The slot holds what became of the order it is about.
SlotIsTrue ==
    \A n \in Orders : /\ DoneOnce(n)
                      /\ slot.of = n => /\ slot.ok => Succeeded(n)
                                        /\ size[n] # 0 => slot.results = did[n]

\* Nothing is said of an order that is yet to come or in service.
NotYetTold(n) == report[n].status = "none"

NothingYet ==
    /\ \A n \in Orders : n > issued => n \notin quiet /\ NotYetTold(n)
    /\ \A i \in Issuers : /\ mine[i] # 0 => NotYetTold(mine[i])
                          /\ pc[i] \in {"queued", "clearing"} => mine[i] \notin quiet

\* An order nobody crossed, sent with nothing under way, is alone with the game.
Alone(n) == n \in quiet \ crossed

AloneWithGame ==
    \A i \in Issuers : pc[i] \in {"writing", "waiting"} /\ Alone(mine[i]) =>
        /\ {cmd, game.order, slot.of} \subseteq {0, mine[i]}
        /\ pc[i] = "writing" => cmd = 0 /\ game.order = 0 /\ slot.of = 0

ToldIsTrue ==
    \A n, m \in Orders : report[n].status \in {"ok", "refused"} /\ report[n].from = m =>
        /\ report[n].status = "ok" => Succeeded(m)
        /\ Alone(n) => m = n /\ Carried(n)

ChannelInv == /\ SharedTypeOK
              /\ OwnNumbers /\ Exclusive
              /\ UnsentIsUntouched /\ FileIsFresh /\ GameOK
              /\ Heard /\ SlotIsNew
              /\ SlotIsTrue /\ NothingYet /\ AloneWithGame /\ ToldIsTrue

(*---------------------------------------------------------------------------*)
(* Types.                                                                     *)

LEMMA NoResults == <<>> \in Outcomes
<1>1. <<>> \in [1..0 -> BOOLEAN]
  OBVIOUS
<1>2. 0 \in 0..MaxLines
  BY ConstantsOK
<1> QED
  BY <1>1, <1>2 DEF Outcomes

LEMMA ConfirmedType ==
    ASSUME TypeOK, NEW n \in Orders
    PROVE  Confirmed(n) \in SUBSET (1..MaxLines + 1)
<1>1. size[n] \in 0..MaxLines
  BY DEF TypeOK
<1>2. CASE size[n] = 0
  BY <1>2, ConstantsOK DEF Confirmed
<1>3. CASE size[n] # 0
  <2>1. 1..size[n] \subseteq 1..MaxLines + 1
    BY <1>1, ConstantsOK
  <2> QED
    BY <1>3, <2>1 DEF Confirmed
<1> QED
  BY <1>2, <1>3

LEMMA Types == SharedInit => SharedTypeOK
BY ConstantsOK, NoResults
DEF SharedInit, Init, SharedTypeOK, TypeOK, Orders, NoFile, Resting, NoReport

\* A thread that asks has an order's number.
LEMMA MineIsOrder ==
    ASSUME SharedTypeOK, OwnNumbers
    PROVE  /\ \A i \in Issuers : pc[i] # "idle" => mine[i] \in Orders
           /\ \A w \in Observers : look[w] # "idle" => asks[w] \in Orders
           /\ cmd # 0 => cmd \in Orders
           /\ issued < MaxOrders => issued + 1 \in Orders
BY ConstantsOK DEF SharedTypeOK, TypeOK, OwnNumbers, Given, Orders

LEMMA TypeStep ==
    SharedTypeOK /\ OwnNumbers /\ GameOK /\ [SharedNext]_sharedVars => SharedTypeOK'
<1> SUFFICES ASSUME SharedTypeOK, OwnNumbers, GameOK, [SharedNext]_sharedVars
             PROVE  SharedTypeOK'
  OBVIOUS
<1> USE DEF SharedTypeOK, TypeOK, Orderly, observerVars
<1>0. CASE UNCHANGED sharedVars
  BY <1>0 DEF sharedVars, vars
<1>1. ASSUME NEW i \in Issuers, NEW k \in 0..MaxLines, Ask(i, k), UNCHANGED observerVars
      PROVE  SharedTypeOK'
  <2>1. issued + 1 \in Orders /\ issued' = issued + 1 /\ issued' \in 0..MaxOrders
    BY <1>1, MineIsOrder, ConstantsOK DEF Ask
  <2>2. size' \in [Orders -> 0..MaxLines] /\ mine' \in [Issuers -> Orders \cup {0}]
    BY <1>1, <2>1 DEF Ask
  <2>3. pc' \in [Issuers -> {"idle", "queued", "clearing", "writing", "waiting"}]
    BY <1>1 DEF Ask
  <2>4. UNCHANGED <<lock, cmd, slot, game, did, runs, crashes, quiet, report>>
    BY <1>1 DEF Ask
  <2> QED
    BY <1>1, <2>1, <2>2, <2>3, <2>4
<1>2. ASSUME NEW i \in Issuers, Unavailable(i), UNCHANGED observerVars
      PROVE  SharedTypeOK'
  BY <1>2, MineIsOrder, ConstantsOK DEF Unavailable
<1>3. ASSUME NEW i \in Issuers, Enter(i), UNCHANGED observerVars
      PROVE  SharedTypeOK'
  BY <1>3 DEF Enter
<1>4. ASSUME NEW i \in Issuers, Clear(i), UNCHANGED observerVars
      PROVE  SharedTypeOK'
  BY <1>4, MineIsOrder, NoResults DEF Clear, NoFile, Resting
<1>5. ASSUME NEW i \in Issuers, Fail(i) \/ Expire(i), UNCHANGED observerVars
      PROVE  SharedTypeOK'
  BY <1>5, MineIsOrder DEF Fail, Expire, Return
<1>6. ASSUME NEW i \in Issuers, Write(i), UNCHANGED observerVars
      PROVE  SharedTypeOK'
  BY <1>6, MineIsOrder DEF Write
<1>7. ASSUME NEW i \in Issuers, Read(i), UNCHANGED observerVars
      PROVE  SharedTypeOK'
  BY <1>7, MineIsOrder, ConfirmedType DEF Read, Return
<1>8. CASE Take /\ UNCHANGED observerVars
  BY <1>8 DEF Take
<1>9. CASE Act /\ UNCHANGED observerVars
  <2>1. game.order \in Orders /\ game' = [game EXCEPT !.at = "acted"]
    BY <1>9 DEF Act, GameOK, Orders
  <2>2. game' \in [at : {"polling", "acting", "acted", "writing"}, order : Orders \cup {0}]
    BY <2>1
  <2>3. did' \in [Orders -> Outcomes]
    BY <1>9 DEF Act
  <2>4. runs' \in [Orders -> Nat]
    BY <1>9, <2>1 DEF Act
  <2>5. /\ UNCHANGED <<issued, size, lock, pc, mine, cmd, slot, crashes, quiet, report>>
        /\ UNCHANGED observerVars
    BY <1>9 DEF Act
  <2> QED
    BY <2>2, <2>3, <2>4, <2>5
<1>10. CASE OpenResult /\ UNCHANGED observerVars
  BY <1>10, NoResults DEF OpenResult, NoFile
<1>11. CASE CloseResult /\ UNCHANGED observerVars
  BY <1>11, NoResults DEF CloseResult, Resting, GameOK, Orders
<1>12. CASE (Crash /\ UNCHANGED observerVars) \/ TakeBlank
  BY <1>12, ConstantsOK DEF Crash, TakeBlank, Resting
<1>13. ASSUME NEW w \in Observers, LookAway(w)
       PROVE  SharedTypeOK'
  BY <1>13, MineIsOrder, NoResults, ConstantsOK DEF LookAway, Glance, NoFile, Resting
<1>14. ASSUME NEW w \in Observers, OpenCommand(w) \/ FillCommand(w) \/ LookBack(w)
       PROVE  SharedTypeOK'
  BY <1>14, MineIsOrder DEF OpenCommand, FillCommand, LookBack, Glance
<1> QED
  BY <1>0, <1>1, <1>2, <1>3, <1>4, <1>5, <1>6, <1>7, <1>8, <1>9, <1>10, <1>11, <1>12,
     <1>13, <1>14 DEF SharedNext, IssuerStep, Observed

(*---------------------------------------------------------------------------*)
(* Numbers and the lock.                                                      *)

\* The next number is nobody's yet.
LEMMA NextIsNew ==
    ASSUME SharedTypeOK, OwnNumbers
    PROVE  /\ issued + 1 # 0
           /\ \A i \in Issuers : mine[i] # issued + 1
           /\ \A w \in Observers : asks[w] # issued + 1
BY ConstantsOK DEF SharedTypeOK, TypeOK, Orders, OwnNumbers, Given

LEMMA OwnNumbersStep ==
    SharedTypeOK /\ OwnNumbers /\ [SharedNext]_sharedVars => OwnNumbers'
<1> SUFFICES ASSUME SharedTypeOK, OwnNumbers, [SharedNext]_sharedVars
             PROVE  OwnNumbers'
  OBVIOUS
<1> USE DEF OwnNumbers, SharedTypeOK, TypeOK, Orders, Orderly, observerVars
<1>1. ASSUME UNCHANGED <<mine, pc, look, asks>>, issued' \in {issued, issued + 1}
      PROVE  OwnNumbers'
  BY <1>1, ConstantsOK DEF Given, Distinct
<1>2. ASSUME NEW i \in Issuers, NEW k \in 0..MaxLines, Ask(i, k), UNCHANGED observerVars
      PROVE  OwnNumbers'
  <2>0. /\ issued \in Nat /\ issued' = issued + 1 /\ issued + 1 # 0
        /\ mine' = [mine EXCEPT ![i] = issued + 1] /\ pc' = [pc EXCEPT ![i] = "queued"]
        /\ UNCHANGED <<look, asks>>
    BY <1>2, ConstantsOK DEF Ask
  <2>1. Given'
    <3>1. \A j \in Issuers : mine'[j] <= issued' /\ (mine'[j] = 0 <=> pc'[j] = "idle")
      BY <2>0, ConstantsOK DEF Given
    <3>2. \A w \in Observers : asks'[w] <= issued' /\ (asks'[w] = 0 <=> look'[w] = "idle")
      BY <2>0, ConstantsOK DEF Given
    <3> QED
      BY <3>1, <3>2 DEF Given
  <2>2. Distinct'
    BY <1>2, NextIsNew DEF Ask, Distinct
  <2> QED
    BY <2>1, <2>2
<1>3. ASSUME NEW i \in Issuers, Enter(i) \/ Clear(i) \/ Write(i), UNCHANGED observerVars
      PROVE  OwnNumbers'
  <2>1. pc[i] # "idle" /\ UNCHANGED <<issued, mine>>
        /\ \E at \in {"clearing", "writing", "waiting"} : pc' = [pc EXCEPT ![i] = at]
    BY <1>3 DEF Enter, Clear, Write
  <2>2. Given'
    BY <1>3, <2>1 DEF Given
  <2>3. Distinct'
    BY <1>3, <2>1 DEF Distinct
  <2> QED
    BY <2>2, <2>3
<1>4. ASSUME NEW i \in Issuers, Fail(i) \/ Read(i) \/ Expire(i), UNCHANGED observerVars
      PROVE  OwnNumbers'
  <2>1. mine' = [mine EXCEPT ![i] = 0] /\ pc' = [pc EXCEPT ![i] = "idle"] /\ issued' = issued
    BY <1>4 DEF Fail, Read, Expire, Return
  <2>2. Given'
    BY <1>4, <2>1, ConstantsOK DEF Given
  <2>3. Distinct'
    BY <1>4, <2>1 DEF Distinct
  <2> QED
    BY <2>2, <2>3
<1>5. ASSUME NEW w \in Observers, LookAway(w)
      PROVE  OwnNumbers'
  <2>0. /\ issued \in Nat /\ issued' = issued + 1 /\ issued + 1 # 0
        /\ asks' = [asks EXCEPT ![w] = issued + 1] /\ look' = [look EXCEPT ![w] = "opening"]
        /\ UNCHANGED <<pc, mine>>
    BY <1>5, ConstantsOK DEF LookAway, Glance
  <2>1. Given'
    <3>1. \A i \in Issuers : mine'[i] <= issued' /\ (mine'[i] = 0 <=> pc'[i] = "idle")
      BY <2>0, ConstantsOK DEF Given
    <3>2. \A v \in Observers : asks'[v] <= issued' /\ (asks'[v] = 0 <=> look'[v] = "idle")
      BY <2>0, ConstantsOK DEF Given
    <3> QED
      BY <3>1, <3>2 DEF Given
  <2>2. Distinct'
    BY <1>5, NextIsNew DEF LookAway, Distinct
  <2> QED
    BY <2>1, <2>2
<1>6. ASSUME NEW w \in Observers, OpenCommand(w) \/ FillCommand(w)
      PROVE  OwnNumbers'
  BY <1>6 DEF OpenCommand, FillCommand, Glance, Given, Distinct
<1>7. ASSUME NEW w \in Observers, LookBack(w)
      PROVE  OwnNumbers'
  BY <1>7, ConstantsOK DEF LookBack, Glance, Given, Distinct
<1>8. ASSUME NEW i \in Issuers, Unavailable(i), UNCHANGED observerVars
      PROVE  OwnNumbers'
  BY <1>1, <1>8 DEF Unavailable
<1>9. CASE (Take \/ Act \/ OpenResult \/ CloseResult \/ Crash) /\ UNCHANGED observerVars
  BY <1>1, <1>9 DEF Take, Act, OpenResult, CloseResult, Crash
<1>10. CASE TakeBlank \/ UNCHANGED sharedVars
  BY <1>1, <1>10 DEF TakeBlank, sharedVars, vars
<1> QED
  BY <1>2, <1>3, <1>4, <1>5, <1>6, <1>7, <1>8, <1>9, <1>10
  DEF SharedNext, IssuerStep, Observed

LEMMA ExclusiveStep ==
    SharedTypeOK /\ Exclusive /\ [SharedNext]_sharedVars => Exclusive'
<1> SUFFICES ASSUME SharedTypeOK, Exclusive, [SharedNext]_sharedVars
             PROVE  Exclusive'
  OBVIOUS
<1> USE DEF Exclusive, SharedTypeOK, TypeOK
<1>1. ASSUME UNCHANGED <<pc, lock>> PROVE Exclusive'
  BY <1>1
<1>2. ASSUME NEW i \in Issuers, NEW k \in 0..MaxLines, Ask(i, k) PROVE Exclusive'
  BY <1>2 DEF Ask
<1>3. ASSUME NEW i \in Issuers, Enter(i) PROVE Exclusive'
  BY <1>3, ConstantsOK DEF Enter
<1>4. ASSUME NEW i \in Issuers, Clear(i) \/ Write(i) PROVE Exclusive'
  BY <1>4 DEF Clear, Write
<1>5. ASSUME NEW i \in Issuers, Fail(i) \/ Read(i) \/ Expire(i) PROVE Exclusive'
  BY <1>5, ConstantsOK DEF Fail, Read, Expire, Return
<1> QED
  BY <1>1, <1>2, <1>3, <1>4, <1>5
  DEF SharedNext, IssuerStep, Observed, Unavailable, Take, Act, OpenResult, CloseResult,
      Crash, TakeBlank, LookAway, OpenCommand, FillCommand, LookBack, Orderly, sharedVars, vars

(*---------------------------------------------------------------------------*)
(* What was not sent yet.                                                     *)

\* An order is not unsent a second time.
LEMMA UnsentBefore ==
    ASSUME SharedTypeOK, OwnNumbers, [SharedNext]_sharedVars, NEW n \in Orders, Unsent(n)'
    PROVE  Unsent(n)
<1> USE DEF Unsent, SharedTypeOK, TypeOK, Orders, Orderly, observerVars
<1>1. ASSUME UNCHANGED <<mine, pc, look, asks>>, issued' \in {issued, issued + 1}
      PROVE  Unsent(n)
  BY <1>1, ConstantsOK
<1>2. ASSUME NEW i \in Issuers, NEW k \in 0..MaxLines, Ask(i, k), UNCHANGED observerVars
      PROVE  Unsent(n)
  BY <1>2, ConstantsOK DEF Ask
<1>3. ASSUME NEW i \in Issuers, Enter(i) \/ Clear(i) \/ Write(i), UNCHANGED observerVars
      PROVE  Unsent(n)
  BY <1>3 DEF Enter, Clear, Write
<1>4. ASSUME NEW i \in Issuers, Fail(i) \/ Read(i) \/ Expire(i), UNCHANGED observerVars
      PROVE  Unsent(n)
  BY <1>4 DEF Fail, Read, Expire, Return
<1>5. ASSUME NEW w \in Observers, LookAway(w)
      PROVE  Unsent(n)
  BY <1>5, ConstantsOK DEF LookAway, Glance
<1>6. ASSUME NEW w \in Observers, OpenCommand(w) \/ FillCommand(w) \/ LookBack(w)
      PROVE  Unsent(n)
  BY <1>6 DEF OpenCommand, FillCommand, LookBack, Glance
<1>8. ASSUME NEW i \in Issuers, Unavailable(i), UNCHANGED observerVars
      PROVE  Unsent(n)
  BY <1>1, <1>8 DEF Unavailable
<1>9. CASE (Take \/ Act \/ OpenResult \/ CloseResult \/ Crash) /\ UNCHANGED observerVars
  BY <1>1, <1>9 DEF Take, Act, OpenResult, CloseResult, Crash
<1>10. CASE TakeBlank \/ UNCHANGED sharedVars
  BY <1>1, <1>10 DEF TakeBlank, sharedVars, vars
<1> QED
  BY <1>2, <1>3, <1>4, <1>5, <1>6, <1>8, <1>9, <1>10 DEF SharedNext, IssuerStep, Observed

\* What is written to the command file was sent.
LEMMA WriteSends ==
    ASSUME SharedTypeOK, OwnNumbers, NEW i \in Issuers, Write(i), UNCHANGED observerVars
    PROVE  ~Unsent(mine[i])'
<1>1. mine[i] # 0 /\ ~(mine[i] > issued)
  BY ConstantsOK DEF Write, OwnNumbers, Given, SharedTypeOK, TypeOK, Orders
<1> QED
  BY <1>1 DEF Write, OwnNumbers, Distinct, Unsent, SharedTypeOK, TypeOK, observerVars

LEMMA OpeningSends ==
    ASSUME SharedTypeOK, OwnNumbers, NEW w \in Observers, OpenCommand(w)
    PROVE  ~Unsent(asks[w])'
<1>1. asks[w] # 0 /\ ~(asks[w] > issued)
  BY ConstantsOK DEF OpenCommand, OwnNumbers, Given, SharedTypeOK, TypeOK, Orders
<1> QED
  BY <1>1 DEF OpenCommand, OwnNumbers, Distinct, Unsent, SharedTypeOK, TypeOK, Orderly, Glance

LEMMA UnsentStep ==
    /\ SharedTypeOK /\ OwnNumbers /\ UnsentIsUntouched /\ [SharedNext]_sharedVars
    => UnsentIsUntouched'
<1> SUFFICES ASSUME SharedTypeOK, OwnNumbers, UnsentIsUntouched, [SharedNext]_sharedVars,
                    NEW n \in Orders, Unsent(n)'
             PROVE  runs'[n] = 0 /\ cmd' # n /\ game'.order # n
  BY DEF UnsentIsUntouched
<1>1. runs[n] = 0 /\ cmd # n /\ game.order # n
  BY UnsentBefore DEF UnsentIsUntouched
<1>2. n # 0 /\ Resting.order = 0
  BY DEF Orders, Resting
<1> USE DEF SharedTypeOK, TypeOK, Orderly
<1>3. ASSUME UNCHANGED runs, cmd' \in {cmd, 0}, game'.order \in {game.order, cmd, 0}
      PROVE  runs'[n] = 0 /\ cmd' # n /\ game'.order # n
  BY <1>1, <1>2, <1>3
<1>4. ASSUME NEW i \in Issuers, NEW k \in 0..MaxLines,
             Ask(i, k) \/ Unavailable(i) \/ Enter(i) \/ Fail(i) \/ Read(i) \/ Expire(i)
      PROVE  UNCHANGED <<runs, cmd, game>>
  BY <1>4 DEF Ask, Unavailable, Enter, Fail, Read, Expire
<1>5. ASSUME NEW i \in Issuers, Clear(i)
      PROVE  runs'[n] = 0 /\ cmd' # n /\ game'.order # n
  BY <1>2, <1>3, <1>5 DEF Clear
<1>6. ASSUME NEW i \in Issuers, Write(i), UNCHANGED observerVars
      PROVE  runs'[n] = 0 /\ cmd' # n /\ game'.order # n
  BY <1>1, <1>6, WriteSends DEF Write
<1>7. CASE Take \/ OpenResult \/ CloseResult \/ Crash \/ TakeBlank
  BY <1>2, <1>3, <1>7 DEF Take, OpenResult, CloseResult, Crash, TakeBlank
<1>8. CASE Act
  BY <1>1, <1>8 DEF Act
<1>9. ASSUME NEW w \in Observers, LookAway(w) \/ FillCommand(w) \/ LookBack(w)
      PROVE  runs'[n] = 0 /\ cmd' # n /\ game'.order # n
  BY <1>2, <1>3, <1>9 DEF LookAway, FillCommand, LookBack
<1>10. ASSUME NEW w \in Observers, OpenCommand(w)
       PROVE  runs'[n] = 0 /\ cmd' # n /\ game'.order # n
  BY <1>1, <1>10, OpeningSends DEF OpenCommand
<1>11. CASE UNCHANGED sharedVars
  BY <1>1, <1>11 DEF sharedVars, vars
<1> QED
  BY <1>1, <1>4, <1>5, <1>6, <1>7, <1>8, <1>9, <1>10, <1>11, ConstantsOK
  DEF SharedNext, IssuerStep, Observed

(*---------------------------------------------------------------------------*)
(* What is in the file and in the game's hands.                               *)

\* An order about to be written was not acted on, and the game does not have it.
LEMMA AboutToSend ==
    ASSUME SharedTypeOK, OwnNumbers, UnsentIsUntouched
    PROVE  /\ \A i \in Issuers : pc[i] = "writing" =>
                 runs[mine[i]] = 0 /\ game.order # mine[i]
           /\ \A w \in Observers : look[w] = "opening" =>
                 runs[asks[w]] = 0 /\ game.order # asks[w]
BY MineIsOrder DEF UnsentIsUntouched, Unsent

LEMMA FileStep ==
    /\ SharedTypeOK /\ OwnNumbers /\ UnsentIsUntouched /\ FileIsFresh /\ GameOK
    /\ [SharedNext]_sharedVars
    => FileIsFresh'
<1> SUFFICES ASSUME SharedTypeOK, OwnNumbers, UnsentIsUntouched, FileIsFresh, GameOK,
                    [SharedNext]_sharedVars
             PROVE  FileIsFresh'
  OBVIOUS
<1> USE DEF FileIsFresh, SharedTypeOK, TypeOK, Orders, Orderly
<1>1. Resting.order = 0
  BY DEF Resting
<1>2. ASSUME UNCHANGED <<runs, cmd>>, game'.order \in {game.order, 0}
      PROVE  FileIsFresh'
  BY <1>2
<1>3. ASSUME NEW i \in Issuers, NEW k \in 0..MaxLines,
             Ask(i, k) \/ Unavailable(i) \/ Enter(i) \/ Fail(i) \/ Read(i) \/ Expire(i)
      PROVE  UNCHANGED <<runs, cmd, game>>
  BY <1>3 DEF Ask, Unavailable, Enter, Fail, Read, Expire
<1>4. ASSUME NEW i \in Issuers, Clear(i)
      PROVE  FileIsFresh'
  BY <1>1, <1>2, <1>4 DEF Clear
<1>5. ASSUME NEW i \in Issuers, Write(i)
      PROVE  FileIsFresh'
  BY <1>5, AboutToSend DEF Write
<1>6. CASE Take \/ TakeBlank
  BY <1>6 DEF Take, TakeBlank
<1>7. CASE Act
  BY <1>7, ConstantsOK DEF Act
<1>8. CASE OpenResult \/ CloseResult \/ Crash
  BY <1>1, <1>2, <1>8 DEF OpenResult, CloseResult, Crash
<1>9. ASSUME NEW w \in Observers, LookAway(w) \/ FillCommand(w) \/ LookBack(w)
      PROVE  FileIsFresh'
  BY <1>1, <1>2, <1>9 DEF LookAway, FillCommand, LookBack
<1>10. ASSUME NEW w \in Observers, OpenCommand(w)
       PROVE  FileIsFresh'
  BY <1>10, AboutToSend DEF OpenCommand
<1>11. CASE UNCHANGED sharedVars
  BY <1>11 DEF sharedVars, vars
<1> QED
  BY <1>2, <1>3, <1>4, <1>5, <1>6, <1>7, <1>8, <1>9, <1>10, <1>11, ConstantsOK
  DEF SharedNext, IssuerStep, Observed

\* An answer that no result gave credits nothing.
LEMMA NothingHeard ==
    ASSUME SharedTypeOK, NEW i \in Issuers, Unavailable(i) \/ Fail(i) \/ Expire(i),
           NEW m \in Orders
    PROVE  /\ report'[m].from \in {report[m].from, 0}
           /\ \/ report'[m].status \notin {"ok", "refused"}
              \/ report'[m] = report[m]
<1> USE DEF SharedTypeOK, TypeOK
<1>1. CASE Unavailable(i)
  <2>1. CASE m = issued + 1
    BY <1>1, <2>1 DEF Unavailable
  <2>2. CASE m # issued + 1
    BY <1>1, <2>2 DEF Unavailable
  <2> QED
    BY <2>1, <2>2
<1>2. CASE Fail(i) \/ Expire(i)
  BY <1>2 DEF Fail, Expire, Return
<1> QED
  BY <1>1, <1>2

LEMMA GameStepOK ==
    /\ SharedTypeOK /\ FileIsFresh /\ GameOK /\ Heard /\ [SharedNext]_sharedVars
    => GameOK'
<1> SUFFICES ASSUME SharedTypeOK, FileIsFresh, GameOK, Heard, [SharedNext]_sharedVars
             PROVE  GameOK'
  OBVIOUS
<1> USE DEF GameOK, Unheard, SharedTypeOK, TypeOK, Orders, Orderly
<1>1. ASSUME game' = Resting PROVE GameOK'
  BY <1>1 DEF Resting
<1>2. ASSUME UNCHANGED <<game, runs, slot>>,
             \A m \in Orders : report'[m].from \in {report[m].from, 0}
      PROVE  GameOK'
  BY <1>2, ConstantsOK
<1>3. ASSUME UNCHANGED <<game, runs, report>>, slot' = NoFile
      PROVE  GameOK'
  BY <1>3, ConstantsOK DEF NoFile
<1>4. ASSUME NEW i \in Issuers, NEW k \in 0..MaxLines, Ask(i, k) \/ Enter(i) \/ Write(i)
      PROVE  GameOK'
  BY <1>2, <1>4 DEF Ask, Enter, Write
<1>5. ASSUME NEW i \in Issuers, Unavailable(i) \/ Fail(i) \/ Expire(i)
      PROVE  GameOK'
  BY <1>2, <1>5, NothingHeard DEF Unavailable, Fail, Expire
<1>6. ASSUME NEW i \in Issuers, Read(i)
      PROVE  GameOK'
  <2>1. ASSUME NEW m \in Orders
        PROVE  report'[m].from \in {report[m].from, slot.of}
    BY <1>6 DEF Read, Return
  <2> QED
    BY <1>6, <2>1, ConstantsOK DEF Read
<1>7. ASSUME NEW i \in Issuers, Clear(i)
      PROVE  GameOK'
  BY <1>1, <1>3, <1>7 DEF Clear
<1>8. CASE Take
  BY <1>8 DEF Take, FileIsFresh, Resting
<1>9. CASE Act
  BY <1>9 DEF Act, Heard
<1>10. CASE OpenResult
  BY <1>10 DEF OpenResult, NoFile
<1>11. CASE CloseResult \/ Crash
  BY <1>1, <1>11 DEF CloseResult, Crash
<1>12. CASE TakeBlank \/ UNCHANGED sharedVars
  BY <1>2, <1>12 DEF TakeBlank, sharedVars, vars
<1>13. ASSUME NEW w \in Observers, LookAway(w)
       PROVE  GameOK'
  BY <1>1, <1>3, <1>13 DEF LookAway
<1>14. ASSUME NEW w \in Observers, OpenCommand(w) \/ FillCommand(w) \/ LookBack(w)
       PROVE  GameOK'
  BY <1>2, <1>14 DEF OpenCommand, FillCommand, LookBack
<1> QED
  BY <1>4, <1>5, <1>6, <1>7, <1>8, <1>9, <1>10, <1>11, <1>12, <1>13, <1>14, ConstantsOK
  DEF SharedNext, IssuerStep, Observed

(*---------------------------------------------------------------------------*)
(* What was told.                                                             *)

LEMMA HeardStep ==
    /\ SharedTypeOK /\ OwnNumbers /\ FileIsFresh /\ GameOK /\ Heard /\ SlotIsNew
    /\ [SharedNext]_sharedVars
    => Heard'
<1> SUFFICES ASSUME SharedTypeOK, OwnNumbers, FileIsFresh, GameOK, Heard, SlotIsNew,
                    [SharedNext]_sharedVars
             PROVE  Heard'
  OBVIOUS
<1> USE DEF Heard, Unheard, SharedTypeOK, TypeOK, Orders, Orderly
<1>1. ASSUME UNCHANGED <<runs, report>>, slot' \in {slot, NoFile}
      PROVE  Heard'
  BY <1>1, ConstantsOK DEF NoFile
<1>2. ASSUME NEW i \in Issuers, NEW k \in 0..MaxLines,
             Ask(i, k) \/ Enter(i) \/ Clear(i) \/ Write(i)
      PROVE  Heard'
  BY <1>1, <1>2 DEF Ask, Enter, Clear, Write
<1>3. ASSUME NEW i \in Issuers, Unavailable(i) \/ Fail(i) \/ Expire(i)
      PROVE  Heard'
  <2>1. UNCHANGED <<runs, slot>>
    BY <1>3 DEF Unavailable, Fail, Expire
  <2>2. ASSUME NEW m \in Orders
        PROVE  /\ report'[m].from \in {report[m].from, 0}
               /\ report'[m].status \in {"ok", "refused"} => report'[m] = report[m]
    BY <1>3, NothingHeard
  <2>3. ASSUME NEW n \in Orders, runs'[n] = 0 PROVE Unheard(n)'
    <3>1. Unheard(n)
      BY <2>1, <2>3
    <3>2. \A m \in Orders : report'[m].from # n
      BY <2>2, <3>1
    <3> QED
      BY <2>1, <3>1, <3>2
  <2>4. \A n, m \in Orders : report'[n].from = report'[m].from /\ report'[n].from # 0 => n = m
    BY <2>2
  <2>5. \A n \in Orders : report'[n].status \in {"ok", "refused"} => report'[n].from # 0
    BY <2>2
  <2> QED
    BY <2>1, <2>3, <2>4, <2>5
<1>4. ASSUME NEW i \in Issuers, Read(i)
      PROVE  Heard'
  <2>1. /\ slot.of \in Orders /\ slot.of # 0 /\ runs[slot.of] # 0
        /\ \A m \in Orders : report[m].from # slot.of
    BY <1>4 DEF Read, SlotIsNew
  <2>2. mine[i] \in Orders
    BY <1>4, MineIsOrder DEF Read
  <2>3. ASSUME NEW m \in Orders
        PROVE  IF m = mine[i] THEN report'[m].from = slot.of ELSE report'[m] = report[m]
    BY <1>4, <2>2 DEF Read, Return
  <2>4. UNCHANGED <<runs, slot>>
    BY <1>4 DEF Read
  <2>5. \A n \in Orders : runs'[n] = 0 => Unheard(n)'
    BY <2>1, <2>2, <2>3, <2>4
  <2>6. \A n, m \in Orders : report'[n].from = report'[m].from /\ report'[n].from # 0 => n = m
    <3> SUFFICES ASSUME NEW n \in Orders, NEW m \in Orders, n # m,
                        report'[n].from = report'[m].from, report'[n].from # 0
                 PROVE  FALSE
      OBVIOUS
    <3>1. CASE n # mine[i] /\ m # mine[i]
      BY <2>3, <3>1
    <3>2. CASE n = mine[i] \/ m = mine[i]
      BY <2>1, <2>3, <3>2
    <3> QED
      BY <3>1, <3>2
  <2>7. \A n \in Orders : report'[n].status \in {"ok", "refused"} => report'[n].from # 0
    BY <2>1, <2>3
  <2> QED
    BY <2>4, <2>5, <2>6, <2>7
<1>5. CASE Take \/ OpenResult \/ Crash \/ TakeBlank \/ UNCHANGED sharedVars
  BY <1>1, <1>5 DEF Take, OpenResult, Crash, TakeBlank, sharedVars, vars
<1>6. CASE Act
  <2>1. game.order \in Orders /\ runs[game.order] = 0
    BY <1>6 DEF Act, GameOK
  <2>2. /\ runs' = [runs EXCEPT ![game.order] = 1]
        /\ UNCHANGED <<slot, report>>
    BY <1>6, <2>1 DEF Act
  <2> QED
    BY <2>1, <2>2
<1>7. CASE CloseResult
  <2>1. slot'.of = game.order /\ UNCHANGED <<runs, report>>
    BY <1>7 DEF CloseResult
  <2>2. runs[game.order] # 0
    BY <1>7 DEF CloseResult, GameOK
  <2> QED
    BY <2>1, <2>2
<1>8. ASSUME NEW w \in Observers, Observed(w)
      PROVE  Heard'
  BY <1>1, <1>8 DEF Observed, LookAway, OpenCommand, FillCommand, LookBack
<1> QED
  BY <1>2, <1>3, <1>4, <1>5, <1>6, <1>7, <1>8, ConstantsOK DEF SharedNext, IssuerStep

LEMMA SlotStep ==
    /\ SharedTypeOK /\ Exclusive /\ GameOK /\ SlotIsNew /\ Exclusive'
    /\ [SharedNext]_sharedVars
    => SlotIsNew'
<1> SUFFICES ASSUME SharedTypeOK, Exclusive, GameOK, SlotIsNew, Exclusive',
                    [SharedNext]_sharedVars
             PROVE  SlotIsNew'
  OBVIOUS
<1> USE DEF SlotIsNew, SharedTypeOK, TypeOK, Orders, Orderly
<1>1. ASSUME slot'.of = 0 PROVE SlotIsNew'
  BY <1>1
<1>2. ASSUME UNCHANGED <<slot, report>>,
             \A i \in Issuers : pc'[i] \in {"writing", "waiting"} => pc[i] \in {"writing", "waiting"}
      PROVE  SlotIsNew'
  BY <1>2
<1>3. ASSUME NEW i \in Issuers, NEW k \in 0..MaxLines, Ask(i, k) \/ Enter(i) \/ Write(i)
      PROVE  SlotIsNew'
  BY <1>2, <1>3 DEF Ask, Enter, Write
<1>4. ASSUME NEW i \in Issuers, Unavailable(i)
      PROVE  SlotIsNew'
  BY <1>4, NothingHeard DEF Unavailable
<1>5. ASSUME NEW i \in Issuers, Clear(i)
      PROVE  SlotIsNew'
  BY <1>1, <1>5 DEF Clear, NoFile
<1>6. ASSUME NEW i \in Issuers, Fail(i) \/ Read(i) \/ Expire(i)
      PROVE  SlotIsNew'
  <2>1. pc[i] \in {"clearing", "writing", "waiting"} /\ pc' = [pc EXCEPT ![i] = "idle"]
    BY <1>6 DEF Fail, Read, Expire, Return
  <2> QED
    BY <2>1 DEF Exclusive
<1>7. CASE Take \/ Act \/ Crash \/ TakeBlank \/ UNCHANGED sharedVars
  BY <1>2, <1>7 DEF Take, Act, Crash, TakeBlank, sharedVars, vars
<1>8. CASE OpenResult
  BY <1>1, <1>8 DEF OpenResult, NoFile
<1>9. CASE CloseResult
  <2>1. \A m \in Orders : report'[m].from # slot'.of
    BY <1>9 DEF CloseResult, GameOK, Unheard
  <2> QED
    BY <2>1
<1>10. ASSUME NEW w \in Observers, LookAway(w)
       PROVE  SlotIsNew'
  BY <1>1, <1>10 DEF LookAway, NoFile
<1>11. ASSUME NEW w \in Observers, OpenCommand(w) \/ FillCommand(w) \/ LookBack(w)
       PROVE  SlotIsNew'
  BY <1>2, <1>11 DEF OpenCommand, FillCommand, LookBack
<1> QED
  BY <1>3, <1>4, <1>5, <1>6, <1>7, <1>8, <1>9, <1>10, <1>11, ConstantsOK
  DEF SharedNext, IssuerStep, Observed

(*---------------------------------------------------------------------------*)
(* What was said is what was done.                                            *)

\* What was acted on once stays as it was.
LEMMA DoneStays ==
    ASSUME SharedTypeOK, UnsentIsUntouched, GameOK, [SharedNext]_sharedVars,
           NEW n \in Orders, runs[n] = 1
    PROVE  runs'[n] = 1 /\ did'[n] = did[n] /\ size'[n] = size[n]
<1> USE DEF SharedTypeOK, TypeOK, Orderly
<1>1. ASSUME UNCHANGED <<runs, did, size>>
      PROVE  runs'[n] = 1 /\ did'[n] = did[n] /\ size'[n] = size[n]
  BY <1>1
<1>2. ASSUME NEW i \in Issuers, NEW k \in 0..MaxLines, Ask(i, k)
      PROVE  runs'[n] = 1 /\ did'[n] = did[n] /\ size'[n] = size[n]
  <2>1. n # issued + 1
    <3>1. issued \in Nat
      BY ConstantsOK
    <3>2. n = issued + 1 => n > issued
      BY <3>1
    <3>3. ~(n > issued)
      BY DEF UnsentIsUntouched, Unsent
    <3> QED
      BY <3>2, <3>3
  <2> QED
    BY <1>2, <2>1 DEF Ask
<1>3. CASE Act
  <2>1. n # game.order
    BY <1>3 DEF Act, GameOK
  <2> QED
    BY <1>3, <2>1 DEF Act
<1> QED
  BY <1>1, <1>2, <1>3 DEF SharedNext, IssuerStep, Observed, Unavailable, Enter, Clear, Fail, Write,
     Read, Expire, Return, Take, OpenResult, CloseResult, Crash, TakeBlank, LookAway, OpenCommand,
     FillCommand, LookBack, sharedVars, vars

\* So whether it succeeded stays as well, and what was confirmed of it.
LEMMA SuccessStays ==
    ASSUME SharedTypeOK, UnsentIsUntouched, GameOK, [SharedNext]_sharedVars,
           NEW n \in Orders, runs[n] = 1
    PROVE  /\ Succeeded(n) => Succeeded(n)'
           /\ report'[n] = report[n] /\ Carried(n) => Carried(n)'
           /\ DoneOnce(n) => DoneOnce(n)'
<1>1. runs'[n] = 1 /\ did'[n] = did[n] /\ size'[n] = size[n]
  BY DoneStays
<1> QED
  BY <1>1 DEF Succeeded, Carried, DoneOnce

\* An order was acted on once, or not at all.
LEMMA OnceAtMost ==
    ASSUME SharedTypeOK, Heard
    PROVE  \A n \in Orders : runs[n] = 0 \/ runs[n] = 1
<1> SUFFICES ASSUME NEW n \in Orders PROVE runs[n] = 0 \/ runs[n] = 1
  OBVIOUS
<1>1. runs[n] \in Nat
  BY DEF SharedTypeOK, TypeOK
<1>2. runs[n] <= 1
  BY DEF Heard
<1> QED
  BY <1>1, <1>2

LEMMA SlotIsTrueStep ==
    /\ SharedTypeOK /\ UnsentIsUntouched /\ GameOK /\ Heard /\ SlotIsTrue
    /\ [SharedNext]_sharedVars
    => SlotIsTrue'
<1> SUFFICES ASSUME SharedTypeOK, UnsentIsUntouched, GameOK, Heard, SlotIsTrue,
                    [SharedNext]_sharedVars, NEW n \in Orders
             PROVE  /\ DoneOnce(n)'
                    /\ slot'.of = n => /\ slot'.ok => Succeeded(n)'
                                       /\ size'[n] # 0 => slot'.results = did'[n]
  BY DEF SlotIsTrue
<1>0. runs[n] = 1 => /\ runs'[n] = 1 /\ did'[n] = did[n] /\ size'[n] = size[n]
                     /\ Succeeded(n) => Succeeded(n)'
  BY DoneStays, SuccessStays
<1>1. runs[n] = 0 \/ runs[n] = 1
  BY OnceAtMost
<1>2. DoneOnce(n)'
  <2>1. CASE Act
    <3>1. game.order \in Orders /\ UNCHANGED size
      BY <2>1 DEF Act, GameOK, SharedTypeOK, TypeOK
    <3>2. n # game.order => runs'[n] = runs[n]
      BY <2>1 DEF Act, SharedTypeOK, TypeOK
    <3>3. n = game.order /\ size[n] = 0 => Len(did'[n]) = 1
      BY <2>1, <3>1 DEF Act, SharedTypeOK, TypeOK
    <3> QED
      BY <1>0, <1>1, <3>1, <3>2, <3>3 DEF SlotIsTrue, DoneOnce
  <2>2. CASE UNCHANGED runs
    BY <1>0, <2>2 DEF SlotIsTrue, DoneOnce
  <2> QED
    BY <2>1, <2>2 DEF SharedNext, IssuerStep, Observed, Ask, Unavailable, Enter, Clear, Fail,
       Write, Read, Expire, Return, Take, OpenResult, CloseResult, Crash, TakeBlank, LookAway,
       OpenCommand, FillCommand, LookBack, Orderly, sharedVars, vars
<1>3. CASE slot' \in {slot, NoFile}
  <2>1. CASE slot' = NoFile
    BY <1>2, <2>1 DEF NoFile, Orders
  <2>2. CASE slot' = slot
    <3>1. slot.of = n => runs[n] = 1
      BY <1>1 DEF Heard, Unheard
    <3> QED
      BY <1>0, <1>2, <2>2, <3>1 DEF SlotIsTrue
  <2> QED
    BY <1>3, <2>1, <2>2
<1>4. CASE CloseResult
  <2>1. runs[game.order] = 1
    BY <1>4 DEF CloseResult, GameOK
  <2>2. /\ slot'.of = game.order
        /\ slot'.ok => Succeeded(game.order)
        /\ size[game.order] # 0 => slot'.results = did[game.order]
    BY <1>4 DEF CloseResult, Succeeded
  <2> QED
    BY <1>0, <1>2, <2>1, <2>2
<1>5. CloseResult \/ slot' \in {slot, NoFile}
  BY DEF SharedNext, IssuerStep, Observed, Ask, Unavailable, Enter, Clear, Fail,
     Write, Read, Expire, Return, Take, Act, OpenResult, Crash, TakeBlank, LookAway,
     OpenCommand, FillCommand, LookBack, Orderly, sharedVars, vars
<1> QED
  BY <1>3, <1>4, <1>5

LEMMA NothingYetStep ==
    /\ SharedTypeOK /\ OwnNumbers /\ NothingYet /\ [SharedNext]_sharedVars => NothingYet'
<1> SUFFICES ASSUME SharedTypeOK, OwnNumbers, NothingYet, [SharedNext]_sharedVars
             PROVE  NothingYet'
  OBVIOUS
<1> USE DEF NothingYet, NotYetTold, SharedTypeOK, TypeOK, Orders, Orderly, observerVars
<1>0. issued \in Nat /\ (issued < MaxOrders => issued + 1 \in Orders)
  BY MineIsOrder, ConstantsOK
<1>1. ASSUME UNCHANGED <<mine, pc, quiet, report>>, issued' \in {issued, issued + 1}
      PROVE  NothingYet'
  <2>1. \A n \in Orders : n > issued' => n > issued
    BY <1>0, <1>1
  <2> QED
    BY <1>1, <2>1
<1>2. ASSUME NEW i \in Issuers, NEW k \in 0..MaxLines, Ask(i, k), UNCHANGED observerVars
      PROVE  NothingYet'
  <2>1. issued + 1 \in Orders /\ issued + 1 > issued /\ issued + 1 # 0
    BY <1>0, <1>2 DEF Ask
  <2>2. \A n \in Orders : n > issued + 1 => n > issued
    BY <1>0
  <2> QED
    BY <1>2, <2>1, <2>2 DEF Ask
<1>3. ASSUME NEW i \in Issuers, Enter(i) \/ Write(i), UNCHANGED observerVars
      PROVE  NothingYet'
  <2>1. /\ UNCHANGED <<issued, mine, quiet, report>>
        /\ \A j \in Issuers : pc'[j] \in {"queued", "clearing"} => pc[j] \in {"queued", "clearing"}
    BY <1>3 DEF Enter, Write
  <2> QED
    BY <2>1
<1>4. ASSUME NEW i \in Issuers, Clear(i), UNCHANGED observerVars
      PROVE  NothingYet'
  <2>1. /\ pc' = [pc EXCEPT ![i] = "writing"] /\ quiet' \subseteq quiet \cup {mine[i]}
        /\ UNCHANGED <<issued, mine, report>> /\ pc[i] = "clearing"
    BY <1>4 DEF Clear
  <2>2. mine[i] \in Orders /\ ~(mine[i] > issued)
    BY <1>0, <2>1, MineIsOrder DEF OwnNumbers, Given
  <2>3. \A j \in Issuers : j # i /\ pc[j] # "idle" => mine[j] # mine[i]
    BY <2>2 DEF OwnNumbers, Distinct
  <2> QED
    BY <2>1, <2>2, <2>3
<1>5. ASSUME NEW i \in Issuers, Fail(i) \/ Read(i) \/ Expire(i), UNCHANGED observerVars
      PROVE  NothingYet'
  <2>1. /\ mine' = [mine EXCEPT ![i] = 0] /\ pc' = [pc EXCEPT ![i] = "idle"]
        /\ pc[i] # "idle" /\ UNCHANGED <<issued, quiet>>
        /\ \A n \in Orders : n # mine[i] => report'[n] = report[n]
    BY <1>5 DEF Fail, Read, Expire, Return
  <2>2. mine[i] \in Orders /\ ~(mine[i] > issued)
    BY <1>0, <2>1, MineIsOrder DEF OwnNumbers, Given
  <2>3. \A j \in Issuers : j # i /\ mine[j] # 0 => mine[j] # mine[i]
    BY <2>2 DEF OwnNumbers, Distinct
  <2>4. \A n \in Orders : n > issued' => n \notin quiet' /\ report'[n].status = "none"
    BY <2>1, <2>2
  <2>5. \A j \in Issuers : mine'[j] # 0 => j # i /\ mine'[j] = mine[j] /\ mine[j] \in Orders
    BY <2>1
  <2>6. \A j \in Issuers : mine'[j] # 0 => report'[mine'[j]].status = "none"
    BY <2>1, <2>3, <2>5
  <2>7. \A j \in Issuers : pc'[j] \in {"queued", "clearing"} => mine'[j] \notin quiet'
    BY <2>1
  <2> QED
    BY <2>4, <2>6, <2>7
<1>6. ASSUME NEW i \in Issuers, Unavailable(i), UNCHANGED observerVars
      PROVE  NothingYet'
  <2>1. issued + 1 \in Orders /\ issued + 1 > issued /\ issued + 1 # 0
    BY <1>0, <1>6 DEF Unavailable
  <2>2. \A n \in Orders : n > issued + 1 => n > issued /\ n # issued + 1
    BY <1>0
  <2>3. \A j \in Issuers : mine[j] # issued + 1
    BY NextIsNew
  <2>4. /\ UNCHANGED <<mine, pc, quiet>> /\ issued' = issued + 1
        /\ \A n \in Orders : n # issued + 1 => report'[n] = report[n]
    BY <1>6 DEF Unavailable
  <2> QED
    BY <2>1, <2>2, <2>3, <2>4
<1>7. CASE (Take \/ Act \/ OpenResult \/ CloseResult \/ Crash) /\ UNCHANGED observerVars
  BY <1>1, <1>7 DEF Take, Act, OpenResult, CloseResult, Crash
<1>8. CASE TakeBlank \/ UNCHANGED sharedVars
  BY <1>1, <1>8 DEF TakeBlank, sharedVars, vars
<1>9. ASSUME NEW w \in Observers, Observed(w)
      PROVE  NothingYet'
  BY <1>1, <1>9 DEF Observed, LookAway, OpenCommand, FillCommand, LookBack
<1> QED
  BY <1>2, <1>3, <1>4, <1>5, <1>6, <1>7, <1>8, <1>9 DEF SharedNext, IssuerStep

LEMMA AloneStep ==
    /\ SharedTypeOK /\ OwnNumbers /\ Exclusive /\ GameOK /\ NothingYet /\ AloneWithGame
    /\ [SharedNext]_sharedVars
    => AloneWithGame'
<1> SUFFICES ASSUME SharedTypeOK, OwnNumbers, Exclusive, GameOK, NothingYet, AloneWithGame,
                    [SharedNext]_sharedVars
             PROVE  AloneWithGame'
  OBVIOUS
<1> USE DEF AloneWithGame, Alone, SharedTypeOK, TypeOK, Orderly, observerVars
<1>0. Resting.order = 0 /\ NoFile.of = 0 /\ (game.at = "polling" <=> game.order = 0)
  BY DEF Resting, NoFile, GameOK
<1>1. ASSUME UNCHANGED <<pc, mine, quiet, crossed>>,
             {cmd', game'.order, slot'.of} \subseteq {0, cmd, game.order, slot.of}
      PROVE  AloneWithGame'
  <2> SUFFICES ASSUME NEW i \in Issuers, pc[i] \in {"writing", "waiting"}, Alone(mine[i])
               PROVE  /\ {cmd', game'.order, slot'.of} \subseteq {0, mine[i]}
                      /\ pc[i] = "writing" => cmd' = 0 /\ game'.order = 0 /\ slot'.of = 0
    BY <1>1
  <2> QED
    BY <1>1
<1>2. ASSUME NEW i \in Issuers, NEW k \in 0..MaxLines, Ask(i, k), UNCHANGED observerVars
      PROVE  AloneWithGame'
  BY <1>2 DEF Ask
<1>3. ASSUME NEW i \in Issuers, Enter(i), UNCHANGED observerVars
      PROVE  AloneWithGame'
  BY <1>3 DEF Enter
<1>4. ASSUME NEW i \in Issuers, Clear(i), UNCHANGED observerVars
      PROVE  AloneWithGame'
  <2>1. pc[i] = "clearing" /\ pc' = [pc EXCEPT ![i] = "writing"] /\ UNCHANGED <<mine, cmd, crossed>>
    BY <1>4 DEF Clear
  <2>2. \A j \in Issuers : pc'[j] \in {"writing", "waiting"} => j = i
    BY <2>1 DEF Exclusive
  <2>3. mine[i] \notin quiet
    BY <2>1 DEF NothingYet
  <2>4. mine[i] \in quiet' => cmd = 0 /\ game.at \in {"polling", "writing"}
    BY <1>4, <2>3 DEF Clear
  <2>5. mine[i] \in quiet' => cmd' = 0 /\ game'.order = 0 /\ slot'.of = 0
    BY <1>0, <1>4, <2>1, <2>4 DEF Clear
  <2> QED
    BY <2>1, <2>2, <2>5
<1>5. ASSUME NEW i \in Issuers, Write(i), UNCHANGED observerVars
      PROVE  AloneWithGame'
  <2>1. /\ pc[i] = "writing" /\ pc' = [pc EXCEPT ![i] = "waiting"] /\ cmd' = mine[i]
        /\ UNCHANGED <<mine, game, slot, quiet, crossed>>
    BY <1>5 DEF Write
  <2>2. \A j \in Issuers : pc'[j] \in {"writing", "waiting"} => j = i
    BY <2>1 DEF Exclusive
  <2> QED
    BY <2>1, <2>2
<1>6. ASSUME NEW i \in Issuers, Fail(i) \/ Read(i) \/ Expire(i), UNCHANGED observerVars
      PROVE  AloneWithGame'
  <2>1. /\ mine' = [mine EXCEPT ![i] = 0] /\ pc' = [pc EXCEPT ![i] = "idle"]
        /\ UNCHANGED <<cmd, game, slot, quiet, crossed>>
    BY <1>6 DEF Fail, Read, Expire, Return
  <2> QED
    BY <2>1
<1>7. CASE (Take \/ Act \/ OpenResult \/ CloseResult \/ Crash) /\ UNCHANGED observerVars
  BY <1>0, <1>1, <1>7 DEF Take, Act, OpenResult, CloseResult, Crash
<1>8. CASE TakeBlank \/ UNCHANGED sharedVars
  BY <1>1, <1>8 DEF TakeBlank, sharedVars, vars
<1>9. ASSUME NEW i \in Issuers, Unavailable(i), UNCHANGED observerVars
      PROVE  AloneWithGame'
  BY <1>1, <1>9 DEF Unavailable
<1>10. ASSUME NEW w \in Observers, LookAway(w) \/ FillCommand(w) \/ LookBack(w)
       PROVE  AloneWithGame'
  BY <1>0, <1>1, <1>10 DEF LookAway, FillCommand, LookBack
<1>11. ASSUME NEW w \in Observers, OpenCommand(w)
       PROVE  AloneWithGame'
  <2>1. /\ UNCHANGED <<pc, mine>>
        /\ \A i \in Issuers : pc[i] \in {"writing", "waiting"} => mine[i] \in crossed'
    BY <1>11 DEF OpenCommand
  <2> QED
    BY <2>1
<1> QED
  BY <1>2, <1>3, <1>4, <1>5, <1>6, <1>7, <1>8, <1>9, <1>10, <1>11 DEF SharedNext, IssuerStep, Observed

LEMMA ToldStep ==
    ASSUME SharedTypeOK, OwnNumbers, UnsentIsUntouched, GameOK, Heard, SlotIsTrue, NothingYet,
           AloneWithGame, ToldIsTrue, [SharedNext]_sharedVars
    PROVE  ToldIsTrue'
<1> DEFINE Told(n, m) == report[n].status \in {"ok", "refused"} /\ report[n].from = m
           True(n, m) == /\ report[n].status = "ok" => Succeeded(m)
                         /\ Alone(n) => m = n /\ Carried(n)
<1> SUFFICES ASSUME NEW n \in Orders, NEW m \in Orders, Told(n, m)' PROVE True(n, m)'
  BY DEF ToldIsTrue
<1>1. \A k \in Orders : ~Unheard(k) => runs[k] = 1
  BY OnceAtMost DEF Heard
<1>2. ASSUME report'[n] = report[n], Alone(n)' => Alone(n)
      PROVE  True(n, m)'
  <2>1. runs[m] = 1 /\ True(n, m)
    BY <1>1, <1>2 DEF Unheard, ToldIsTrue
  <2> QED
    BY <1>2, <2>1, SuccessStays
<1>3. ASSUME UNCHANGED <<quiet, report>>, crossed \subseteq crossed' PROVE True(n, m)'
  BY <1>2, <1>3 DEF Alone
<1>4. ASSUME NEW i \in Issuers, Clear(i), UNCHANGED observerVars PROVE True(n, m)'
  <2>1. /\ pc[i] = "clearing" /\ quiet' \subseteq quiet \cup {mine[i]}
        /\ UNCHANGED <<report, crossed>>
    BY <1>4 DEF Clear, observerVars
  <2>2. mine[i] \in Orders /\ mine[i] # 0
    BY <2>1, MineIsOrder DEF Orders
  <2>3. n # mine[i]
    BY <2>1, <2>2 DEF NothingYet, NotYetTold
  <2>4. Alone(n)' => Alone(n)
    BY <2>1, <2>3 DEF Alone
  <2> QED
    BY <1>2, <2>1, <2>4
<1>5. ASSUME NEW i \in Issuers, Unavailable(i) \/ Fail(i) \/ Expire(i), UNCHANGED observerVars
      PROVE  True(n, m)'
  <2>1. Alone(n)' = Alone(n)
    BY <1>5 DEF Unavailable, Fail, Expire, observerVars, Alone
  <2>2. report'[n] = report[n]
    BY <1>5, NothingHeard
  <2> QED
    BY <1>2, <2>1, <2>2
<1>6. ASSUME NEW i \in Issuers, Read(i), UNCHANGED observerVars PROVE True(n, m)'
  <2>1. /\ pc[i] = "waiting" /\ slot.of \in Orders
        /\ UNCHANGED <<quiet, crossed, did, size>>
    BY <1>6 DEF Read, observerVars, SharedTypeOK, TypeOK, Orders
  <2>2. mine[i] \in Orders /\ Alone(n)' = Alone(n)
    BY <2>1, MineIsOrder DEF Alone
  <2>3. CASE n # mine[i]
    <3>1. report'[n] = report[n]
      BY <1>6, <2>3 DEF Read, Return, SharedTypeOK, TypeOK
    <3> QED
      BY <1>2, <2>2, <3>1
  <2>4. CASE n = mine[i]
    <3>1. /\ slot.of = m
          /\ report'[n].status = "ok" => slot.ok
          /\ report'[n].confirmed = Confirmed(n)
      BY <1>6, <2>2, <2>4 DEF Read, Return, SharedTypeOK, TypeOK
    <3>2. report'[n].status = "ok" => Succeeded(m)'
      <4>1. slot.ok => Succeeded(m)
        BY <3>1 DEF SlotIsTrue
      <4>2. Succeeded(m) => Succeeded(m)'
        BY <2>1 DEF Succeeded
      <4> QED
        BY <3>1, <4>1, <4>2
    <3>3. ASSUME Alone(n) PROVE m = n /\ \A j \in Confirmed(n) : j <= Len(did[n]) /\ did[n][j]
      <4>1. m = n
        BY <2>1, <2>4, <3>1, <3>3 DEF AloneWithGame, Orders
      <4>2. runs[n] = 1
        BY <1>1, <3>1, <4>1 DEF Unheard
      <4>3. CASE size[n] = 0
        <5>1. Len(did[n]) = 1
          BY <4>2, <4>3 DEF SlotIsTrue, DoneOnce
        <5>2. 1 \in DOMAIN did[n]
          <6>0. did[n] \in Outcomes
            BY DEF SharedTypeOK, TypeOK
          <6>1. PICK k \in 0..MaxLines : did[n] \in [1..k -> BOOLEAN]
            BY <6>0 DEF Outcomes
          <6>2. Len(did[n]) = k
            BY <6>1, ConstantsOK
          <6> QED
            BY <5>1, <6>1, <6>2
        <5>3. slot.ok => did[n][1]
          BY <3>1, <4>1, <5>2 DEF SlotIsTrue, Succeeded
        <5>4. Confirmed(n) = IF slot.ok THEN {1} ELSE {}
          BY <4>3 DEF Confirmed
        <5> QED
          BY <4>1, <5>1, <5>3, <5>4
      <4>4. CASE size[n] # 0
        <5>1. slot.results = did[n]
          BY <3>1, <4>1, <4>4 DEF SlotIsTrue
        <5>2. Confirmed(n) = {j \in 1..size[n] : j <= Len(slot.results) /\ slot.results[j]}
          BY <4>4 DEF Confirmed
        <5> QED
          BY <4>1, <5>1, <5>2
      <4> QED
        BY <4>3, <4>4
    <3>4. Alone(n)' => m = n /\ Carried(n)'
      BY <2>1, <2>2, <3>1, <3>3 DEF Carried
    <3> QED
      BY <3>2, <3>4
  <2> QED
    BY <2>3, <2>4
<1>7. ASSUME NEW i \in Issuers, NEW k \in 0..MaxLines,
             Ask(i, k) \/ Enter(i) \/ Write(i), UNCHANGED observerVars
      PROVE  True(n, m)'
  BY <1>3, <1>7 DEF Ask, Enter, Write, observerVars
<1>8. CASE \/ (Take \/ Act \/ OpenResult \/ CloseResult \/ Crash) /\ UNCHANGED observerVars
           \/ TakeBlank \/ UNCHANGED sharedVars
  BY <1>3, <1>8 DEF Take, Act, OpenResult, CloseResult, Crash, TakeBlank, Orderly, sharedVars, vars,
     observerVars
<1>9. ASSUME NEW w \in Observers, Observed(w) PROVE True(n, m)'
  BY <1>3, <1>9 DEF Observed, LookAway, OpenCommand, FillCommand, LookBack, Orderly
<1> HIDE DEF True
<1> QED
  BY <1>4, <1>5, <1>6, <1>7, <1>8, <1>9, ConstantsOK DEF SharedNext, IssuerStep

(*---------------------------------------------------------------------------*)
(* The theorems.                                                              *)

LEMMA ChannelBegins == SharedInit => ChannelInv
<1> SUFFICES ASSUME SharedInit PROVE ChannelInv
  OBVIOUS
<1>1. SharedTypeOK
  BY Types
<1>2. OwnNumbers /\ Exclusive /\ UnsentIsUntouched /\ FileIsFresh
  BY ConstantsOK DEF SharedInit, Init, OwnNumbers, Given, Distinct, Exclusive,
     UnsentIsUntouched, FileIsFresh, Orders, Resting
<1>3. GameOK /\ Heard /\ SlotIsNew
  BY ConstantsOK DEF SharedInit, Init, GameOK, Heard, Unheard, SlotIsNew, Orders, Resting, NoFile, NoReport
<1>4. SlotIsTrue /\ NothingYet /\ AloneWithGame /\ ToldIsTrue
  BY ConstantsOK DEF SharedInit, Init, SlotIsTrue, DoneOnce, NothingYet, NotYetTold, AloneWithGame,
     ToldIsTrue, Orders, NoFile, NoReport
<1> QED
  BY <1>1, <1>2, <1>3, <1>4 DEF ChannelInv

LEMMA ChannelSteps == ChannelInv /\ [SharedNext]_sharedVars => ChannelInv'
BY TypeStep, OwnNumbersStep, ExclusiveStep, UnsentStep, FileStep, GameStepOK, HeardStep, SlotStep,
   SlotIsTrueStep, NothingYetStep, AloneStep, ToldStep
DEF ChannelInv

\* The command file and the result file keep the whole invariant, whatever threads,
\* observers and deaths of the game there are.
THEOREM ChannelInvariant == SharedSpec => []ChannelInv
BY ChannelBegins, ChannelSteps, PTL DEF SharedSpec

\* No order is acted on twice (orders.py: os.replace over the file, one write an order).
THEOREM ActedOnOnce == SharedSpec => []NeverReplayed
<1>1. ChannelInv => NeverReplayed
  BY DEF ChannelInv, Heard, NeverReplayed
<1> QED
  BY <1>1, ChannelInvariant, PTL

\* No result is credited to two orders (orders.py: the slot is cleared first).
THEOREM ResultCreditedOnce == SharedSpec => []CreditedOnce
<1>1. ChannelInv => CreditedOnce
  BY DEF ChannelInv, Heard, CreditedOnce
<1> QED
  BY <1>1, ChannelInvariant, PTL

\* "An unobserved result is never success" (orders.py:25), as far as it is kept: ok and
\* refused are said only of what the game acted on once, ok only if all of it succeeded,
\* and of the order itself whenever it had the channel to itself.
THEOREM SuccessWasSeen == SharedSpec => []NeverSuccessOnSilence
<1>1. ChannelInv => NeverSuccessOnSilence
  <2> SUFFICES ASSUME ChannelInv, NEW n \in Orders, report[n].status \in {"ok", "refused"}
               PROVE  /\ report[n].from # 0 /\ runs[report[n].from] = 1
                      /\ report[n].status = "ok" => Succeeded(report[n].from)
                      /\ n \in quiet \ crossed => report[n].from = n /\ Carried(n)
    BY DEF NeverSuccessOnSilence
  <2>1. report[n].from \in Orders /\ report[n].from # 0
    BY DEF ChannelInv, Heard, SharedTypeOK, TypeOK
  <2>2. runs[report[n].from] \in Nat /\ runs[report[n].from] <= 1 /\ runs[report[n].from] # 0
    BY <2>1 DEF ChannelInv, Heard, Unheard, SharedTypeOK, TypeOK
  <2>3. runs[report[n].from] = 1
    BY <2>2
  <2> QED
    BY <2>1, <2>3 DEF ChannelInv, ToldIsTrue, Alone
<1> QED
  BY <1>1, ChannelInvariant, PTL

(*---------------------------------------------------------------------------*)
(* The decision log: threads, records and files are of their types.           *)

Places == {"idle", "put", "putting", "deciding", "logging", "spans"}
Lines == Records \cup {Garbage}

ThreadsOK == /\ place \in [Deciders -> Places]
             /\ record = [d \in Deciders |-> record[d]]
             /\ \A d \in Deciders : Fits(place[d], record[d])

\* A record in the making is of the life it was begun in.
OfThisLife == \A d \in Deciders : place[d] # "idle" => record[d].boot = boot

\* One thread moves on and the others stay as they are.
LEMMA OneDecides ==
    ASSUME ThreadsOK, OfThisLife, boot' = boot, NEW d \in Deciders, NEW where \in Places, NEW r,
           place' = [place EXCEPT ![d] = where], record' = [record EXCEPT ![d] = r],
           Fits(where, r), where # "idle" => r.boot = boot
    PROVE  ThreadsOK' /\ OfThisLife'
<1>1. \A e \in Deciders : /\ place'[e] = IF e = d THEN where ELSE place[e]
                          /\ record'[e] = IF e = d THEN r ELSE record[e]
  BY DEF ThreadsOK
<1>2. place' \in [Deciders -> Places] /\ record' = [e \in Deciders |-> record'[e]]
  BY DEF ThreadsOK
<1> QED
  BY <1>1, <1>2 DEF ThreadsOK, OfThisLife

LEMMA PlaceMoves ==
    ASSUME ThreadsOK, OfThisLife, boot' = boot, NEW d \in Deciders, NEW where \in Places,
           place' = [place EXCEPT ![d] = where], record' = record,
           Fits(where, record[d]), place[d] # "idle"
    PROVE  ThreadsOK' /\ OfThisLife'
<1>1. \A e \in Deciders : place'[e] = IF e = d THEN where ELSE place[e]
  BY DEF ThreadsOK
<1>2. place' \in [Deciders -> Places]
  BY DEF ThreadsOK
<1> QED
  BY <1>1, <1>2 DEF ThreadsOK, OfThisLife

\* What is written down of a record that is begun.
LEMMA KeyIsView ==
    ASSUME NEW r, r \in Started \/ r \in Records
    PROVE  Key(r) \in Views
  BY DEF Key, Views, Started, Records

FilesOK ==
    /\ boot \in 1..MaxBoots /\ turn \in 1..MaxTurn
    /\ taken \in 0..MaxTaken /\ faults \in 0..MaxFaults /\ failures \in Nat
    /\ whole \subseteq Views /\ undone \subseteq Views
    /\ spoiled \subseteq Views \ whole
    /\ spoiled \subseteq undone \cup {Key(record[d]) : d \in {e \in Deciders : place[e] = "putting"}}
    /\ standing \subseteq Everything
    /\ log \in Seq(Lines)
    /\ open => Refused(log)
    /\ replied \subseteq Records /\ lossy \subseteq 1..boot

LogTypes == ThreadsOK /\ FilesOK /\ OfThisLife

LEMMA TypesAre == LogTypes => RecordsTypeOK
  BY DEF LogTypes, RecordsTypeOK, ThreadsOK, FilesOK, Places, Lines

\* A file that is half written has a thread on it.
LEMMA OthersWrite ==
    ASSUME NEW d \in Deciders, place[d] # "putting", NEW key \in spoiled,
           key \in undone \cup {Key(record[e]) : e \in {f \in Deciders : place[f] = "putting"}},
           \A e \in Deciders : e # d => place'[e] = place[e] /\ record'[e] = record[e]
    PROVE  key \in undone \cup {Key(record'[e]) : e \in {f \in Deciders : place'[f] = "putting"}}
  OBVIOUS

\* One more line, or the rest of a line that has no end.
LEMMA Grows ==
    ASSUME FilesOK, NEW r \in Lines, log' = IF open THEN log ELSE Append(log, r)
    PROVE  /\ log' \in Seq(Lines) /\ (Refused(log) => Refused(log'))
           /\ r = Garbage => Refused(log')
           /\ ~open => r \in ToSet(log')
           /\ DOMAIN log \subseteq DOMAIN log' /\ \A i \in DOMAIN log : log'[i] = log[i]
<1>1. log \in Seq(Lines)
  BY DEF FilesOK
<1>2. CASE open
  BY <1>1, <1>2 DEF FilesOK, Refused
<1>3. CASE ~open
  <2>1. /\ log' \in Seq(Lines) /\ DOMAIN log' = 1..Len(log) + 1 /\ DOMAIN log = 1..Len(log)
        /\ Len(log) \in Nat
        /\ log'[Len(log) + 1] = r /\ \A i \in 1..Len(log) : log'[i] = log[i]
    BY <1>1, <1>3
  <2>2. r \in ToSet(log')
    BY <2>1 DEF ToSet
  <2>3. ToSet(log) \subseteq ToSet(log')
    BY <2>1 DEF ToSet
  <2> QED
    BY <1>3, <2>1, <2>2, <2>3 DEF Refused
<1> QED
  BY <1>2, <1>3

LEMMA TypesBegin == RunLogInit => LogTypes
<1> SUFFICES ASSUME RunLogInit PROVE LogTypes
  OBVIOUS
<1>1. ThreadsOK /\ OfThisLife
  BY DEF RunLogInit, ThreadsOK, OfThisLife, Places, Fits
<1>2. log \in Seq(Lines)
  BY EmptySeq DEF RunLogInit
<1>3. FilesOK
  BY <1>2, RunLogBoundsOK DEF RunLogInit, FilesOK, Everything
<1> QED
  BY <1>1, <1>3 DEF LogTypes

LEMMA TypesTakeUp ==
    ASSUME LogTypes, NEW d \in Deciders, NEW s \in Surfaces, TakeUp(d, s)
    PROVE  LogTypes'
<1> DEFINE r == [n |-> taken + 1, boot |-> boot, turn |-> turn, surface |-> s, told |-> FALSE]
<1>1. ThreadsOK /\ FilesOK /\ OfThisLife /\ boot' = boot
  BY DEF LogTypes, TakeUp
<1>2. place' = [place EXCEPT ![d] = "put"] /\ record' = [record EXCEPT ![d] = r]
  BY DEF TakeUp, Goto
<1>3. taken' \in 0..MaxTaken /\ taken + 1 \in 1..MaxTaken
  BY <1>1, RunLogBoundsOK DEF TakeUp, FilesOK
<1>4. r \in Started /\ r.boot = boot
  BY <1>1, <1>3 DEF Started, FilesOK
<1> HIDE DEF r
<1>5. ThreadsOK' /\ OfThisLife'
  BY <1>1, <1>2, <1>4, OneDecides DEF Fits, Places
<1>6. \A e \in Deciders : e # d => place'[e] = place[e] /\ record'[e] = record[e]
  BY <1>1, <1>2 DEF ThreadsOK
<1>7. place[d] # "putting"
  BY DEF TakeUp
<1>8. \A key \in spoiled :
          key \in undone \cup {Key(record'[e]) : e \in {f \in Deciders : place'[f] = "putting"}}
  BY <1>1, <1>6, <1>7, OthersWrite DEF FilesOK
<1>9. FilesOK'
  BY <1>1, <1>3, <1>8 DEF TakeUp, FilesOK, disk, file, health
<1> QED
  BY <1>5, <1>9 DEF LogTypes

LEMMA TypesPut ==
    ASSUME LogTypes, NEW d \in Deciders, Put(d)
    PROVE  LogTypes'
<1> DEFINE key == Key(record[d])
           where == IF key \in whole \cup spoiled THEN "deciding" ELSE "putting"
<1>1. ThreadsOK /\ FilesOK /\ OfThisLife /\ boot' = boot /\ record' = record
  BY DEF LogTypes, Put
<1>2. /\ place' = [place EXCEPT ![d] = where] /\ place[d] = "put"
      /\ spoiled' = IF key \in whole \cup spoiled THEN spoiled ELSE spoiled \cup {key}
      /\ UNCHANGED <<boot, turn, taken, record, whole, undone, standing, file, health, faults,
                     replied>>
  BY DEF Put, Goto
<1>3. record[d] \in Started
  BY <1>1, <1>2 DEF ThreadsOK, Fits
<1>4. key \in Views
  BY <1>3, KeyIsView
<1> HIDE DEF key
<1>5. ThreadsOK' /\ OfThisLife'
  BY <1>1, <1>2, <1>3, PlaceMoves DEF Fits, Places
<1>6. \A e \in Deciders : e # d => place'[e] = place[e] /\ record'[e] = record[e]
  BY <1>1, <1>2 DEF ThreadsOK
<1>7. \A k \in spoiled' :
         k \in undone' \cup {Key(record'[e]) : e \in {f \in Deciders : place'[f] = "putting"}}
  <2>1. ASSUME NEW k \in spoiled
        PROVE k \in undone \cup {Key(record'[e]) : e \in {f \in Deciders : place'[f] = "putting"}}
    BY <1>1, <1>2, <1>6, OthersWrite DEF FilesOK
  <2>2. ASSUME key \notin whole \cup spoiled
        PROVE  key \in {Key(record'[e]) : e \in {f \in Deciders : place'[f] = "putting"}}
    BY <1>1, <1>2, <2>2 DEF key, ThreadsOK
  <2> QED
    BY <1>2, <2>1, <2>2
<1>8. FilesOK'
  BY <1>1, <1>2, <1>4, <1>7 DEF FilesOK, file, health
<1> QED
  BY <1>5, <1>8 DEF LogTypes

LEMMA TypesPutEnds ==
    ASSUME LogTypes, NEW d \in Deciders, PutEnds(d)
    PROVE  LogTypes'
<1> DEFINE key == Key(record[d])
<1>1. ThreadsOK /\ FilesOK /\ OfThisLife /\ boot' = boot /\ record' = record
  BY DEF LogTypes, PutEnds
<1>2. /\ place' = [place EXCEPT ![d] = "deciding"] /\ place[d] = "putting"
      /\ whole' = whole \cup {key} /\ spoiled' = spoiled \ {key}
      /\ UNCHANGED <<boot, turn, taken, record, undone, standing, file, health, faults, replied>>
  BY DEF PutEnds, Goto
<1>3. record[d] \in Started
  BY <1>1, <1>2 DEF ThreadsOK, Fits
<1>4. key \in Views
  BY <1>3, KeyIsView
<1>5. ThreadsOK' /\ OfThisLife'
  BY <1>1, <1>2, <1>3, PlaceMoves DEF Fits, Places
<1>6. \A e \in Deciders : e # d => place'[e] = place[e] /\ record'[e] = record[e]
  BY <1>1, <1>2 DEF ThreadsOK
<1>7. \A k \in spoiled' :
         k \in undone' \cup {Key(record'[e]) : e \in {f \in Deciders : place'[f] = "putting"}}
  <2> SUFFICES ASSUME NEW k \in spoiled, k # key
               PROVE k \in undone \cup {Key(record'[e]) : e \in {f \in Deciders : place'[f] = "putting"}}
    BY <1>2
  <2>1. k \in undone \cup {Key(record[e]) : e \in {f \in Deciders : place[f] = "putting"}}
    BY <1>1 DEF FilesOK
  <2> QED
    BY <1>6, <2>1
<1> HIDE DEF key
<1>8. FilesOK'
  BY <1>1, <1>2, <1>4, <1>7 DEF FilesOK, file, health
<1> QED
  BY <1>5, <1>8 DEF LogTypes

LEMMA TypesPutFails ==
    ASSUME LogTypes, NEW d \in Deciders, PutFails(d)
    PROVE  LogTypes'
<1> DEFINE key == Key(record[d])
<1>1. ThreadsOK /\ FilesOK /\ OfThisLife /\ boot' = boot
  BY DEF LogTypes, PutFails
<1>2. /\ place' = [place EXCEPT ![d] = "idle"] /\ record' = [record EXCEPT ![d] = Unmade]
      /\ place[d] = "putting"
      /\ undone' = undone \cup {key} /\ faults' = faults + 1 /\ faults < MaxFaults
      /\ UNCHANGED <<boot, turn, taken, whole, spoiled, standing, file, health, replied>>
  BY DEF PutFails, Goto, Fault
<1>3. key \in Views
  BY <1>1, <1>2, KeyIsView DEF ThreadsOK, Fits
<1>4. ThreadsOK' /\ OfThisLife'
  BY <1>1, <1>2, OneDecides DEF Fits, Places
<1>5. \A k \in spoiled' :
         k \in undone' \cup {Key(record'[e]) : e \in {f \in Deciders : place'[f] = "putting"}}
  <2> SUFFICES ASSUME NEW k \in spoiled, k # key
               PROVE k \in undone \cup {Key(record'[e]) : e \in {f \in Deciders : place'[f] = "putting"}}
    BY <1>2
  <2>1. k \in undone \cup {Key(record[e]) : e \in {f \in Deciders : place[f] = "putting"}}
    BY <1>1 DEF FilesOK
  <2>2. \A e \in Deciders : e # d => place'[e] = place[e] /\ record'[e] = record[e]
    BY <1>1, <1>2 DEF ThreadsOK
  <2> QED
    BY <2>1, <2>2
<1> HIDE DEF key
<1>6. faults' \in 0..MaxFaults
  BY <1>1, <1>2, RunLogBoundsOK DEF FilesOK
<1>7. FilesOK'
  BY <1>1, <1>2, <1>3, <1>5, <1>6 DEF FilesOK, file, health
<1> QED
  BY <1>4, <1>7 DEF LogTypes

LEMMA TypesDecide ==
    ASSUME LogTypes, NEW d \in Deciders, NEW answer \in Shapes, Decide(d, answer)
    PROVE  LogTypes'
<1> DEFINE shown == standing \ answer.hidden
           old == record[d]
           r == [n |-> old.n, boot |-> old.boot, turn |-> old.turn, surface |-> old.surface,
                 told |-> answer.told, tier |-> answer.tier, degraded |-> answer.degraded,
                 chosen |-> answer.chosen, inForce |-> shown,
                 followed |-> Shown(answer.followed, shown),
                 overrode |-> Shown(answer.overrode, shown),
                 unmeasured |-> answer.unmeasured \cap shown,
                 issued |-> IF answer.degraded THEN {} ELSE answer.issued,
                 rejected |-> answer.rejected]
<1>1. ThreadsOK /\ FilesOK /\ OfThisLife /\ boot' = boot
  BY DEF LogTypes, Decide
<1>2. /\ place' = [place EXCEPT ![d] = "logging"] /\ record' = [record EXCEPT ![d] = r]
      /\ place[d] = "deciding"
      /\ UNCHANGED <<boot, turn, taken, disk, file, health, faults, replied>>
      /\ standing' = standing \cup record'[d].issued
  <2>1. d \in DOMAIN record
    BY <1>1 DEF ThreadsOK
  <2> QED
    BY <2>1 DEF Decide, Goto
<1>3. old \in Started /\ old.boot = boot
  BY <1>1, <1>2 DEF ThreadsOK, Fits, OfThisLife
<1>4. {answer.told, answer.degraded, answer.rejected} \subseteq BOOLEAN
  BY ShapesOK
<1>5. shown \subseteq Everything /\ answer.issued \subseteq Everything
  BY <1>1 DEF FilesOK, Everything
<1>6. answer.tier \in {a.tier : a \in Shapes} /\ answer.chosen \in Chosen
  BY DEF Chosen
<1>7. r \in Records /\ r.boot = boot /\ r.issued \subseteq Everything
  <2> HIDE DEF shown, old
  <2> QED
    BY <1>3, <1>4, <1>5, <1>6 DEF Started, Records, Shown
<1> HIDE DEF r
<1>8. ThreadsOK' /\ OfThisLife'
  BY <1>1, <1>2, <1>7, OneDecides DEF Fits, Places
<1>9. \A e \in Deciders : e # d => place'[e] = place[e] /\ record'[e] = record[e]
  BY <1>1, <1>2 DEF ThreadsOK
<1>10. \A k \in spoiled :
         k \in undone \cup {Key(record'[e]) : e \in {f \in Deciders : place'[f] = "putting"}}
  BY <1>1, <1>2, <1>9, OthersWrite DEF FilesOK
<1>11. standing' \subseteq Everything
  <2>1. record'[d] = r
    BY <1>1, <1>2 DEF ThreadsOK
  <2> QED
    BY <1>1, <1>2, <1>7, <2>1 DEF FilesOK
<1>12. FilesOK'
  BY <1>1, <1>2, <1>10, <1>11 DEF FilesOK, disk, file, health
<1> QED
  BY <1>8, <1>12 DEF LogTypes

\* A step of a thread that has no file of the store open.
LEMMA StoreStays ==
    ASSUME ThreadsOK, FilesOK, NEW d \in Deciders, place[d] # "putting", NEW where \in Places, NEW r,
           place' = [place EXCEPT ![d] = where],
           record' = record \/ record' = [record EXCEPT ![d] = r],
           UNCHANGED <<spoiled, undone>>
    PROVE  \A k \in spoiled' :
              k \in undone' \cup {Key(record'[e]) : e \in {f \in Deciders : place'[f] = "putting"}}
<1>1. \A e \in Deciders : e # d => place'[e] = place[e] /\ record'[e] = record[e]
  BY DEF ThreadsOK
<1> QED
  BY <1>1, OthersWrite DEF FilesOK

LEMMA CutIsLine ==
    ASSUME FilesOK, Cut
    PROVE  log' \in Seq(Lines) /\ Refused(log')
<1>1. Garbage \in Lines
  BY DEF Lines
<1> QED
  BY <1>1, Grows DEF Cut, FilesOK

LEMMA TypesLog ==
    ASSUME LogTypes, NEW d \in Deciders, Log(d)
    PROVE  LogTypes'
<1>1. ThreadsOK /\ FilesOK /\ OfThisLife /\ boot' = boot /\ record' = record
  BY DEF LogTypes, Log
<1>2. /\ place' = [place EXCEPT ![d] = "spans"] /\ place[d] = "logging"
      /\ log' = (IF open THEN log ELSE Append(log, record[d])) /\ open' = FALSE
      /\ UNCHANGED <<boot, turn, taken, record, disk, standing, health, faults, replied>>
  BY DEF Log, Goto, Appended
<1>3. record[d] \in Records
  BY <1>1, <1>2 DEF ThreadsOK, Fits
<1>4. ThreadsOK' /\ OfThisLife'
  BY <1>1, <1>2, <1>3, PlaceMoves DEF Fits, Places
<1>5. log' \in Seq(Lines)
  BY <1>1, <1>2, <1>3, Grows DEF Lines
<1>6. \A k \in spoiled' :
         k \in undone' \cup {Key(record'[e]) : e \in {f \in Deciders : place'[f] = "putting"}}
  BY <1>1, <1>2, StoreStays DEF disk, Places
<1>7. FilesOK'
  BY <1>1, <1>2, <1>5, <1>6 DEF FilesOK, disk, health
<1> QED
  BY <1>4, <1>7 DEF LogTypes

LEMMA TypesLogFails ==
    ASSUME LogTypes, NEW d \in Deciders, LogFails(d)
    PROVE  LogTypes'
<1>1. ThreadsOK /\ FilesOK /\ OfThisLife /\ boot' = boot /\ record' = record
  BY DEF LogTypes, LogFails
<1>2. /\ place' = [place EXCEPT ![d] = "spans"] /\ place[d] = "logging"
      /\ Cut \/ UNCHANGED file
      /\ failures' = failures + 1 /\ lossy' = lossy \cup {boot}
      /\ faults < MaxFaults /\ faults' = faults + 1
      /\ UNCHANGED <<boot, turn, taken, record, disk, standing, replied>>
  BY DEF LogFails, Goto, Count, Fault
<1>3. record[d] \in Records
  BY <1>1, <1>2 DEF ThreadsOK, Fits
<1>4. ThreadsOK' /\ OfThisLife'
  BY <1>1, <1>2, <1>3, PlaceMoves DEF Fits, Places
<1>5. log' \in Seq(Lines) /\ (open' => Refused(log'))
  BY <1>1, <1>2, CutIsLine DEF FilesOK, file
<1>6. \A k \in spoiled' :
         k \in undone' \cup {Key(record'[e]) : e \in {f \in Deciders : place'[f] = "putting"}}
  BY <1>1, <1>2, StoreStays DEF disk, Places
<1>7. faults' \in 0..MaxFaults /\ lossy' \subseteq 1..boot /\ failures' \in Nat
  BY <1>1, <1>2, RunLogBoundsOK DEF FilesOK
<1>8. FilesOK'
  BY <1>1, <1>2, <1>5, <1>6, <1>7 DEF FilesOK, disk
<1> QED
  BY <1>4, <1>8 DEF LogTypes

LEMMA TypesSpans ==
    ASSUME LogTypes, NEW d \in Deciders, Spans(d)
    PROVE  LogTypes'
<1>1. ThreadsOK /\ FilesOK /\ OfThisLife /\ boot' = boot
  BY DEF LogTypes, Spans
<1>2. /\ place' = [place EXCEPT ![d] = "idle"] /\ record' = [record EXCEPT ![d] = Unmade]
      /\ place[d] = "spans"
      /\ UNCHANGED <<failures, lossy, faults>>
         \/ /\ failures' = failures + 1 /\ lossy' = lossy \cup {boot}
            /\ faults < MaxFaults /\ faults' = faults + 1
      /\ replied' = replied \cup {record[d]}
      /\ UNCHANGED <<boot, turn, taken, disk, standing, file>>
  BY DEF Spans, Goto, Count, Fault
<1>3. record[d] \in Records
  BY <1>1, <1>2 DEF ThreadsOK, Fits
<1>4. ThreadsOK' /\ OfThisLife'
  BY <1>1, <1>2, OneDecides DEF Fits, Places
<1>6. \A k \in spoiled' :
         k \in undone' \cup {Key(record'[e]) : e \in {f \in Deciders : place'[f] = "putting"}}
  BY <1>1, <1>2, StoreStays DEF disk, Places
<1>7. faults' \in 0..MaxFaults /\ lossy' \subseteq 1..boot /\ failures' \in Nat
  <2>1. CASE UNCHANGED <<failures, lossy, faults>>
    BY <1>1, <2>1 DEF FilesOK
  <2>2. CASE /\ failures' = failures + 1 /\ lossy' = lossy \cup {boot}
             /\ faults < MaxFaults /\ faults' = faults + 1
    BY <1>1, <2>2, RunLogBoundsOK DEF FilesOK
  <2> QED
    BY <1>2, <2>1, <2>2
<1>8. FilesOK'
  BY <1>1, <1>2, <1>3, <1>6, <1>7 DEF FilesOK, disk, file
<1> QED
  BY <1>4, <1>8 DEF LogTypes

LEMMA TypesRestart == ASSUME LogTypes, Restart PROVE LogTypes'
<1>1. ThreadsOK /\ FilesOK /\ OfThisLife
  BY DEF LogTypes
<1>2. /\ boot < MaxBoots /\ boot' = boot + 1 /\ faults < MaxFaults /\ faults' = faults + 1
      /\ Cut \/ UNCHANGED file
      /\ undone' = undone \cup {Key(record[d]) : d \in {e \in Deciders : place[e] = "putting"}}
      /\ place' = [d \in Deciders |-> "idle"] /\ record' = [d \in Deciders |-> Unmade]
      /\ failures' = 0
      /\ UNCHANGED <<turn, taken, whole, spoiled, standing, replied, lossy>>
  BY DEF Restart, Fault
<1>3. ThreadsOK' /\ OfThisLife'
  BY <1>2 DEF ThreadsOK, OfThisLife, Fits, Places
<1>4. log' \in Seq(Lines) /\ (open' => Refused(log'))
  BY <1>1, <1>2, CutIsLine DEF FilesOK, file
<1>5. boot' \in 1..MaxBoots /\ faults' \in 0..MaxFaults /\ lossy' \subseteq 1..boot'
  BY <1>1, <1>2, RunLogBoundsOK DEF FilesOK
<1>6. undone' \subseteq Views
  <2>1. ASSUME NEW d \in Deciders, place[d] = "putting" PROVE Key(record[d]) \in Views
    BY <1>1, <2>1, KeyIsView DEF ThreadsOK, Fits
  <2> QED
    BY <1>1, <1>2, <2>1 DEF FilesOK
<1>7. FilesOK'
  BY <1>1, <1>2, <1>4, <1>5, <1>6 DEF FilesOK
<1> QED
  BY <1>3, <1>7 DEF LogTypes

LEMMA TypesSteps == ASSUME LogTypes, [RunLogNext]_runLogVars PROVE LogTypes'
<1>1. ASSUME NEW d \in Deciders, NEW s \in Surfaces, TakeUp(d, s) PROVE LogTypes'
  BY <1>1, TypesTakeUp
<1>2. ASSUME NEW d \in Deciders, NEW answer \in Shapes, Decide(d, answer) PROVE LogTypes'
  BY <1>2, TypesDecide
<1>3. ASSUME NEW d \in Deciders, Put(d) \/ PutEnds(d) \/ PutFails(d) \/ Log(d) \/ LogFails(d)
                                 \/ Spans(d)
      PROVE  LogTypes'
  BY <1>3, TypesPut, TypesPutEnds, TypesPutFails, TypesLog, TypesLogFails, TypesSpans
<1>4. CASE NextTurn \/ Reload
  <2>1. turn' \in 1..MaxTurn
    BY <1>4, RunLogBoundsOK DEF NextTurn, Reload, LogTypes, FilesOK
  <2>2. UNCHANGED <<boot, taken, place, record, disk, standing, file, health, faults, replied>>
    BY <1>4 DEF NextTurn, Reload
  <2> QED
    BY <2>1, <2>2 DEF LogTypes, ThreadsOK, OfThisLife, FilesOK, disk, file, health
<1>5. CASE Restart
  BY <1>5, TypesRestart
<1>6. CASE UNCHANGED runLogVars
  BY <1>6 DEF runLogVars, LogTypes, ThreadsOK, OfThisLife, FilesOK, disk, file, health
<1> QED
  BY <1>1, <1>2, <1>3, <1>4, <1>5, <1>6 DEF RunLogNext

\* Threads, records and files are of their types, whatever is refused and wherever it dies.
THEOREM LogIsTyped == RunLogSpec => []RecordsTypeOK
<1> QED
  BY TypesBegin, TypesSteps, TypesAre, PTL DEF RunLogSpec

(*---------------------------------------------------------------------------*)
(* What can be lost.                                                          *)

Done == replied \cup {record[d] : d \in {e \in Deciders : place[e] = "spans"}}
Missing == {r \in Done : r \notin ToSet(log) /\ r.boot \notin lossy}
TornLines(lines) == {i \in DOMAIN lines : lines[i] = Garbage}

\* Each torn line swallows one decision more than it cuts short: while it has no end, none.
LossInv == /\ IsFiniteSet(Missing)
           /\ Cardinality(Missing) + (IF open THEN 1 ELSE 0) <= Cardinality(TornLines(log))

LEMMA TornIsFinite ==
    ASSUME NEW lines \in Seq(Lines)
    PROVE  IsFiniteSet(TornLines(lines)) /\ Cardinality(TornLines(lines)) \in Nat
<1>1. DOMAIN lines = 1..Len(lines) /\ Len(lines) \in Nat
  OBVIOUS
<1>2. IsFiniteSet(1..Len(lines))
  BY <1>1, FS_Interval
<1> QED
  BY <1>1, <1>2, FS_Subset, FS_CardinalityType DEF TornLines

\* Nothing more is lost by a step that leaves the log alone, or cuts a line.
LEMMA LossStays ==
    ASSUME LogTypes, LossInv, Missing' \subseteq Missing, log' = log, open' = open
    PROVE  LossInv'
<1>1. IsFiniteSet(Missing') /\ Cardinality(Missing') <= Cardinality(Missing)
  BY FS_Subset DEF LossInv
<1>2. Cardinality(Missing') \in Nat /\ Cardinality(Missing) \in Nat
      /\ Cardinality(TornLines(log)) \in Nat
  BY <1>1, TornIsFinite, FS_CardinalityType DEF LossInv, LogTypes, FilesOK
<1> QED
  BY <1>1, <1>2 DEF LossInv

LEMMA LossOfCut ==
    ASSUME LogTypes, LossInv, Missing' \subseteq Missing, Cut
    PROVE  LossInv'
<1>1. IsFiniteSet(Missing') /\ Cardinality(Missing') <= Cardinality(Missing)
  BY FS_Subset DEF LossInv
<1>2. CASE open
  <2>1. log' = log /\ open' = open
    BY <1>2 DEF Cut, LogTypes, FilesOK
  <2> QED
    BY <2>1, LossStays
<1>3. CASE ~open
  <2>0. log \in Seq(Lines) /\ Garbage \in Lines
    BY DEF LogTypes, FilesOK, Lines
  <2>1. /\ log' \in Seq(Lines) /\ DOMAIN log' = 1..Len(log) + 1 /\ DOMAIN log = 1..Len(log)
        /\ Len(log) \in Nat /\ open' = TRUE
        /\ log'[Len(log) + 1] = Garbage /\ \A i \in 1..Len(log) : log'[i] = log[i]
    BY <1>3, <2>0 DEF Cut
  <2>2. TornLines(log') = TornLines(log) \cup {Len(log) + 1} /\ Len(log) + 1 \notin TornLines(log)
    BY <2>1 DEF TornLines
  <2>3. Cardinality(TornLines(log')) = Cardinality(TornLines(log)) + 1
    BY <2>0, <2>2, TornIsFinite, FS_AddElement
  <2>4. Cardinality(Missing') \in Nat /\ Cardinality(Missing) \in Nat
        /\ Cardinality(TornLines(log)) \in Nat
    BY <1>1, <2>0, TornIsFinite, FS_CardinalityType DEF LossInv
  <2> QED
    BY <1>1, <1>3, <2>1, <2>3, <2>4 DEF LossInv
<1> QED
  BY <1>2, <1>3

\* What is appended to a line without an end is lost, and ends it.
LEMMA LossOfLine ==
    ASSUME LogTypes, LossInv, NEW r \in Records, Missing' \subseteq Missing \cup {r},
           Appended(r)
    PROVE  LossInv'
<1>0. log \in Seq(Lines) /\ r \in Lines
  BY DEF LogTypes, FilesOK, Lines
<1>1. CASE open
  <2>1. log' = log /\ open' = FALSE
    BY <1>1 DEF Appended
  <2>2. IsFiniteSet(Missing \cup {r})
        /\ Cardinality(Missing \cup {r}) <= Cardinality(Missing) + 1
        /\ Cardinality(Missing) \in Nat
    <3>1. IsFiniteSet(Missing) /\ Cardinality(Missing) \in Nat
      BY FS_CardinalityType DEF LossInv
    <3>2. /\ IsFiniteSet(Missing \cup {r})
          /\ \/ Cardinality(Missing \cup {r}) = Cardinality(Missing)
             \/ Cardinality(Missing \cup {r}) = Cardinality(Missing) + 1
      BY <3>1, FS_AddElement
    <3> QED
      BY <3>1, <3>2
  <2>3. IsFiniteSet(Missing') /\ Cardinality(Missing') <= Cardinality(Missing \cup {r})
    BY <2>2, FS_Subset
  <2>4. Cardinality(Missing') \in Nat /\ Cardinality(TornLines(log)) \in Nat
        /\ Cardinality(Missing \cup {r}) \in Nat
    BY <1>0, <2>2, <2>3, TornIsFinite, FS_CardinalityType
  <2> QED
    BY <1>1, <2>1, <2>2, <2>3, <2>4 DEF LossInv
<1>2. CASE ~open
  <2>1. /\ log' \in Seq(Lines) /\ DOMAIN log' = 1..Len(log) + 1 /\ DOMAIN log = 1..Len(log)
        /\ Len(log) \in Nat /\ open' = FALSE
        /\ log'[Len(log) + 1] = r /\ \A i \in 1..Len(log) : log'[i] = log[i]
    BY <1>0, <1>2 DEF Appended
  <2>2. r \in ToSet(log')
    BY <2>1 DEF ToSet
  <2>3. Missing' \subseteq Missing
    BY <2>2 DEF Missing
  <2>4. TornLines(log) \subseteq TornLines(log')
    BY <2>1 DEF TornLines
  <2>5. Cardinality(TornLines(log)) <= Cardinality(TornLines(log'))
    BY <2>1, <2>4, TornIsFinite, FS_Subset
  <2>6. IsFiniteSet(Missing') /\ Cardinality(Missing') <= Cardinality(Missing)
    BY <2>3, FS_Subset DEF LossInv
  <2>7. /\ Cardinality(Missing') \in Nat /\ Cardinality(Missing) \in Nat
        /\ Cardinality(TornLines(log)) \in Nat /\ Cardinality(TornLines(log')) \in Nat
    BY <1>0, <2>1, <2>6, TornIsFinite, FS_CardinalityType DEF LossInv
  <2> QED
    BY <1>2, <2>1, <2>5, <2>6, <2>7 DEF LossInv
<1> QED
  BY <1>1, <1>2

\* A step of one thread that neither had nor has its record out, of a log left alone.
LEMMA LossOfThread ==
    ASSUME LogTypes, LossInv, NEW d \in Deciders, NEW where \in Places, where # "spans", NEW r,
           place' = [place EXCEPT ![d] = where],
           record' = record \/ record' = [record EXCEPT ![d] = r],
           UNCHANGED <<log, open, replied, lossy>>
    PROVE  LossInv'
<1>1. \A e \in Deciders : place'[e] = "spans" => place[e] = "spans" /\ record'[e] = record[e]
  BY DEF LogTypes, ThreadsOK
<1>2. Missing' \subseteq Missing
  BY <1>1 DEF Missing, Done
<1> QED
  BY <1>2, LossStays

LEMMA LossOfSpans ==
    ASSUME LogTypes, LossInv, NEW d \in Deciders, Spans(d)
    PROVE  LossInv'
<1>1. /\ place' = [place EXCEPT ![d] = "idle"] /\ record' = [record EXCEPT ![d] = Unmade]
      /\ place[d] = "spans" /\ replied' = replied \cup {record[d]} /\ lossy \subseteq lossy'
      /\ log' = log /\ open' = open
  BY DEF Spans, Goto, Count, file
<1>2. \A e \in Deciders : place'[e] = "spans" => place[e] = "spans" /\ record'[e] = record[e]
  BY <1>1 DEF LogTypes, ThreadsOK
<1>3. Missing' \subseteq Missing
  BY <1>1, <1>2 DEF Missing, Done
<1> QED
  BY <1>1, <1>3, LossStays

LEMMA LossOfLog ==
    ASSUME LogTypes, LossInv, NEW d \in Deciders, Log(d)
    PROVE  LossInv'
<1>1. /\ place' = [place EXCEPT ![d] = "spans"] /\ record' = record /\ place[d] = "logging"
      /\ Appended(record[d]) /\ UNCHANGED <<replied, lossy>>
  BY DEF Log, Goto, health
<1>2. record[d] \in Records
  BY <1>1 DEF LogTypes, ThreadsOK, Fits
<1>3. ToSet(log) \subseteq ToSet(log')
  <2>1. DOMAIN log \subseteq DOMAIN log' /\ \A i \in DOMAIN log : log'[i] = log[i]
    BY <1>1, <1>2, Grows DEF LogTypes, Appended, Lines
  <2> QED
    BY <2>1 DEF ToSet
<1>4. \A e \in Deciders : place'[e] = "spans" => e = d \/ place[e] = "spans"
  BY <1>1 DEF LogTypes, ThreadsOK
<1>5. Missing' \subseteq Missing \cup {record[d]}
  BY <1>1, <1>3, <1>4 DEF Missing, Done
<1> QED
  BY <1>1, <1>2, <1>5, LossOfLine

\* A record whose line fails is of a life that counts the failure.
LEMMA LossOfLogFails ==
    ASSUME LogTypes, LossInv, NEW d \in Deciders, LogFails(d)
    PROVE  LossInv'
<1>1. /\ place' = [place EXCEPT ![d] = "spans"] /\ record' = record /\ place[d] = "logging"
      /\ Cut \/ UNCHANGED file
      /\ replied' = replied /\ lossy' = lossy \cup {boot}
  BY DEF LogFails, Goto, Count
<1>2. record[d].boot = boot
  BY <1>1 DEF LogTypes, OfThisLife
<1>3. ToSet(log) \subseteq ToSet(log')
  <2>0. Garbage \in Lines
    BY DEF Lines
  <2>1. DOMAIN log \subseteq DOMAIN log' /\ \A i \in DOMAIN log : log'[i] = log[i]
    BY <1>1, <2>0, Grows DEF LogTypes, Cut, file
  <2> QED
    BY <2>1 DEF ToSet
<1>4. \A e \in Deciders : place'[e] = "spans" => e = d \/ place[e] = "spans"
  BY <1>1 DEF LogTypes, ThreadsOK
<1>5. Missing' \subseteq Missing
  BY <1>1, <1>2, <1>3, <1>4 DEF Missing, Done
<1> QED
  BY <1>1, <1>5, LossOfCut, LossStays DEF file

LEMMA LossOfRestart ==
    ASSUME LogTypes, LossInv, Restart
    PROVE  LossInv'
<1>1. /\ place' = [d \in Deciders |-> "idle"] /\ UNCHANGED <<replied, lossy>>
      /\ Cut \/ UNCHANGED file
  BY DEF Restart
<1>2. ToSet(log) \subseteq ToSet(log')
  <2>0. Garbage \in Lines
    BY DEF Lines
  <2>1. DOMAIN log \subseteq DOMAIN log' /\ \A i \in DOMAIN log : log'[i] = log[i]
    BY <1>1, <2>0, Grows DEF LogTypes, Cut, file
  <2> QED
    BY <2>1 DEF ToSet
<1>3. Missing' \subseteq Missing
  BY <1>1, <1>2 DEF Missing, Done
<1> QED
  BY <1>1, <1>3, LossOfCut, LossStays DEF file

LEMMA LossSteps ==
    ASSUME LogTypes, LossInv, [RunLogNext]_runLogVars
    PROVE  LossInv'
<1>1. ASSUME NEW d \in Deciders, NEW s \in Surfaces, TakeUp(d, s) PROVE LossInv'
  <2>1. /\ place' = [place EXCEPT ![d] = "put"]
        /\ record' = [record EXCEPT ![d] = [n |-> taken + 1, boot |-> boot, turn |-> turn,
                                            surface |-> s, told |-> FALSE]]
        /\ UNCHANGED <<log, open, replied, lossy>>
    BY <1>1 DEF TakeUp, Goto, file, health
  <2> QED
    BY <2>1, LossOfThread DEF Places
<1>2. ASSUME NEW d \in Deciders, NEW answer \in Shapes, Decide(d, answer) PROVE LossInv'
  <2>1. /\ place' = [place EXCEPT ![d] = "logging"]
        /\ \E r : record' = [record EXCEPT ![d] = r]
        /\ UNCHANGED <<log, open, replied, lossy>>
    BY <1>2 DEF Decide, Goto, file, health
  <2> QED
    BY <2>1, LossOfThread DEF Places
<1>3. ASSUME NEW d \in Deciders, Put(d) \/ PutEnds(d) PROVE LossInv'
  <2>1. /\ place' = [place EXCEPT ![d] = "deciding"] \/ place' = [place EXCEPT ![d] = "putting"]
        /\ record' = record /\ UNCHANGED <<log, open, replied, lossy>>
    BY <1>3 DEF Put, PutEnds, Goto, file, health
  <2> QED
    BY <2>1, LossOfThread DEF Places
<1>4. ASSUME NEW d \in Deciders, PutFails(d) PROVE LossInv'
  <2>1. /\ place' = [place EXCEPT ![d] = "idle"] /\ record' = [record EXCEPT ![d] = Unmade]
        /\ UNCHANGED <<log, open, replied, lossy>>
    BY <1>4 DEF PutFails, Goto, file, health
  <2> QED
    BY <2>1, LossOfThread DEF Places
<1>5. ASSUME NEW d \in Deciders, Log(d) \/ LogFails(d) \/ Spans(d) PROVE LossInv'
  BY <1>5, LossOfLog, LossOfLogFails, LossOfSpans
<1>6. CASE NextTurn \/ Reload \/ UNCHANGED runLogVars
  <2>1. UNCHANGED <<place, record, log, open, replied, lossy>>
    BY <1>6 DEF NextTurn, Reload, runLogVars, file, health
  <2>2. Missing' \subseteq Missing
    BY <2>1 DEF Missing, Done
  <2> QED
    BY <2>1, <2>2, LossStays
<1>7. CASE Restart
  BY <1>7, LossOfRestart
<1> QED
  BY <1>1, <1>2, <1>3, <1>4, <1>5, <1>6, <1>7 DEF RunLogNext

LEMMA LossBegins == RunLogInit => LossInv
<1> SUFFICES ASSUME RunLogInit PROVE LossInv
  OBVIOUS
<1>1. Missing = {} /\ TornLines(log) = {} /\ ~open
  BY DEF RunLogInit, Missing, Done, TornLines
<1> QED
  BY <1>1, FS_EmptySet DEF LossInv

\* Of the decisions that were answered, no reader misses more than the log has torn lines,
\* but in a life whose telemetry says so (DecisionLog.write, Emitter.emit).
THEOREM FewAreLost == RunLogSpec => []LossIsBounded
<1>1. LogTypes /\ LossInv => LossIsBounded
  <2> SUFFICES ASSUME LogTypes, LossInv PROVE LossIsBounded
    OBVIOUS
  <2> DEFINE lost == {r \in replied : r \notin ToSet(log) /\ r.boot \notin lossy}
  <2>1. lost \subseteq Missing
    BY DEF Missing, Done
  <2>2. IsFiniteSet(lost) /\ Cardinality(lost) <= Cardinality(Missing)
    BY <2>1, FS_Subset DEF LossInv
  <2>3. /\ Cardinality(lost) \in Nat /\ Cardinality(Missing) \in Nat
        /\ Cardinality(TornLines(log)) \in Nat
    BY <2>2, TornIsFinite, FS_CardinalityType DEF LossInv, LogTypes, FilesOK
  <2>4. Numbered(log, LAMBDA r : r = Garbage) = Cardinality(TornLines(log))
    BY DEF Numbered, Quantify, TornLines
  <2>5. Cardinality(lost) <= Cardinality(TornLines(log))
    BY <2>2, <2>3 DEF LossInv
  <2> QED
    BY <2>4, <2>5 DEF LossIsBounded
<1> QED
  BY <1>1, LossBegins, LossSteps, TypesBegin, TypesSteps, PTL DEF RunLogSpec

(*---------------------------------------------------------------------------*)
(* What the carry report counts.  A property of every number is one of a set  *)
(* of them: the library has induction for an operator, which the provers      *)
(* cannot instantiate, and the least element of a set (WFMin), which they can. *)

LEMMA LeastNumber ==
    ASSUME NEW T, T \subseteq Nat, T # {}
    PROVE  \E x \in T : \A y \in T : x <= y
<1> DEFINE R == OpToRel(<, Nat)
<1>1. \A x, y \in Nat : <<x, y>> \in R <=> x < y
  BY DEF OpToRel
<1>2. IsWellFoundedOn(R, Nat)
  BY NatLessThanWellFounded
<1> HIDE DEF R
<1>3. PICK x \in T : \A y \in T : ~(<<y, x>> \in R)
  BY <1>2, WFMin
<1>4. ASSUME NEW y \in T PROVE x <= y
  <2>1. x \in Nat /\ y \in Nat /\ ~(y < x)
    BY <1>1, <1>3
  <2> QED
    BY <2>1
<1> QED
  BY <1>4

LEMMA Induction ==
    ASSUME NEW S, 0 \in S, \A n \in Nat : n \in S => n + 1 \in S
    PROVE  Nat \subseteq S
<1> DEFINE T == Nat \ S
<1> SUFFICES ASSUME T # {} PROVE FALSE
  OBVIOUS
<1>1. PICK x \in T : \A y \in T : x <= y
  BY LeastNumber
<1>2. x # 0 /\ x - 1 \in Nat /\ x - 1 \notin T
  BY <1>1
<1>3. (x - 1) + 1 \in S
  BY <1>2
<1> QED
  BY <1>1, <1>3

\* The funnel after line n, given the funnels before it.
FunnelAt(f, n, lines) ==
    IF n = 0 THEN EmptyFunnel
    ELSE IF Is(lines[n]) THEN Observe(lines[n], f[n - 1]) ELSE f[n - 1]

FunnelsOf(f, n, lines) == f = [m \in 0..n |-> FunnelAt(f, m, lines)]

LEMMA FunnelsReach ==
    ASSUME NEW lines
    PROVE  \A n \in Nat : \E f : FunnelsOf(f, n, lines)
<1> DEFINE S == {n \in Nat : \E f : FunnelsOf(f, n, lines)}
<1>1. 0 \in S
  <2> DEFINE f == [m \in 0..0 |-> EmptyFunnel]
  <2>1. FunnelsOf(f, 0, lines)
    BY DEF FunnelAt, FunnelsOf
  <2> QED
    BY <2>1
<1>2. ASSUME NEW n \in Nat, n \in S PROVE n + 1 \in S
  <2>1. PICK f : FunnelsOf(f, n, lines)
    BY <1>2
  <2> DEFINE g == [m \in 0..n + 1 |-> IF m <= n THEN f[m] ELSE FunnelAt(f, m, lines)]
  <2>2. \A m \in 0..n : f[m] = FunnelAt(f, m, lines)
    BY <2>1 DEF FunnelsOf
  <2>3. g = [m \in 0..n + 1 |-> g[m]] /\ \A m \in 0..n : g[m] = f[m]
    OBVIOUS
  <2>4. \A m \in 0..n + 1 : FunnelAt(g, m, lines) = FunnelAt(f, m, lines)
    <3> HIDE DEF g
    <3> TAKE m \in 0..n + 1
    <3>1. CASE m = 0
      BY <3>1 DEF FunnelAt
    <3>2. CASE m # 0
      <4>1. g[m - 1] = f[m - 1]
        <5>1. m - 1 \in 0..n
          BY <3>2
        <5> QED
          BY <2>3, <5>1
      <4> QED
        BY <3>2, <4>1 DEF FunnelAt
    <3> QED
      BY <3>1, <3>2
  <2>5. \A m \in 0..n + 1 : g[m] = FunnelAt(g, m, lines)
    <3> TAKE m \in 0..n + 1
    <3>1. CASE m <= n
      BY <2>2, <2>3, <2>4, <3>1
    <3>2. CASE ~(m <= n)
      BY <2>4, <3>2
    <3> QED
      BY <3>1, <3>2
  <2>6. FunnelsOf(g, n + 1, lines)
    <3> HIDE DEF g
    <3> QED
      BY <2>3, <2>5 DEF FunnelsOf
  <2> QED
    BY <2>6
<1>3. Nat \subseteq S
  <2> HIDE DEF S
  <2> QED
    BY <1>1, <1>2, Induction
<1> QED
  BY <1>3

LEMMA FunnelsAre ==
    ASSUME NEW lines \in Seq(Lines)
    PROVE  \A n \in 0..Len(lines) : Funnels(lines)[n] = FunnelAt(Funnels(lines), n, lines)
<1> DEFINE f == Funnels(lines)
<1>1. \E g : FunnelsOf(g, Len(lines), lines)
  BY FunnelsReach
<1>2. f = CHOOSE g : FunnelsOf(g, Len(lines), lines)
  BY DEF Funnels, FunnelAt, FunnelsOf
<1>3. f = [n \in 0..Len(lines) |-> FunnelAt(f, n, lines)]
  BY <1>1, <1>2 DEF FunnelsOf
<1> HIDE DEF f
<1> SUFFICES \A n \in 0..Len(lines) : f[n] = FunnelAt(f, n, lines)
  BY DEF f
<1> QED
  BY <1>3

\* One pass: a funnel holds what its fields say.
FunnelFields == {"reviews", "clean", "issuedAt", "life", "mixed", "chances", "revised",
                 "followed", "overrode", "passed"}
IsFunnel(f) == f = [x \in FunnelFields |-> f[x]]

ChancesOf(r, f) == {d \in r.inForce \cap Ids(f) : r.turn > f.issuedAt[d]}

\* What a line's chances come to: revised first, then followed, then overrode, the rest passed.
Headings(r, had, first, second, third, rest) ==
    /\ first = had \cap r.issued
    /\ second = (had \ first) \cap r.followed
    /\ third = (had \ (first \cup second)) \cap r.overrode
    /\ rest = had \ (first \cup second \cup third)

LEMMA ObserveIs ==
    ASSUME NEW f, IsFunnel(f), NEW r, NEW g, g = Observe(r, f),
           NEW had, had = ChancesOf(r, f), NEW first, NEW second, NEW third, NEW rest,
           Headings(r, had, first, second, third, rest)
    PROVE  /\ IsFunnel(g)
           /\ g.life = (IF (r.issued # {} \/ Ids(f) # {}) /\ f.life = 0 THEN r.boot ELSE f.life)
           /\ g.mixed = (f.mixed \/ ((r.issued # {} \/ Ids(f) # {}) /\ f.life \notin {0, r.boot}))
           /\ g.chances = f.chances + Cardinality(had)
           /\ g.revised = f.revised + Cardinality(first)
           /\ g.followed = f.followed + Cardinality(second)
           /\ g.overrode = f.overrode + Cardinality(third)
           /\ g.passed = f.passed + Cardinality(rest)
           /\ Ids(g) = Ids(f) \cup r.issued
           /\ \A d \in Ids(g) : g.issuedAt[d] = IF d \in Ids(f) THEN f.issuedAt[d] ELSE r.turn
<1> DEFINE review == r.tier = "review"
           relevant == r.issued # {} \/ Ids(f) # {}
           chances == {d \in r.inForce \cap Ids(f) : r.turn > f.issuedAt[d]}
           revised == chances \cap r.issued
           followed == (chances \ revised) \cap r.followed
           overrode == (chances \ (revised \cup followed)) \cap r.overrode
           reviews == f.reviews + (IF review THEN 1 ELSE 0)
           clean == f.clean + (IF review /\ ~r.degraded /\ ~r.rejected THEN 1 ELSE 0)
           life == IF relevant /\ f.life = 0 THEN r.boot ELSE f.life
           mixed == f.mixed \/ (relevant /\ f.life \notin {0, r.boot})
           ch == f.chances + Cardinality(chances)
           re == f.revised + Cardinality(revised)
           fo == f.followed + Cardinality(followed)
           ov == f.overrode + Cardinality(overrode)
           pa == f.passed + Cardinality(chances \ (revised \cup followed \cup overrode))
           at == [d \in Ids(f) \cup r.issued |-> IF d \in Ids(f) THEN f.issuedAt[d] ELSE r.turn]
           h == [f EXCEPT !.reviews = reviews, !.clean = clean, !.life = life, !.mixed = mixed,
                          !.chances = ch, !.revised = re, !.followed = fo, !.overrode = ov,
                          !.passed = pa]
           c == Counted(r, f)
<1>0. c = h
  BY DEF Counted, IsFunnel, FunnelFields
<1>1. g = [c EXCEPT !.issuedAt =
              [d \in Ids(f) \cup r.issued |-> IF d \in Ids(f) THEN c.issuedAt[d] ELSE r.turn]]
  BY DEF Observe
<1> HIDE DEF c
<1>2. /\ chances = had /\ revised = first /\ followed = second /\ overrode = third
      /\ chances \ (revised \cup followed \cup overrode) = rest
  BY DEF ChancesOf, Headings
<1>3. DOMAIN at = Ids(f) \cup r.issued
      /\ \A d \in DOMAIN at : at[d] = IF d \in Ids(f) THEN f.issuedAt[d] ELSE r.turn
  OBVIOUS
<1> HIDE DEF reviews, clean, life, mixed, ch, re, fo, ov, pa, at
<1>4. /\ IsFunnel(g) /\ g.life = life /\ g.mixed = mixed /\ g.chances = ch /\ g.revised = re
      /\ g.followed = fo /\ g.overrode = ov /\ g.passed = pa /\ g.issuedAt = at
  <2>1. /\ IsFunnel(h) /\ h.life = life /\ h.mixed = mixed /\ h.chances = ch /\ h.revised = re
        /\ h.followed = fo /\ h.overrode = ov /\ h.passed = pa /\ h.issuedAt = f.issuedAt
    BY DEF IsFunnel, FunnelFields
  <2> HIDE DEF h
  <2>2. g = [h EXCEPT !.issuedAt = at]
    BY <1>0, <1>1, <2>1 DEF at
  <2> QED
    BY <2>1, <2>2 DEF IsFunnel, FunnelFields
<1> HIDE DEF h
<1>5. Ids(g) = Ids(f) \cup r.issued
      /\ \A d \in Ids(g) : g.issuedAt[d] = IF d \in Ids(f) THEN f.issuedAt[d] ELSE r.turn
  BY <1>3, <1>4 DEF Ids
<1>6. /\ ch = f.chances + Cardinality(had) /\ re = f.revised + Cardinality(first)
      /\ fo = f.followed + Cardinality(second) /\ ov = f.overrode + Cardinality(third)
      /\ pa = f.passed + Cardinality(rest)
  <2> HIDE DEF chances, revised, followed, overrode
  <2> QED
    BY <1>2 DEF ch, re, fo, ov, pa
<1>7. /\ life = (IF (r.issued # {} \/ Ids(f) # {}) /\ f.life = 0 THEN r.boot ELSE f.life)
      /\ mixed = (f.mixed \/ ((r.issued # {} \/ Ids(f) # {}) /\ f.life \notin {0, r.boot}))
  BY DEF life, mixed
<1> HIDE DEF relevant
<1> QED
  BY <1>4, <1>5, <1>6, <1>7

(*---------------------------------------------------------------------------*)
(* What the lines say, up to line n.                                          *)

IssuedBy(lines, n) == UNION {lines[i].issued : i \in {j \in ReadLines(lines) : j <= n}}
ChancesBy(lines, n) == {c \in Chances(lines) : c[1] <= n}
FollowedBy(lines, n) == {c \in ChancesBy(lines, n) : c[2] \in lines[c[1]].followed}

LEMMA LineIsRecord ==
    ASSUME NEW lines \in Seq(Lines), NEW i \in ReadLines(lines)
    PROVE  /\ i \in 1..Len(lines) /\ lines[i] \in Records
           /\ lines[i].boot \in Nat \ {0} /\ lines[i].turn \in Nat
           /\ lines[i].issued \subseteq Everything /\ lines[i].inForce \subseteq Everything
           /\ lines[i].followed \subseteq Everything
<1>1. i \in 1..Len(lines) /\ lines[i] \in Lines /\ lines[i] # Garbage
  BY DEF ReadLines, Is
<1>2. lines[i] \in Records
  BY <1>1 DEF Lines
<1> QED
  BY <1>1, <1>2, RunLogBoundsOK DEF Records

LEMMA FirstIssueIs ==
    ASSUME NEW lines \in Seq(Lines), NEW d \in IssuedIn(lines)
    PROVE  /\ FirstIssue(lines, d) \in ReadLines(lines)
           /\ d \in lines[FirstIssue(lines, d)].issued
           /\ \A j \in ReadLines(lines) : d \in lines[j].issued => FirstIssue(lines, d) <= j
<1> DEFINE T == {i \in ReadLines(lines) : d \in lines[i].issued}
<1>1. T \subseteq Nat /\ T # {}
  BY LineIsRecord DEF IssuedIn
<1>2. PICK i \in T : \A j \in T : i <= j
  BY <1>1, LeastNumber
<1>3. \A j \in ReadLines(lines) : j < i => d \notin lines[j].issued
  BY <1>1, <1>2
<1>4. /\ FirstIssue(lines, d) \in ReadLines(lines)
      /\ d \in lines[FirstIssue(lines, d)].issued
      /\ \A j \in ReadLines(lines) : j < FirstIssue(lines, d) => d \notin lines[j].issued
  BY <1>2, <1>3 DEF FirstIssue
<1>5. ASSUME NEW j \in ReadLines(lines), d \in lines[j].issued
      PROVE  FirstIssue(lines, d) <= j
  <2>1. j \in Nat /\ FirstIssue(lines, d) \in Nat
    BY <1>4, LineIsRecord
  <2> QED
    BY <1>4, <1>5, <2>1
<1> QED
  BY <1>4, <1>5

\* A directive was issued by line n when the line that issued it first is one of them.
LEMMA IssuedByFirst ==
    ASSUME NEW lines \in Seq(Lines), NEW n \in Nat, NEW d
    PROVE  d \in IssuedBy(lines, n) <=> d \in IssuedIn(lines) /\ FirstIssue(lines, d) <= n
<1>1. ASSUME d \in IssuedBy(lines, n)
      PROVE  d \in IssuedIn(lines) /\ FirstIssue(lines, d) <= n
  <2>1. PICK i \in ReadLines(lines) : i <= n /\ d \in lines[i].issued
    BY <1>1 DEF IssuedBy
  <2>2. d \in IssuedIn(lines)
    BY <2>1 DEF IssuedIn
  <2>3. FirstIssue(lines, d) <= i /\ FirstIssue(lines, d) \in Nat /\ i \in Nat
    BY <2>1, <2>2, FirstIssueIs, LineIsRecord
  <2> QED
    BY <2>1, <2>2, <2>3
<1>2. ASSUME d \in IssuedIn(lines), FirstIssue(lines, d) <= n
      PROVE  d \in IssuedBy(lines, n)
  BY <1>2, FirstIssueIs DEF IssuedBy
<1> QED
  BY <1>1, <1>2

\* How far the funnel after line n has counted.
CountedTo(lines, n, f) ==
    /\ IsFunnel(f)
    /\ Ids(f) = IssuedBy(lines, n)
    /\ \A d \in Ids(f) : f.issuedAt[d] = lines[FirstIssue(lines, d)].turn
    /\ f.chances \in Nat /\ f.revised \in Nat /\ f.followed \in Nat
    /\ f.overrode \in Nat /\ f.passed \in Nat
    /\ f.revised + f.followed + f.overrode + f.passed = f.chances
    /\ IsFiniteSet(ChancesBy(lines, n)) /\ f.chances = Cardinality(ChancesBy(lines, n))
    /\ f.followed <= Cardinality(FollowedBy(lines, n))

\* The one life a funnel that is not mixed is of.
OneLife(lines, n, f) ==
    /\ f.mixed \in BOOLEAN
    /\ Ids(f) = {} <=> f.life = 0
    /\ f.life # 0 => \E i \in ReadLines(lines) : f.life = lines[i].boot
    /\ ~f.mixed => \A i \in ReadLines(lines) :
          i <= n /\ (\E d \in IssuedBy(lines, n) : FirstIssue(lines, d) <= i)
             => lines[i].boot = f.life

LEMMA IssuedByNext ==
    ASSUME NEW lines \in Seq(Lines), NEW n \in Nat
    PROVE  IssuedBy(lines, n + 1) = IssuedBy(lines, n)
              \cup (IF n + 1 \in ReadLines(lines) THEN lines[n + 1].issued ELSE {})
<1> DEFINE upto(m) == {j \in ReadLines(lines) : j <= m}
<1>1. \A j \in ReadLines(lines) : j \in Nat
  BY LineIsRecord
<1>2. upto(n + 1) = upto(n) \cup (IF n + 1 \in ReadLines(lines) THEN {n + 1} ELSE {})
  BY <1>1
<1> QED
  BY <1>2 DEF IssuedBy

IsPairs(P, n, D) == P = {<<n, d>> : d \in D}

\* Pairs of a new line with some directives, beside pairs of other lines.
LEMMA AddedPairs ==
    ASSUME NEW A, IsFiniteSet(A), NEW n, \A c \in A : c[1] # n, NEW D, IsFiniteSet(D),
           NEW P, IsPairs(P, n, D)
    PROVE  /\ IsFiniteSet(A \cup P)
           /\ Cardinality(A \cup P) = Cardinality(A) + Cardinality(D)
           /\ Cardinality(A) \in Nat /\ Cardinality(D) \in Nat
<1> DEFINE f == [d \in D |-> <<n, d>>]
<1>1. f \in Surjection(D, P) /\ f \in Injection(D, P)
  BY DEF Injection, Surjection, IsInjective, IsPairs
<1> HIDE DEF f
<1>2. IsFiniteSet(P) /\ Cardinality(P) = Cardinality(D)
  BY <1>1, FS_Surjection
<1>3. A \cap P = {}
  BY DEF IsPairs
<1>4. IsFiniteSet(A \cup P)
      /\ Cardinality(A \cup P) = Cardinality(A) + Cardinality(P) - Cardinality(A \cap P)
  BY <1>2, FS_Union
<1>5. Cardinality(A) \in Nat /\ Cardinality(D) \in Nat
  BY FS_CardinalityType
<1>6. Cardinality(A \cap P) = 0
  BY <1>3, FS_EmptySet
<1> QED
  BY <1>2, <1>4, <1>5, <1>6

\* The chances of line n + 1 are of what the funnel knows before it.
LEMMA ChancesByNext ==
    ASSUME NEW lines \in Seq(Lines), NEW n \in Nat, NEW f, CountedTo(lines, n, f)
    PROVE  LET r == lines[n + 1]
               D == IF n + 1 \in ReadLines(lines) THEN ChancesOf(r, f) ELSE {}
           IN /\ ChancesBy(lines, n + 1) = ChancesBy(lines, n) \cup {<<n + 1, d>> : d \in D}
              /\ \A c \in ChancesBy(lines, n) : c[1] # n + 1
              /\ IsFiniteSet(D)
<1> DEFINE r == lines[n + 1]
           D == IF n + 1 \in ReadLines(lines) THEN ChancesOf(r, f) ELSE {}
<1>0. \A i \in ReadLines(lines) : i \in Nat
  BY LineIsRecord
<1>1. \A c \in Chances(lines) : /\ c = <<c[1], c[2]>> /\ c[1] \in ReadLines(lines)
                                /\ c[2] \in IssuedIn(lines)
  BY DEF Chances
<1>2. \A c \in ChancesBy(lines, n) : c[1] # n + 1
  BY <1>0, <1>1 DEF ChancesBy
<1>3. ASSUME NEW d, n + 1 \in ReadLines(lines)
      PROVE  <<n + 1, d>> \in Chances(lines) <=> d \in ChancesOf(r, f)
  <2>1. d \in Ids(f) <=> d \in IssuedIn(lines) /\ FirstIssue(lines, d) <= n
    BY IssuedByFirst DEF CountedTo
  <2>2. d \in IssuedIn(lines) => FirstIssue(lines, d) \in Nat
    BY FirstIssueIs, <1>0
  <2>3. d \in Ids(f) => f.issuedAt[d] = lines[FirstIssue(lines, d)].turn
    BY DEF CountedTo
  <2>4. <<n + 1, d>> \in Chances(lines)
          <=> /\ d \in IssuedIn(lines) /\ FirstIssue(lines, d) < n + 1
              /\ d \in r.inForce /\ r.turn > lines[FirstIssue(lines, d)].turn
    BY <1>3 DEF Chances
  <2> QED
    BY <2>1, <2>2, <2>3, <2>4 DEF ChancesOf
<1>4. ChancesBy(lines, n + 1) = ChancesBy(lines, n) \cup {<<n + 1, d>> : d \in D}
  <2>1. ASSUME NEW c \in ChancesBy(lines, n + 1)
        PROVE  c \in ChancesBy(lines, n) \cup {<<n + 1, d>> : d \in D}
    <3>1. /\ c \in Chances(lines) /\ c[1] <= n + 1 /\ c[1] \in Nat /\ c = <<c[1], c[2]>>
          /\ c[1] \in ReadLines(lines)
      BY <1>0, <1>1 DEF ChancesBy
    <3>2. CASE c[1] <= n
      BY <3>1, <3>2 DEF ChancesBy
    <3>3. CASE c[1] = n + 1
      <4>1. c[2] \in ChancesOf(r, f)
        BY <1>3, <3>1, <3>3
      <4> QED
        BY <3>1, <3>3, <4>1
    <3> QED
      BY <3>1, <3>2, <3>3
  <2>2. ASSUME NEW c \in ChancesBy(lines, n) PROVE c \in ChancesBy(lines, n + 1)
    BY <1>0, <1>1 DEF ChancesBy
  <2>3. ASSUME NEW d \in D PROVE <<n + 1, d>> \in ChancesBy(lines, n + 1)
    BY <1>3 DEF ChancesBy
  <2> QED
    BY <2>1, <2>2, <2>3
<1>5. IsFiniteSet(D)
  <2>1. ASSUME n + 1 \in ReadLines(lines) PROVE ChancesOf(r, f) \subseteq Everything
    BY <2>1, LineIsRecord DEF ChancesOf
  <2>2. IsFiniteSet(Everything)
    BY ShapesOK DEF Everything
  <2> QED
    BY <2>1, <2>2, FS_Subset, FS_EmptySet
<1> QED
  BY <1>2, <1>4, <1>5

\* What is counted under four headings is counted once.
LEMMA FourParts ==
    ASSUME NEW A, IsFiniteSet(A), NEW r, NEW first, NEW second, NEW third, NEW rest,
           Headings(r, A, first, second, third, rest)
    PROVE  /\ Cardinality(first) \in Nat /\ Cardinality(second) \in Nat
           /\ Cardinality(third) \in Nat /\ Cardinality(rest) \in Nat
           /\ Cardinality(A) \in Nat
           /\ Cardinality(first) + Cardinality(second) + Cardinality(third)
                + Cardinality(rest) = Cardinality(A)
<1>1. ASSUME NEW S, IsFiniteSet(S), NEW T
      PROVE  /\ IsFiniteSet(S \cap T) /\ IsFiniteSet(S \ T)
             /\ Cardinality(S \cap T) \in Nat /\ Cardinality(S \ T) \in Nat
             /\ Cardinality(S) \in Nat
             /\ Cardinality(S \cap T) + Cardinality(S \ T) = Cardinality(S)
  <2>1. IsFiniteSet(S \cap T) /\ IsFiniteSet(S \ T)
    <3>1. S \cap T \subseteq S /\ S \ T \subseteq S
      OBVIOUS
    <3> QED
      BY <1>1, <3>1, FS_Subset
  <2>2. Cardinality(S \ T) = Cardinality(S) - Cardinality(S \cap T)
    BY <1>1, FS_Difference
  <2>3. /\ Cardinality(S \cap T) \in Nat /\ Cardinality(S \ T) \in Nat
        /\ Cardinality(S) \in Nat
    BY <1>1, <2>1, FS_CardinalityType
  <2> QED
    BY <2>1, <2>2, <2>3
<1> DEFINE B == r.issued
           C == r.followed
           D == r.overrode
<1>0. /\ first = A \cap B /\ second = (A \ first) \cap C
      /\ third = (A \ (first \cup second)) \cap D /\ rest = A \ (first \cup second \cup third)
  BY DEF Headings
<1> HIDE DEF B, C, D
<1>2. A \ first = A \ B /\ A \ (first \cup second) = (A \ B) \ C
      /\ rest = ((A \ B) \ C) \ D
  BY <1>0
<1>3. /\ IsFiniteSet(A \ B) /\ Cardinality(first) + Cardinality(A \ B) = Cardinality(A)
      /\ Cardinality(first) \in Nat /\ Cardinality(A \ B) \in Nat /\ Cardinality(A) \in Nat
  BY <1>0, <1>1
<1>4. /\ IsFiniteSet((A \ B) \ C)
      /\ Cardinality(second) + Cardinality((A \ B) \ C) = Cardinality(A \ B)
      /\ Cardinality(second) \in Nat /\ Cardinality((A \ B) \ C) \in Nat
  <2>1. second = (A \ B) \cap C
    BY <1>0, <1>2
  <2> QED
    BY <1>1, <1>3, <2>1
<1>5. /\ Cardinality(third) + Cardinality(rest) = Cardinality((A \ B) \ C)
      /\ Cardinality(third) \in Nat /\ Cardinality(rest) \in Nat
  <2>1. third = ((A \ B) \ C) \cap D
    BY <1>0, <1>2
  <2> DEFINE X == (A \ B) \ C
  <2>2. /\ Cardinality(X \cap D) + Cardinality(X \ D) = Cardinality(X)
        /\ Cardinality(X \cap D) \in Nat /\ Cardinality(X \ D) \in Nat
    <3>1. IsFiniteSet(X)
      BY <1>4
    <3> HIDE DEF X
    <3> QED
      BY <1>1, <3>1
  <2> QED
    BY <1>2, <2>1, <2>2
<1> QED
  BY <1>3, <1>4, <1>5

\* One more line counts its chances, each once and under one heading.
LEMMA CountsNext ==
    ASSUME NEW lines \in Seq(Lines), NEW n \in Nat, n + 1 \in 1..Len(lines),
           NEW f, CountedTo(lines, n, f), NEW g,
           g = IF Is(lines[n + 1]) THEN Observe(lines[n + 1], f) ELSE f
    PROVE  CountedTo(lines, n + 1, g)
<1> DEFINE r == lines[n + 1]
           read == n + 1 \in ReadLines(lines)
           D == IF read THEN ChancesOf(r, f) ELSE {}
           P == {<<n + 1, d>> : d \in D}
           revised == D \cap r.issued
           followed == (D \ revised) \cap r.followed
           overrode == (D \ (revised \cup followed)) \cap r.overrode
           passed == D \ (revised \cup followed \cup overrode)
<1>1. read <=> Is(r)
  BY DEF ReadLines
<1>2. /\ ChancesBy(lines, n + 1) = ChancesBy(lines, n) \cup P
      /\ \A c \in ChancesBy(lines, n) : c[1] # n + 1
      /\ IsFiniteSet(D)
  BY ChancesByNext
<1>3. /\ IsFiniteSet(ChancesBy(lines, n)) /\ f.chances = Cardinality(ChancesBy(lines, n))
      /\ IsFunnel(f)
      /\ f.chances \in Nat /\ f.revised \in Nat /\ f.followed \in Nat /\ f.overrode \in Nat
      /\ f.passed \in Nat
      /\ f.revised + f.followed + f.overrode + f.passed = f.chances
      /\ f.followed <= Cardinality(FollowedBy(lines, n))
  BY DEF CountedTo
<1>4. IssuedBy(lines, n + 1) = Ids(f) \cup (IF read THEN r.issued ELSE {})
  BY IssuedByNext DEF CountedTo
<1>5. CASE ~read
  <2>1. g = f /\ D = {}
    BY <1>1, <1>5
  <2>2. ChancesBy(lines, n + 1) = ChancesBy(lines, n)
    BY <1>2, <2>1
  <2>3. FollowedBy(lines, n + 1) = FollowedBy(lines, n)
    BY <2>2 DEF FollowedBy
  <2>4. IssuedBy(lines, n + 1) = IssuedBy(lines, n)
    BY <1>4, <1>5 DEF CountedTo
  <2> QED
    BY <2>1, <2>2, <2>3, <2>4 DEF CountedTo
<1>6. CASE read
  <2>1. g = Observe(r, f) /\ D = ChancesOf(r, f)
    BY <1>1, <1>6
  <2>2. /\ IsFunnel(g)
        /\ g.chances = f.chances + Cardinality(D)
        /\ g.revised = f.revised + Cardinality(revised)
        /\ g.followed = f.followed + Cardinality(followed)
        /\ g.overrode = f.overrode + Cardinality(overrode)
        /\ g.passed = f.passed + Cardinality(passed)
        /\ Ids(g) = Ids(f) \cup r.issued
        /\ \A d \in Ids(g) : g.issuedAt[d] = IF d \in Ids(f) THEN f.issuedAt[d] ELSE r.turn
    <3>1. Headings(r, D, revised, followed, overrode, passed)
      BY DEF Headings
    <3> HIDE DEF D, revised, followed, overrode, passed
    <3> QED
      BY <1>3, <2>1, <3>1, ObserveIs
  <2>3. Ids(g) = IssuedBy(lines, n + 1)
    BY <1>4, <1>6, <2>2
  <2>4. ASSUME NEW d \in Ids(g) PROVE g.issuedAt[d] = lines[FirstIssue(lines, d)].turn
    <3>1. CASE d \in Ids(f)
      BY <2>2, <3>1 DEF CountedTo
    <3>2. CASE d \notin Ids(f)
      <4>1. d \in IssuedIn(lines) /\ FirstIssue(lines, d) <= n + 1 /\ ~(FirstIssue(lines, d) <= n)
        BY <2>3, <3>2, IssuedByFirst DEF CountedTo
      <4>2. FirstIssue(lines, d) \in Nat
        BY <4>1, FirstIssueIs, LineIsRecord
      <4>3. FirstIssue(lines, d) = n + 1
        BY <4>1, <4>2
      <4> QED
        BY <2>2, <3>2, <4>3
    <3> QED
      BY <3>1, <3>2
  <2> HIDE DEF D, P, revised, followed, overrode, passed
  <2>5. /\ Cardinality(revised) \in Nat /\ Cardinality(followed) \in Nat
        /\ Cardinality(overrode) \in Nat /\ Cardinality(passed) \in Nat
        /\ Cardinality(D) \in Nat
        /\ Cardinality(revised) + Cardinality(followed) + Cardinality(overrode)
              + Cardinality(passed) = Cardinality(D)
    <3>1. Headings(r, D, revised, followed, overrode, passed)
      BY DEF revised, followed, overrode, passed, Headings
    <3> QED
      BY <1>2, <3>1, FourParts
  <2>6. /\ IsFiniteSet(ChancesBy(lines, n + 1))
        /\ Cardinality(ChancesBy(lines, n + 1)) = Cardinality(ChancesBy(lines, n)) + Cardinality(D)
    <3>1. IsPairs(P, n + 1, D)
      BY DEF P, IsPairs
    <3> QED
      BY <1>2, <1>3, <3>1, AddedPairs
  <2>7. g.followed <= Cardinality(FollowedBy(lines, n + 1))
    <3> DEFINE Q == {<<n + 1, d>> : d \in followed}
               A == FollowedBy(lines, n)
    <3>1. A \subseteq ChancesBy(lines, n) /\ followed \subseteq D /\ followed \subseteq r.followed
      BY DEF FollowedBy, followed
    <3>2. IsFiniteSet(A) /\ IsFiniteSet(followed) /\ \A c \in A : c[1] # n + 1
      BY <1>2, <1>3, <3>1, FS_Subset
    <3>3. Cardinality(A \cup Q) = Cardinality(A) + Cardinality(followed)
      <4>1. IsPairs(Q, n + 1, followed)
        BY DEF IsPairs
      <4> HIDE DEF Q, A
      <4> QED
        BY <3>2, <4>1, AddedPairs
    <3>4. A \cup Q \subseteq FollowedBy(lines, n + 1)
      BY <1>2, <3>1 DEF FollowedBy, P
    <3>5. FollowedBy(lines, n + 1) \subseteq ChancesBy(lines, n + 1)
      BY DEF FollowedBy
    <3> HIDE DEF Q, A
    <3>6. IsFiniteSet(FollowedBy(lines, n + 1))
          /\ Cardinality(A \cup Q) <= Cardinality(FollowedBy(lines, n + 1))
      BY <2>6, <3>4, <3>5, FS_Subset
    <3>7. Cardinality(A) \in Nat /\ Cardinality(FollowedBy(lines, n + 1)) \in Nat
      BY <3>2, <3>6, FS_CardinalityType
    <3>8. f.followed <= Cardinality(A) /\ f.followed \in Nat /\ Cardinality(followed) \in Nat
          /\ g.followed = f.followed + Cardinality(followed)
      BY <1>3, <2>2, <2>5 DEF A
    <3> QED
      BY <3>3, <3>6, <3>7, <3>8
  <2>8. /\ g.chances \in Nat /\ g.revised \in Nat /\ g.followed \in Nat
        /\ g.overrode \in Nat /\ g.passed \in Nat
        /\ g.revised + g.followed + g.overrode + g.passed = g.chances
    <3> DEFINE a == f.chances
               a1 == f.revised
               a2 == f.followed
               a3 == f.overrode
               a4 == f.passed
               b == Cardinality(D)
               b1 == Cardinality(revised)
               b2 == Cardinality(followed)
               b3 == Cardinality(overrode)
               b4 == Cardinality(passed)
    <3>1. a \in Nat /\ a1 \in Nat /\ a2 \in Nat /\ a3 \in Nat /\ a4 \in Nat
          /\ a1 + a2 + a3 + a4 = a
      BY <1>3
    <3>2. b \in Nat /\ b1 \in Nat /\ b2 \in Nat /\ b3 \in Nat /\ b4 \in Nat
          /\ b1 + b2 + b3 + b4 = b
      BY <2>5
    <3>3. /\ g.chances = a + b /\ g.revised = a1 + b1 /\ g.followed = a2 + b2
          /\ g.overrode = a3 + b3 /\ g.passed = a4 + b4
      BY <2>2
    <3> HIDE DEF a, a1, a2, a3, a4, b, b1, b2, b3, b4
    <3>4. (a1 + b1) + (a2 + b2) + (a3 + b3) + (a4 + b4) = a + b
      BY <3>1, <3>2
    <3>5. a + b \in Nat /\ a1 + b1 \in Nat /\ a2 + b2 \in Nat /\ a3 + b3 \in Nat
          /\ a4 + b4 \in Nat
      BY <3>1, <3>2
    <3> QED
      BY <3>3, <3>4, <3>5
  <2>9. g.chances = Cardinality(ChancesBy(lines, n + 1))
    BY <1>3, <2>2, <2>6
  <2> QED
    BY <2>2, <2>3, <2>4, <2>6, <2>7, <2>8, <2>9 DEF CountedTo
<1> QED
  BY <1>5, <1>6

\* One more line of the same life, or the funnel is mixed.
LEMMA LifeNext ==
    ASSUME NEW lines \in Seq(Lines), NEW n \in Nat, n + 1 \in 1..Len(lines),
           NEW f, CountedTo(lines, n, f), OneLife(lines, n, f), NEW g,
           g = IF Is(lines[n + 1]) THEN Observe(lines[n + 1], f) ELSE f
    PROVE  OneLife(lines, n + 1, g)
<1> DEFINE r == lines[n + 1]
           read == n + 1 \in ReadLines(lines)
<1>1. read <=> Is(r)
  BY DEF ReadLines
<1>2. IsFunnel(f) /\ Ids(f) = IssuedBy(lines, n)
  BY DEF CountedTo
<1>3. IssuedBy(lines, n + 1) = Ids(f) \cup (IF read THEN r.issued ELSE {})
  BY <1>2, IssuedByNext
<1>4. \A i \in ReadLines(lines) : i \in Nat
  BY LineIsRecord
<1>5. ASSUME NEW i \in ReadLines(lines), i <= n,
             NEW d \in IssuedBy(lines, n + 1), FirstIssue(lines, d) <= i
      PROVE  d \in IssuedBy(lines, n)
  <2>1. d \in IssuedIn(lines)
    BY <1>5, IssuedByFirst
  <2>2. FirstIssue(lines, d) \in Nat /\ i \in Nat
    BY <1>4, <2>1, FirstIssueIs
  <2>3. FirstIssue(lines, d) <= n
    BY <1>5, <2>2
  <2> QED
    BY <2>1, <2>3, IssuedByFirst
<1>6. CASE ~read
  <2>1. g = f
    BY <1>1, <1>6
  <2>2. IssuedBy(lines, n + 1) = IssuedBy(lines, n)
    BY <1>2, <1>3, <1>6
  <2>3. \A i \in ReadLines(lines) : i <= n + 1 => i <= n
    BY <1>4, <1>6
  <2> QED
    BY <2>1, <2>2, <2>3 DEF OneLife
<1>7. CASE read
  <2> DEFINE had == ChancesOf(r, f)
             first == had \cap r.issued
             second == (had \ first) \cap r.followed
             third == (had \ (first \cup second)) \cap r.overrode
             rest == had \ (first \cup second \cup third)
             relevant == r.issued # {} \/ Ids(f) # {}
  <2>1. g = Observe(r, f)
    BY <1>1, <1>7
  <2>2. /\ g.life = (IF relevant /\ f.life = 0 THEN r.boot ELSE f.life)
        /\ g.mixed = (f.mixed \/ (relevant /\ f.life \notin {0, r.boot}))
        /\ Ids(g) = Ids(f) \cup r.issued
    <3>1. Headings(r, had, first, second, third, rest)
      BY DEF Headings
    <3>2. had = ChancesOf(r, f)
      OBVIOUS
    <3> HIDE DEF had, first, second, third, rest
    <3> QED
      BY <1>2, <2>1, <3>1, <3>2, ObserveIs
  <2> HIDE DEF had, first, second, third, rest, r, read
  <2>3. r.boot \in Nat \ {0}
    BY <1>7, LineIsRecord DEF r, read
  <2>4. Ids(f) = {} <=> f.life = 0
    BY DEF OneLife
  <2>5. Ids(g) = {} <=> g.life = 0
    BY <2>2, <2>3, <2>4
  <2>6. g.life # 0 => \E i \in ReadLines(lines) : g.life = lines[i].boot
    <3>1. f.life # 0 => \E i \in ReadLines(lines) : f.life = lines[i].boot
      BY DEF OneLife
    <3> QED
      BY <1>7, <2>2, <3>1 DEF r, read
  <2>7. g.mixed \in BOOLEAN
    BY <2>2
  <2>8. ASSUME ~g.mixed PROVE ~f.mixed /\ (relevant => f.life \in {0, r.boot})
    BY <2>2, <2>8
  <2>9. ASSUME ~g.mixed, NEW i \in ReadLines(lines), i <= n + 1,
               NEW d \in IssuedBy(lines, n + 1), FirstIssue(lines, d) <= i
        PROVE  lines[i].boot = g.life
    <3>1. CASE i <= n
      <4>1. d \in IssuedBy(lines, n)
        BY <1>5, <2>9, <3>1
      <4>2. lines[i].boot = f.life
        BY <2>8, <2>9, <3>1, <4>1 DEF OneLife
      <4>3. f.life # 0
        BY <1>2, <2>4, <4>1
      <4> QED
        BY <2>2, <4>2, <4>3
    <3>2. CASE ~(i <= n)
      <4>1. i = n + 1
        BY <1>4, <2>9, <3>2
      <4>2. d \in Ids(f) \/ d \in r.issued
        BY <1>3, <2>9
      <4>3. f.life \in {0, r.boot} /\ relevant
        BY <2>8, <2>9, <4>2
      <4>4. g.life = r.boot
        BY <2>2, <4>3
      <4> QED
        BY <4>1, <4>4 DEF r
    <3> QED
      BY <3>1, <3>2
  <2> QED
    BY <2>5, <2>6, <2>7, <2>9 DEF OneLife
<1> QED
  BY <1>6, <1>7

LEMMA NothingCounted ==
    ASSUME NEW lines \in Seq(Lines)
    PROVE  CountedTo(lines, 0, EmptyFunnel) /\ OneLife(lines, 0, EmptyFunnel)
<1>1. \A i \in ReadLines(lines) : i \in Nat \ {0}
  BY LineIsRecord
<1>2. IssuedBy(lines, 0) = {}
  BY <1>1 DEF IssuedBy
<1>3. ChancesBy(lines, 0) = {}
  BY <1>1 DEF ChancesBy, Chances
<1>4. FollowedBy(lines, 0) = {}
  BY <1>3 DEF FollowedBy
<1>5. Cardinality({}) = 0 /\ IsFiniteSet({})
  BY FS_EmptySet
<1>6. IsFunnel(EmptyFunnel)
  BY DEF IsFunnel, FunnelFields, EmptyFunnel
<1>7. Ids(EmptyFunnel) = {}
  BY DEF Ids, EmptyFunnel
<1>8. /\ EmptyFunnel.chances = 0 /\ EmptyFunnel.revised = 0 /\ EmptyFunnel.followed = 0
      /\ EmptyFunnel.overrode = 0 /\ EmptyFunnel.passed = 0 /\ EmptyFunnel.life = 0
      /\ EmptyFunnel.mixed = FALSE
  BY DEF EmptyFunnel
<1>9. CountedTo(lines, 0, EmptyFunnel)
  <2> DEFINE f == EmptyFunnel
  <2>1. /\ f.chances \in Nat /\ f.revised \in Nat /\ f.followed \in Nat
        /\ f.overrode \in Nat /\ f.passed \in Nat
        /\ f.revised + f.followed + f.overrode + f.passed = f.chances
    BY <1>8
  <2>2. /\ IsFiniteSet(ChancesBy(lines, 0)) /\ f.chances = Cardinality(ChancesBy(lines, 0))
        /\ f.followed <= Cardinality(FollowedBy(lines, 0))
    <3>1. /\ Cardinality(ChancesBy(lines, 0)) = 0 /\ Cardinality(FollowedBy(lines, 0)) = 0
          /\ IsFiniteSet(ChancesBy(lines, 0))
      BY <1>3, <1>4, <1>5
    <3>2. f.chances = 0 /\ f.followed = 0
      BY <1>8
    <3> HIDE DEF f
    <3> QED
      BY <3>1, <3>2
  <2>3. Ids(f) = IssuedBy(lines, 0) /\ \A d \in Ids(f) : f.issuedAt[d] = lines[FirstIssue(lines, d)].turn
    BY <1>2, <1>7
  <2> HIDE DEF f
  <2>4. IsFunnel(f)
    BY <1>6 DEF f
  <2>5. CountedTo(lines, 0, f)
    BY <2>1, <2>2, <2>3, <2>4 DEF CountedTo
  <2> QED
    BY <2>5 DEF f
<1> QED
  BY <1>2, <1>7, <1>8, <1>9 DEF OneLife

\* The whole of a log is counted.
LEMMA FunnelIs ==
    ASSUME NEW lines \in Seq(Lines)
    PROVE  CountedTo(lines, Len(lines), Funnel(lines)) /\ OneLife(lines, Len(lines), Funnel(lines))
<1> DEFINE f == Funnels(lines)
           S == {n \in Nat : n <= Len(lines) => CountedTo(lines, n, f[n]) /\ OneLife(lines, n, f[n])}
<1>0. Len(lines) \in Nat
  OBVIOUS
<1>1. \A n \in 0..Len(lines) : f[n] = FunnelAt(f, n, lines)
  BY FunnelsAre
<1> HIDE DEF f
<1>2. 0 \in S
  <2>1. f[0] = EmptyFunnel
    BY <1>0, <1>1 DEF FunnelAt
  <2> QED
    BY <2>1, NothingCounted
<1>3. ASSUME NEW n \in Nat, n \in S PROVE n + 1 \in S
  <2> SUFFICES ASSUME n + 1 <= Len(lines)
               PROVE  CountedTo(lines, n + 1, f[n + 1]) /\ OneLife(lines, n + 1, f[n + 1])
    OBVIOUS
  <2>1. n + 1 \in 0..Len(lines) /\ n + 1 \in 1..Len(lines) /\ n + 1 # 0 /\ (n + 1) - 1 = n
    BY <1>0
  <2>2. CountedTo(lines, n, f[n]) /\ OneLife(lines, n, f[n])
    BY <1>0, <1>3
  <2>3. f[n + 1] = IF Is(lines[n + 1]) THEN Observe(lines[n + 1], f[n]) ELSE f[n]
    BY <1>1, <2>1 DEF FunnelAt
  <2> QED
    BY <2>1, <2>2, <2>3, CountsNext, LifeNext
<1>4. Nat \subseteq S
  <2> HIDE DEF S
  <2> QED
    BY <1>2, <1>3, Induction
<1> QED
  BY <1>0, <1>4 DEF f, Funnel

\* Everything is counted when the last line is.
LEMMA AllCounted ==
    ASSUME NEW lines \in Seq(Lines)
    PROVE  /\ IssuedBy(lines, Len(lines)) = IssuedIn(lines)
           /\ ChancesBy(lines, Len(lines)) = Chances(lines)
<1>1. \A i \in ReadLines(lines) : i <= Len(lines)
  BY LineIsRecord
<1>2. \A c \in Chances(lines) : c[1] \in ReadLines(lines)
  BY DEF Chances
<1> QED
  BY <1>1, <1>2 DEF IssuedBy, IssuedIn, ChancesBy

\* An answer's words are kept of what it was shown, and a line's life has begun.
AsShown(r) == r.followed \subseteq r.inForce /\ r.overrode \subseteq r.inForce
              /\ r.unmeasured \subseteq r.inForce
LogSays ==
    /\ \A d \in Deciders : place[d] \in {"logging", "spans"} => AsShown(record[d])
    /\ \A i \in ReadLines(log) : log[i].boot <= boot /\ AsShown(log[i])

LEMMA SaysBegins == RunLogInit => LogSays
  BY DEF RunLogInit, LogSays, ReadLines

\* A line that is added is a torn one, or says what LogSays says of a line.
LEMMA SaysGrows ==
    ASSUME LogTypes, LogSays, boot' \in Nat, boot <= boot', NEW r \in Lines,
           r # Garbage => r.boot <= boot /\ AsShown(r),
           log' = log \/ log' = Append(log, r)
    PROVE  \A i \in ReadLines(log') : log'[i].boot <= boot' /\ AsShown(log'[i])
<1> SUFFICES ASSUME NEW i \in ReadLines(log')
             PROVE  log'[i].boot <= boot' /\ AsShown(log'[i])
  OBVIOUS
<1>1. log \in Seq(Lines) /\ boot \in Nat
  BY RunLogBoundsOK DEF LogTypes, FilesOK
<1>2. /\ i \in DOMAIN log' /\ log'[i] # Garbage
      /\ (i \in DOMAIN log /\ log'[i] = log[i]) \/ (log' # log /\ log'[i] = r)
  BY <1>1 DEF ReadLines, Is
<1>3. CASE i \in DOMAIN log /\ log'[i] = log[i]
  <2>1. i \in ReadLines(log)
    BY <1>2, <1>3 DEF ReadLines, Is
  <2>2. log[i].boot <= boot /\ AsShown(log[i]) /\ log[i].boot \in Nat
    BY <1>1, <2>1, LineIsRecord DEF LogSays
  <2> QED
    BY <1>1, <1>3, <2>2
<1>4. CASE log'[i] = r
  <2>1. r \in Records
    BY <1>2, <1>4 DEF Lines
  <2>2. r.boot \in Nat
    BY <2>1, RunLogBoundsOK DEF Records
  <2> QED
    BY <1>1, <1>2, <1>4, <2>2
<1> QED
  BY <1>2, <1>3, <1>4

LEMMA SaysSteps ==
    ASSUME LogTypes, LogSays, [RunLogNext]_runLogVars
    PROVE  LogSays'
<1>0. ThreadsOK /\ log \in Seq(Lines) /\ boot \in Nat
  BY RunLogBoundsOK DEF LogTypes, FilesOK
<1>1. ASSUME NEW d \in Deciders,
             \/ \E s \in Surfaces : TakeUp(d, s)
             \/ Put(d) \/ PutEnds(d) \/ PutFails(d) \/ Spans(d)
      PROVE  LogSays'
  <2>1. /\ boot' = boot /\ log' = log
        /\ \E where \in Places : where \notin {"logging", "spans"}
                                /\ place' = [place EXCEPT ![d] = where]
        /\ record' = record \/ \E r : record' = [record EXCEPT ![d] = r]
    BY <1>1 DEF TakeUp, Put, PutEnds, PutFails, Spans, Goto, file, Places
  <2>2. \A e \in Deciders : place'[e] \in {"logging", "spans"}
                            => place[e] = place'[e] /\ record'[e] = record[e]
    BY <1>0, <2>1 DEF ThreadsOK
  <2> QED
    BY <2>1, <2>2 DEF LogSays
<1>2. ASSUME NEW d \in Deciders, NEW answer \in Shapes, Decide(d, answer) PROVE LogSays'
  <2> DEFINE shown == standing \ answer.hidden
             old == record[d]
             r == [n |-> old.n, boot |-> old.boot, turn |-> old.turn, surface |-> old.surface,
                   told |-> answer.told, tier |-> answer.tier, degraded |-> answer.degraded,
                   chosen |-> answer.chosen, inForce |-> shown,
                   followed |-> Shown(answer.followed, shown),
                   overrode |-> Shown(answer.overrode, shown),
                   unmeasured |-> answer.unmeasured \cap shown,
                   issued |-> IF answer.degraded THEN {} ELSE answer.issued,
                   rejected |-> answer.rejected]
  <2>1. /\ place' = [place EXCEPT ![d] = "logging"] /\ record' = [record EXCEPT ![d] = r]
        /\ boot' = boot /\ log' = log
    <3>1. d \in DOMAIN record
      BY <1>0 DEF ThreadsOK
    <3> QED
      BY <1>2, <3>1 DEF Decide, Goto, file
  <2>2. AsShown(r)
    <3> HIDE DEF shown, old
    <3> QED
      BY DEF AsShown, Shown
  <2> HIDE DEF r
  <2>3. \A e \in Deciders : /\ record'[e] = IF e = d THEN r ELSE record[e]
                            /\ e # d => place'[e] = place[e]
    BY <1>0, <2>1 DEF ThreadsOK
  <2> QED
    BY <2>1, <2>2, <2>3 DEF LogSays
<1>3. ASSUME NEW d \in Deciders, Log(d) \/ LogFails(d) PROVE LogSays'
  <2>1. /\ place[d] = "logging" /\ place' = [place EXCEPT ![d] = "spans"] /\ record' = record
        /\ boot' = boot
        /\ log' = log \/ log' = Append(log, record[d]) \/ log' = Append(log, Garbage)
    BY <1>3 DEF Log, LogFails, Goto, Appended, Cut, file
  <2>2. record[d] \in Records /\ record[d].boot = boot /\ AsShown(record[d])
    BY <2>1 DEF LogTypes, ThreadsOK, Fits, OfThisLife, LogSays
  <2>3. record[d] \in Lines /\ Garbage \in Lines
    BY <2>2 DEF Lines
  <2>4. \A i \in ReadLines(log') : log'[i].boot <= boot' /\ AsShown(log'[i])
    BY <1>0, <2>1, <2>2, <2>3, SaysGrows
  <2>5. \A e \in Deciders : place'[e] \in {"logging", "spans"} => place[e] \in {"logging", "spans"}
    BY <1>0, <2>1 DEF ThreadsOK
  <2> QED
    BY <2>1, <2>4, <2>5 DEF LogSays
<1>4. CASE Restart
  <2>1. /\ boot' = boot + 1
        /\ log' = log \/ log' = Append(log, Garbage)
        /\ place' = [d \in Deciders |-> "idle"]
    BY <1>4 DEF Restart, Cut, file
  <2>2. Garbage \in Lines
    BY DEF Lines
  <2>3. \A i \in ReadLines(log') : log'[i].boot <= boot' /\ AsShown(log'[i])
    <3>1. boot' \in Nat /\ boot <= boot'
      BY <1>0, <2>1
    <3>2. log' = log \/ log' = Append(log, Garbage)
      BY <2>1
    <3> QED
      BY <2>2, <3>1, <3>2, SaysGrows
  <2> QED
    BY <2>1, <2>3 DEF LogSays
<1>5. CASE NextTurn \/ Reload \/ UNCHANGED runLogVars
  BY <1>5 DEF NextTurn, Reload, runLogVars, LogSays, file
<1> QED
  BY <1>1, <1>2, <1>3, <1>4, <1>5 DEF RunLogNext

\* The carry report counts each chance the log gives once, under one heading, and a funnel
\* without an error is of one life (_observe_funnel, carry_contract_errors).
THEOREM CarryCountsOnce == RunLogSpec => []FunnelCountsOnce
<1>1. LogTypes /\ LogSays => FunnelCountsOnce
  <2> SUFFICES ASSUME LogTypes, LogSays PROVE FunnelCountsOnce
    OBVIOUS
  <2> DEFINE f == Funnel(log)
  <2>1. log \in Seq(Lines) /\ boot \in 1..MaxBoots
    BY DEF LogTypes, FilesOK
  <2>2. CountedTo(log, Len(log), f) /\ OneLife(log, Len(log), f)
    BY <2>1, FunnelIs
  <2>3. IssuedBy(log, Len(log)) = IssuedIn(log) /\ ChancesBy(log, Len(log)) = Chances(log)
    BY <2>1, AllCounted
  <2> HIDE DEF f
  <2>4. /\ Ids(f) = IssuedIn(log) /\ f.chances = Cardinality(Chances(log))
        /\ f.revised + f.followed + f.overrode + f.passed = f.chances
        /\ f.followed <= Cardinality({c \in Chances(log) : c[2] \in log[c[1]].followed})
    BY <2>2, <2>3 DEF CountedTo, FollowedBy
  <2>5. ASSUME ~f.mixed
        PROVE  \E b \in 0..boot : \A i \in ReadLines(log) :
                  (\E d \in IssuedIn(log) : FirstIssue(log, d) <= i) => log[i].boot = b
    <3>1. f.life \in 0..boot
      <4>1. f.life # 0 => \E i \in ReadLines(log) : f.life = log[i].boot
        BY <2>2 DEF OneLife
      <4>2. \A i \in ReadLines(log) : log[i].boot \in Nat /\ log[i].boot <= boot
        BY <2>1, LineIsRecord DEF LogSays
      <4>3. boot \in Nat
        BY <2>1, RunLogBoundsOK
      <4> QED
        BY <4>1, <4>2, <4>3
    <3>2. \A i \in ReadLines(log) : i <= Len(log)
      BY <2>1, LineIsRecord
    <3>3. \A i \in ReadLines(log) :
             (\E d \in IssuedIn(log) : FirstIssue(log, d) <= i) => log[i].boot = f.life
      BY <2>2, <2>3, <2>5, <3>2 DEF OneLife
    <3> QED
      BY <3>1, <3>3
  <2> QED
    BY <2>4, <2>5 DEF FunnelCountsOnce, f
<1> QED
  BY <1>1, TypesBegin, TypesSteps, SaysBegins, SaysSteps, PTL DEF RunLogSpec

\* The page, the report and the carry report agree on what the log says of a directive
\* (dashboard.py: strategy; directive_report.py: tally; carry_report.py).
THEOREM ReportsAgree == RunLogSpec => []ReportersAgree
<1>1. LogTypes /\ LogSays => ReportersAgree
  <2> SUFFICES ASSUME LogTypes, LogSays PROVE ReportersAgree
    OBVIOUS
  <2> DEFINE All(what) == {c \in ReadLines(log) \X Everything : c[2] \in log[c[1]][what]}
             f == Funnel(log)
  <2>1. log \in Seq(Lines)
    BY DEF LogTypes, FilesOK
  <2>2. ASSUME ~Refused(log), NEW d \in Everything, NEW what \in Plans
        PROVE  StrategyTotal(log, d, what) = Tally(log, d, what)
    <3>1. ReadLines(log) = DOMAIN log
      BY <2>2 DEF ReadLines, Is, Refused, ToSet
    <3>2. ASSUME NEW i \in DOMAIN log, d \in log[i][what] PROVE d \in log[i].inForce
      BY <2>2, <3>1, <3>2 DEF LogSays, AsShown, Plans
    <3>3. {i \in DOMAIN log : d \in log[i].inForce /\ d \in log[i][what]}
             = {i \in ReadLines(log) : d \in log[i][what]}
      BY <3>1, <3>2
    <3> QED
      BY <3>3 DEF StrategyTotal, Tally, Numbered, Quantify
  <2>3. CountedTo(log, Len(log), f)
    BY <2>1, FunnelIs
  <2>4. ChancesBy(log, Len(log)) = Chances(log)
    BY <2>1, AllCounted
  <2> HIDE DEF f
  <2>5. IsFiniteSet(ReadLines(log) \X Everything)
    <3>1. ReadLines(log) \subseteq 1..Len(log) /\ Len(log) \in Nat
      BY <2>1 DEF ReadLines
    <3>2. IsFiniteSet(1..Len(log))
      BY <3>1, FS_Interval, SMT
    <3>3. IsFiniteSet(Everything)
      BY ShapesOK, Zenon DEF Everything
    <3> QED
      BY <3>1, <3>2, <3>3, FS_Subset, FS_Product
  <2>6. \A c \in Chances(log) : /\ c \in ReadLines(log) \X Everything
                               /\ c[2] \in log[c[1]].inForce
    <3>1. IssuedIn(log) \subseteq Everything
      BY <2>1, LineIsRecord DEF IssuedIn
    <3> QED
      BY <3>1 DEF Chances
  <2>7. f.chances <= Cardinality(All("inForce"))
    <3>1. Chances(log) \subseteq All("inForce") /\ All("inForce") \subseteq ReadLines(log) \X Everything
      BY <2>6
    <3> HIDE DEF All
    <3>2. Cardinality(Chances(log)) <= Cardinality(All("inForce"))
      BY <2>5, <3>1, FS_Subset
    <3> QED
      BY <2>3, <2>4, <3>2 DEF CountedTo
  <2>8. f.followed <= Cardinality(All("followed"))
    <3> DEFINE told == FollowedBy(log, Len(log))
    <3>1. told \subseteq All("followed") /\ All("followed") \subseteq ReadLines(log) \X Everything
      BY <2>4, <2>6 DEF FollowedBy
    <3>2. f.followed <= Cardinality(told) /\ f.followed \in Nat
      BY <2>3 DEF CountedTo
    <3> HIDE DEF All, told
    <3>3. /\ Cardinality(told) <= Cardinality(All("followed"))
          /\ IsFiniteSet(told) /\ IsFiniteSet(All("followed"))
      BY <2>5, <3>1, FS_Subset
    <3>4. Cardinality(told) \in Nat /\ Cardinality(All("followed")) \in Nat
      BY <3>3, FS_CardinalityType
    <3> QED
      BY <3>2, <3>3, <3>4
  <2> QED
    BY <2>2, <2>7, <2>8 DEF ReportersAgree, f
<1> QED
  BY <1>1, TypesBegin, TypesSteps, SaysBegins, SaysSteps, PTL DEF RunLogSpec
================================================================================
