------------------------------ MODULE OutcomeFeed ------------------------------
(* The engine's reports as pollers read them (outcomes.py): a bounded store of  *)
(* reports per trace, the order they came in, and the cursor each poller of     *)
(* GET /outcomes or /agent/outcomes passes back.  A report is its number.       *)
EXTENDS Integers, SequencesExt

CONSTANTS Decisions,   \* the traces the adapter reports on
          Pollers,     \* the agents that keep a cursor
          Capacity,    \* OutcomeStore._capacity
          TrimFactor,  \* entries _order may hold per trace of the capacity: 4
          Batch,       \* the limit a poll asks for
          MaxReports,  \* bound: reports of one process life
          MaxLives     \* bound: lives of the orchestrator process

ASSUME FeedOK ==
    /\ Capacity \in Nat \ {0} /\ Batch \in Nat \ {0} /\ TrimFactor \in Nat \ {0}
    /\ MaxReports \in Nat /\ MaxLives \in Nat \ {0}

VARIABLES life,     \* which life of the orchestrator this is
          byTrace,  \* _by_trace: the reports of each kept trace, oldest first
          recency,  \* its keys, least recently reported first
          order,    \* _order, whose entries come by number: <<number, trace>>
          seq,      \* _seq
          event,    \* what each report of this life said
          cursor,   \* the cursor each poller holds
          heard,    \* the reports of this life each poller was given
          trimmed   \* the sequence numbers the trim dropped
feedVars == <<life, byTrace, recency, order, seq, event, cursor, heard, trimmed>>

FeedInit ==
    /\ life = 1 /\ byTrace = [t \in Decisions |-> <<>>] /\ recency = <<>> /\ order = {}
    /\ seq = 0 /\ event = <<>> /\ cursor = [p \in Pollers |-> 0]
    /\ heard = [p \in Pollers |-> {}] /\ trimmed = {}

\* record: the report joins its trace, which becomes the most recent; the least
\* recent traces beyond the capacity are dropped whole.
Report(t, e) ==
    LET late == Append(Remove(recency, t), t)
        kept == SubSeq(late, Max({1, Len(late) - Capacity + 1}), Len(late))
    IN  /\ seq < MaxReports /\ seq' = seq + 1 /\ event' = Append(event, e)
        /\ recency' = kept
        /\ byTrace' = [u \in Decisions |->
               IF u \notin Range(kept) THEN <<>>
               ELSE IF u = t THEN Append(byTrace[u], seq') ELSE byTrace[u]]
        /\ order' = order \cup {<<seq', t>>}
        /\ UNCHANGED <<life, cursor, heard, trimmed>>

\* The entries a poll from cursor c reads: up to a batch of entries whose trace
\* is kept; a dropped trace's are passed over.
Later(c) == {x \in order : x[1] > c}
KeptBefore(c, n) == {x \in Later(c) : x[1] < n /\ byTrace[x[2]] # <<>>}
Read(c) == {x \in Later(c) : Cardinality(KeptBefore(c, x[1])) < Batch}

\* Mutant: the cursor handed back is that of the store, not of the batch.
ReadToTheEnd(c) == IF Read(c) = {} THEN c ELSE seq

\* since: the cursor to use next is that of the last entry read.
NewCursor(c) == IF Read(c) = {} THEN c ELSE Max({x[1] : x \in Read(c)})

\* since: each entry read is given as the last report its trace has.
Given(c) == {Last(byTrace[x[2]]) : x \in {y \in Read(c) : byTrace[y[2]] # <<>>}}

\* The trim of since: entries of traces not among the latest ones are dropped.
Latest == {x \in order : Cardinality({y \in order : y[1] > x[1]}) < Capacity}
Trimmed ==
    IF Cardinality(order) <= TrimFactor * Capacity THEN order
    ELSE {x \in order : \E y \in Latest : y[2] = x[2]}

\* A poll: the reports after the poller's cursor, and the cursor to use next.
Poll(p) ==
    /\ heard' = [heard EXCEPT ![p] = @ \cup Given(cursor[p])]
    /\ cursor' = [cursor EXCEPT ![p] = NewCursor(@)]
    /\ order' = Trimmed
    /\ trimmed' = trimmed \cup {x[1] : x \in order \ Trimmed}
    /\ UNCHANGED <<life, byTrace, recency, seq, event>>

\* The orchestrator starts again; its pollers keep their cursors.
StartAgain ==
    /\ life < MaxLives /\ life' = life + 1
    /\ byTrace' = [t \in Decisions |-> <<>>] /\ recency' = <<>> /\ order' = {}
    /\ seq' = 0 /\ event' = <<>> /\ heard' = [p \in Pollers |-> {}] /\ trimmed' = {}
    /\ UNCHANGED cursor

\* _status: a divergence wins, whatever order the reports arrived in.
Status(t) == IF byTrace[t] = <<>> THEN "unknown"
             ELSE IF \E i \in DOMAIN byTrace[t] : event[byTrace[t][i]] = "divergence"
             THEN "diverged" ELSE "applied"

FeedNext ==
    \/ \E t \in Decisions, e \in {"applied", "divergence"} : Report(t, e)
    \/ \E p \in Pollers : Poll(p)
    \/ StartAgain

FeedSpec == FeedInit /\ [][FeedNext]_feedVars
-------------------------------------------------------------------------------
\* A poller that passed a report of a trace still kept has heard that report or
\* a later one of the trace: neither a batch that was cut short nor a trace that
\* was dropped in between makes the cursor skip it.  Held within one life, and
\* but for the reports the trim took out of _order.
PassedIsHeard ==
    life = 1 => \A p \in Pollers, t \in Decisions : \A i \in DOMAIN byTrace[t] :
        byTrace[t][i] <= cursor[p] /\ byTrace[t][i] \notin trimmed
            => \E n \in heard[p] : n \in Range(byTrace[t]) /\ n >= byTrace[t][i]

\* outcomes.py:146-147: a poller that advances is told what there was.  A cursor
\* from the life before passes over the first reports of this one.
NewLifeIsHeard ==
    \A p \in Pollers, t \in Decisions : \A i \in DOMAIN byTrace[t] :
        byTrace[t][i] <= cursor[p] /\ byTrace[t][i] \notin trimmed
            => \E n \in heard[p] : n \in Range(byTrace[t]) /\ n >= byTrace[t][i]

\* outcomes.py:190-197: any divergence answers no, in whatever order two reports
\* race.  A poll hands out the last report of a trace twice, and never the first.
DivergenceIsHeard ==
    \A p \in Pollers, t \in Decisions :
        Status(t) = "diverged" /\ (\A i \in DOMAIN byTrace[t] : byTrace[t][i] <= cursor[p])
            => \E n \in heard[p] : n \in Range(byTrace[t]) /\ event[n] = "divergence"

\* outcomes.py:166-167 trims what can no longer be served.  A poller that is
\* behind loses reports of traces the store still keeps.
KeptIsServed ==
    \A t \in Decisions : byTrace[t] # <<>> => Last(byTrace[t]) \notin trimmed
===============================================================================
