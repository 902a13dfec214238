------------------------------ MODULE ModelCalls ------------------------------
(* The brains that call a model: claude_code_brain.py runs `claude -p` once per *)
(* attempt, brain.py asks the API.  One instance serves every decision, so its *)
(* counters and its capability cache outlive a call; the decision loop calls    *)
(* it again for a repair.  A reason is the set of markers its text holds.       *)
EXTENDS Integers, SequencesExt

CONSTANTS Legal,        \* the action ids the world view offers
          Illegal,      \* ids it does not offer
          RawAttempts,  \* what NA_TRANSIENT_ATTEMPTS may hold: Unset, Junk or a number
          Unset, Junk,
          MaxRepairs,   \* Orchestrator.repair_attempts
          MaxDecisions  \* bound: decisions asked of the instance

ASSUME ModelCallsOK ==
    /\ Legal \cap Illegal = {}
    /\ RawAttempts \subseteq Int \cup {Unset, Junk}
    /\ MaxRepairs \in Nat /\ MaxDecisions \in Nat

VARIABLES lane,      \* which brain was built: "cli" or "api"
          raw,       \* NA_TRANSIENT_ATTEMPTS
          takes,     \* does the model take the configured effort level
          effortOk,  \* ClaudeBrain._effort_ok, "unknown" before the first probe
          served,    \* decisions finished
          scope,     \* the scope of the decision at hand
          call,      \* where the present call is
          attempt,   \* attempts of the present call, the running one included
          repairs,   \* repairs of the decision so far
          ran,       \* model requests sent for the decision
          effort,    \* did the last API request carry the effort level
          events,    \* provider events of the decision in the log, oldest first
          lost,      \* history: events of the decision the log would not take
          garbled,   \* CLI replies of the decision that were no JSON envelope
          uncaught,  \* CLI processes of the decision whose output raised what nothing in the
                     \* brain catches
          billed,    \* calls of the decision the provider charged for
          counters,  \* malformed and transient_retries of the instance
          record     \* what the decision's record holds
instance == <<lane, raw, takes>>
decision == <<served, scope, repairs>>
unread == <<garbled, uncaught>>
callVars == <<instance, effortOk, decision, call, attempt, ran, effort, events, lost,
              unread, billed, counters, record>>

-------------------------------------------------------------------------------
(* Reading the environment and a failure's text. *)
Clamp(lo, n, hi) == IF n < lo THEN lo ELSE IF n > hi THEN hi ELSE n

\* transient_attempts
Attempts(r) == IF r \in {Unset, Junk} THEN 2 ELSE Clamp(1, r, 4)

Markers == {"overloaded", "quota", "billing"}
Reasons == SUBSET Markers

\* _is_transient: a usage limit is never temporary, whatever else the text says.
IsTransient(r) == "quota" \notin r /\ "overloaded" \in r
\* _failure_class
FailureClass(r) == IF r \cap {"quota", "billing"} # {} THEN "quota"
                   ELSE IF IsTransient(r) THEN "transient" ELSE "other"
\* _why_it_failed: the diagnosis is what stdout and stderr hold together.  Of a stdout that
\* is JSON and no object there is none: reading it raises.
NoObject == {"no object"}
WhyItFailed(out, err) == out \cup err

\* model_for: only a turn-scope response has a place for directives.
MayIssue(s) == s = "turn"
\* validate: the choices the world view offered, repeats dropped, in order.
Kept(choices) ==
    FoldLeft(LAMBDA kept, c : IF c \in Legal \ Range(kept) THEN Append(kept, c) ELSE kept,
             <<>>, choices)
Replies == {<<>>} \cup {<<a>> : a \in Legal \cup Illegal}
                  \cup {<<a, b>> : a \in Legal \cup Illegal, b \in Legal}

NoRecord == [chosen |-> <<>>, degraded |-> FALSE, issued |-> FALSE, paid |-> 0]

CallsInit ==
    /\ lane \in {"cli", "api"} /\ raw \in RawAttempts /\ takes \in BOOLEAN
    /\ effortOk = "unknown" /\ served = 0 /\ scope = "none" /\ call = "idle"
    /\ attempt = 0 /\ repairs = 0 /\ ran = 0 /\ effort = FALSE
    /\ events = <<>> /\ lost = 0 /\ garbled = 0 /\ uncaught = 0 /\ billed = 0
    /\ counters = [malformed |-> 0, retries |-> 0] /\ record = NoRecord

\* A world view reaches the brain for the first time.
Asked(s) ==
    /\ call = "idle" /\ served < MaxDecisions
    /\ scope' = s /\ call' = IF lane = "cli" THEN "running" ELSE "probing"
    /\ attempt' = 1 /\ repairs' = 0 /\ ran' = IF lane = "cli" THEN 1 ELSE 0
    /\ events' = <<>> /\ lost' = 0 /\ garbled' = 0 /\ uncaught' = 0 /\ billed' = 0
    /\ record' = NoRecord
    /\ UNCHANGED <<instance, effortOk, served, effort, counters>>

-------------------------------------------------------------------------------
(* What the decision loop does with a call that raised or returned. *)
Ended == served' = served + 1 /\ call' = "idle"

\* BrainError, or anything else: the decision degrades at once, with no repair and no usage.
Raised ==
    /\ Ended
    /\ record' = [NoRecord EXCEPT !.degraded = TRUE]
    /\ UNCHANGED <<scope, attempt, repairs, ran>>

MayRepair == repairs < MaxRepairs

\* Orders came back: nothing legal in them asks for a repair while one is left,
\* and the record carries the usage of the call that ended the loop.
Returned(choices, issued) ==
    LET kept == Kept(choices) IN
    IF kept = <<>> /\ MayRepair
    THEN /\ repairs' = repairs + 1 /\ attempt' = 1
         /\ call' = IF lane = "cli" THEN "running" ELSE "probing"
         /\ ran' = IF lane = "cli" THEN ran + 1 ELSE ran
         /\ UNCHANGED <<served, scope, record>>
    ELSE /\ Ended
         /\ record' = [chosen |-> kept, degraded |-> kept = <<>>, issued |-> issued, paid |-> 1]
         /\ UNCHANGED <<scope, attempt, repairs, ran>>

-------------------------------------------------------------------------------
(* claude -p: one process per attempt. *)
\* _record_provider_call: what the log does not take is passed over.
Event(outcome, reason) ==
    \/ events' = Append(events, <<outcome, reason>>) /\ lost' = lost
    \/ events' = events /\ lost' = lost + 1

\* It overran its time or could not be started.
CliBreaks(reason) ==
    /\ lane = "cli" /\ call = "running"
    /\ Event("failure", reason) /\ Raised
    /\ UNCHANGED <<instance, effortOk, effort, unread, billed, counters>>

Again == attempt' = attempt + 1 /\ ran' = ran + 1

\* Mutant: a retried attempt leaves no event of its own.
RetryUnmetered(why) ==
    /\ attempt < Attempts(raw) /\ IsTransient(why)
    /\ counters' = [counters EXCEPT !.retries = @ + 1]
    /\ Again
    /\ UNCHANGED <<decision, call, record, events, lost>>

Retry(why) ==
    /\ attempt < Attempts(raw) /\ IsTransient(why)
    /\ Event("failure", FailureClass(why))
    /\ counters' = [counters EXCEPT !.retries = @ + 1]
    /\ Again
    /\ UNCHANGED <<decision, call, record>>

\* It exited non-zero: a temporary failure is tried again while attempts last.
CliExits(out, err) ==
    LET why == WhyItFailed(out, err) IN
    /\ lane = "cli" /\ call = "running" /\ out # NoObject
    /\ \/ Retry(why)
       \/ /\ attempt = Attempts(raw) \/ ~IsTransient(why)
          /\ Event("failure", FailureClass(why)) /\ Raised
          /\ UNCHANGED counters
    /\ UNCHANGED <<instance, effortOk, effort, unread, billed>>

\* It exited zero with something that is no envelope: no event is written.
CliGarbled ==
    /\ lane = "cli" /\ call = "running"
    /\ garbled' = garbled + 1 /\ Raised
    /\ UNCHANGED <<instance, effortOk, effort, events, lost, uncaught, billed, counters>>

\* It exited either way, with JSON that is no object: the search for the diagnosis, or for
\* the envelope's error, raises before an event is written.
CliThrows(out) ==
    /\ lane = "cli" /\ call = "running" /\ out = NoObject
    /\ uncaught' = uncaught + 1 /\ Raised
    /\ UNCHANGED <<instance, effortOk, effort, events, lost, garbled, billed, counters>>

\* It exited zero with an envelope: an error it reports, a cost that is no number, a reply
\* that holds no orders, or orders (no scope narrows what this lane may issue).
CliReplies ==
    /\ lane = "cli" /\ call = "running"
    /\ \/ \E why \in Reasons :
              Event("failure", FailureClass(why)) /\ Raised /\ UNCHANGED <<billed, counters>>
       \/ /\ Event("success", "none") /\ billed' = billed + 1
          /\ \/ Raised /\ UNCHANGED counters
             \/ Raised /\ counters' = [counters EXCEPT !.malformed = @ + 1]
             \/ \E choices \in Replies, issued \in BOOLEAN :
                    Returned(choices, issued) /\ UNCHANGED counters
    /\ UNCHANGED <<instance, effortOk, effort, unread>>

-------------------------------------------------------------------------------
(* The API: a capability probe the instance asks once, then the request. *)

\* _supports_effort: a probe that could not answer is a no, and is kept.
Probe(answered) == IF answered /\ takes THEN "yes" ELSE "no"

Sends == ran' = ran + 1 /\ call' = "asking"

ApiProbes ==
    /\ lane = "api" /\ call = "probing"
    /\ IF effortOk # "unknown" THEN UNCHANGED effortOk
       ELSE \E answered \in BOOLEAN : effortOk' = Probe(answered)
    /\ effort' = (effortOk' = "yes") /\ Sends
    /\ UNCHANGED <<instance, decision, attempt, events, lost, unread, billed, counters, record>>

\* The request raised: only a grammar that did not compile in time is asked
\* for a second time.
ApiRaises(grammar) ==
    /\ lane = "api" /\ call = "asking"
    /\ IF grammar /\ attempt < 2
       THEN Again /\ UNCHANGED <<decision, call, record>>
       ELSE Raised
    /\ UNCHANGED <<instance, effortOk, effort, events, lost, unread, billed, counters>>

\* An answer: refused or unparseable, or orders of the scope's schema.
ApiReplies ==
    /\ lane = "api" /\ call = "asking" /\ billed' = billed + 1
    /\ \/ Raised
       \/ \E choices \in Replies, issued \in {FALSE, MayIssue(scope)} : Returned(choices, issued)
    /\ UNCHANGED <<instance, effortOk, effort, events, lost, unread, counters>>

CallsNext ==
    \/ \E s \in {"turn", "base"} : Asked(s)
    \/ \E reason \in {"timeout", "exec"} : CliBreaks(reason)
    \/ \E out \in Reasons \cup {NoObject}, err \in Reasons : CliExits(out, err)
    \/ CliGarbled \/ CliThrows(NoObject) \/ CliReplies
    \/ ApiProbes \/ \E grammar \in BOOLEAN : ApiRaises(grammar)
    \/ ApiReplies

CallsSpec == CallsInit /\ [][CallsNext]_callVars
-------------------------------------------------------------------------------
CallsTypeOK ==
    /\ effortOk \in {"unknown", "yes", "no"} /\ served \in 0..MaxDecisions
    /\ scope \in {"none", "turn", "base"}
    /\ call \in {"idle", "running", "probing", "asking"}
    /\ attempt \in 0..IF lane = "api" THEN 2 ELSE Attempts(raw)
    /\ repairs \in 0..MaxRepairs /\ ran \in Nat /\ effort \in BOOLEAN
    /\ {garbled, uncaught} \subseteq 0..1 /\ lost \in 0..ran /\ billed \in 0..MaxRepairs + 1
    /\ record \in [chosen : {Kept(r) : r \in Replies}, degraded : BOOLEAN, issued : BOOLEAN,
                   paid : 0..1]

\* An unsupported effort level costs the whole decision (brain.py:117-119), so
\* no request of any later decision carries one the model does not take,
\* however the one probe behind it went.
EffortIsSupported == effort => takes

\* A decision blocks the game's thread for at most this many model requests:
\* the environment clamps the attempts to four, and the repairs multiply them.
BlockIsBounded ==
    ran <= (MaxRepairs + 1) * (IF lane = "api" THEN 2 ELSE 4)

\* Every process the lane ran is accounted for once, however its call went on: by its event
\* in the provider's log, or as one of the three that leave none, a reply that was no
\* envelope, output that raised past the brain, and an event the log would not take.  The
\* log's successes are calls that were charged for, and a charge it does not show is one of
\* the events it lost (claude_code_brain.py: decide, _record_provider_call).
EveryAttemptIsMetered ==
    lane = "cli" /\ call = "idle" =>
        LET succeeded == Cardinality({i \in DOMAIN events : events[i][1] = "success"})
        IN /\ Len(events) + lost + garbled + uncaught = ran
           /\ succeeded <= billed /\ billed <= succeeded + lost

\* README.md:425: "provider-neutral success/failure outcomes are appended" for the model
\* calls, whose attempts the sentence has just bounded.  Three outcomes are not.
OutcomesAreAppended == lane = "cli" /\ call = "idle" => Len(events) = ran

\* brain.py:183-184 has the record report actuals.  It holds the usage of the
\* last call alone: one thrown out and repaired, or one that could not be read,
\* was paid for and is on no record.
TokensAreActuals == call = "idle" /\ served > 0 => record.paid = billed

\* claude_code_brain.py:100-102 rules out retrying a limit; a text that names
\* a billing limit beside an overload is classed "quota" and tried again.
LimitsAreNotRetried ==
    [][counters'.retries > counters.retries => Last(events')[2] # "quota"]_callVars

\* response.py:21-22: a base-scope choice sets no policy.  The CLI lane parses
\* the wire contract, which has the field at every scope.
BaseSetsNoPolicy == scope = "base" => ~record.issued
===============================================================================
