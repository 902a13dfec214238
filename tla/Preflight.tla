------------------------------- MODULE Preflight -------------------------------
(* scripts/play-preflight.py: the rows a preflight reports, read one service    *)
(* after another from a host that changes under it, and its test of the board   *)
(* server on a scratch tenant that every preflight shares.                      *)
EXTENDS Naturals, FiniteSets

CONSTANTS Checkers,    \* preflights
          Hosts,       \* records: what the machine is configured to be
          TooTight,    \* 30 000 ms, in the unit of the deadlines
          MaxRestarts \* bound: restarts of its services

Builds == {"unset", "down", "merges", "replaces"}
HostShape == [brain : {"agent", "model", "down"},
              knowledge : {"grounded", "blind-allowed", "unreported"},
              telemetry : BOOLEAN,
              mcp : {"absent", "unreadable", "other", "listed"},
              ini : {"no play directory", "no file", "no line", "not a number", "number"},
              deadline : Nat,
              quipu : {"unset", "down", "rejects", "answers"},
              yupana : Builds]

ASSUME HostShapes == Hosts \subseteq HostShape /\ TooTight \in Nat
ASSUME RestartBound == MaxRestarts \in Nat

VARIABLES host,      \* the machine
          life,      \* the life of the board server: sessions do not outlive it
          board,     \* the entities on its scratch tenant
          check,     \* each preflight: [at, rows, session]
          moved,
          spokeTo    \* history: the build a preflight's session was opened on

preflightVars == <<host, life, board, check, moved, spokeTo>>

Row(status, blocking, what) == [status |-> status, blocking |-> blocking, what |-> what]
Fresh == [at |-> "orchestrator", rows |-> {}, session |-> 0]

PreflightInit == /\ host \in Hosts /\ life = 1 /\ board = {}
                 /\ check = [c \in Checkers |-> Fresh]
                 /\ moved = 0
                 /\ spokeTo = [c \in Checkers |-> "nothing"]

(*---------------------------------------------------------------------------*)
(* The machine, external: its services are restarted, another build among     *)
(* them; the scratch tenant may or may not survive the restart.               *)

OrchestratorRestarts(brain) ==
    /\ moved < MaxRestarts /\ moved' = moved + 1
    /\ host' = [host EXCEPT !.brain = brain]
    /\ UNCHANGED <<life, board, check, spokeTo>>

YupanaRestarts(build) ==
    /\ moved < MaxRestarts /\ moved' = moved + 1 /\ host.yupana # "unset"
    /\ host' = [host EXCEPT !.yupana = build]
    /\ life' = life + 1 /\ board' \in {board, {}}
    /\ UNCHANGED <<check, spokeTo>>

(*---------------------------------------------------------------------------*)
(* The checks, in main's order.                                               *)

Blocked(c) == \E r \in check[c].rows : r.status = "fail" /\ r.blocking

Goes(c, at, rows) == check' = [check EXCEPT ![c].at = at, ![c].rows = @ \cup rows]
HostKept == UNCHANGED <<host, life, board, moved>>

GroundingRow == CASE host.knowledge = "grounded" -> Row("ok", TRUE, "grounding")
                  [] host.knowledge = "blind-allowed" -> Row("warn", FALSE, "grounding")
                  [] OTHER -> Row("fail", TRUE, "grounding")

\* check_orchestrator: another brain, or none, is the only row it adds.
CheckOrchestrator(c) ==
    /\ check[c].at = "orchestrator"
    /\ \/ /\ host.brain # "agent"
          /\ Goes(c, "settings", {Row("fail", TRUE, "orchestrator")})
       \/ /\ host.brain = "agent"
          /\ Goes(c, IF GroundingRow.status = "fail" THEN "settings" ELSE "queue",
                  {Row("ok", TRUE, "orchestrator"), GroundingRow}
                  \cup (IF host.telemetry THEN {} ELSE {Row("warn", FALSE, "telemetry")}))
    /\ HostKept /\ UNCHANGED spokeTo

\* check_agent_queue: mounted only under the agent brain.
CheckAgentQueue(c) ==
    /\ check[c].at = "queue"
    /\ Goes(c, "settings", {Row(IF host.brain = "agent" THEN "ok" ELSE "fail", TRUE, "agent queue")})
    /\ HostKept /\ UNCHANGED spokeTo

McpRow == CASE host.mcp = "unreadable" -> Row("fail", TRUE, "mcp config")
            [] host.mcp = "listed" -> Row("ok", FALSE, "mcp config")
            [] OTHER -> Row("warn", FALSE, "mcp config")

TimeoutRow ==
    CASE host.ini \in {"no play directory", "no file"} -> Row("warn", FALSE, "llm_timeout_ms")
      [] host.ini \in {"no line", "not a number"} -> Row("fail", TRUE, "llm_timeout_ms")
      [] OTHER -> Row(IF host.deadline = 0 \/ host.deadline >= TooTight THEN "ok" ELSE "fail",
                      TRUE, "llm_timeout_ms")

QuipuRow == Row(IF host.quipu = "answers" THEN "ok" ELSE "warn", FALSE, "quipu")

\* check_mcp_config, check_timeout and check_quipu: nothing here changes what they read.
CheckSettings(c) ==
    /\ check[c].at = "settings"
    /\ Goes(c, "yupana", {McpRow, TimeoutRow, QuipuRow})
    /\ HostKept /\ UNCHANGED spokeTo

\* check_yupana: unset or unreachable is a warning, and anything that answers is probed.
CheckYupana(c) ==
    /\ check[c].at = "yupana"
    /\ IF host.yupana \in {"unset", "down"}
         THEN Goes(c, "done", {Row("warn", FALSE, "yupana")})
         ELSE Goes(c, "first", {Row("ok", FALSE, "yupana")})
    /\ HostKept /\ UNCHANGED spokeTo

\* Mutant: the first write names only what the second one repeats.
SameAgain == {"a"}
\* check_replace, which writes two entities, then one of them with replace, then
\* reads the count off a third write.
Scratch == {"a", "b"}
Ingested(replace, entities) ==
    IF replace /\ host.yupana = "replaces" THEN entities ELSE board \cup entities

\* A call of a session the server no longer knows raises, as does one to a dead server.
Refused(c) == /\ check[c].at \in {"first", "second", "third"}
              /\ \/ host.yupana = "down"
                 \/ check[c].session \notin {0, life}
              /\ Goes(c, "done", {Row("warn", FALSE, "yupana replace")})
              /\ HostKept /\ UNCHANGED spokeTo

Answered(c, at) == /\ check[c].at = at /\ host.yupana # "down"
                   /\ check[c].session \in {0, life}

FirstWrite(c) == /\ Answered(c, "first")
                 /\ board' = Ingested(FALSE, Scratch)
                 /\ check' = [check EXCEPT ![c].at = "second", ![c].session = life]
                 /\ spokeTo' = [spokeTo EXCEPT ![c] = host.yupana]
                 /\ UNCHANGED <<host, life, moved>>
SecondWrite(c) == /\ Answered(c, "second")
                  /\ board' = Ingested(TRUE, {"a"})
                  /\ Goes(c, "third", {})
                  /\ UNCHANGED <<host, life, moved, spokeTo>>
ThirdWrite(c) ==
    /\ Answered(c, "third")
    /\ board' = Ingested(FALSE, {"a"})
    /\ Goes(c, "done", {Row(IF Cardinality(board') = 1 THEN "ok" ELSE "warn", FALSE, "yupana replace")})
    /\ UNCHANGED <<host, life, moved, spokeTo>>

PreflightNext ==
    \/ \E brain \in {"agent", "model", "down"} : OrchestratorRestarts(brain)
    \/ \E build \in {"down", "merges", "replaces"} : YupanaRestarts(build)
    \/ \E c \in Checkers :
         \/ CheckOrchestrator(c) \/ CheckAgentQueue(c) \/ CheckSettings(c) \/ CheckYupana(c)
         \/ Refused(c) \/ FirstWrite(c) \/ SecondWrite(c) \/ ThirdWrite(c)

PreflightSpec == PreflightInit /\ [][PreflightNext]_preflightVars

(*---------------------------------------------------------------------------*)
(* Properties.                                                                *)

Ready(c) == check[c].at = "done" /\ ~Blocked(c)
ReportedHonoured(c) == Row("ok", FALSE, "yupana replace") \in check[c].rows
ReportedIgnored(c) == check[c].at = "done" /\ spokeTo[c] # "nothing" /\ ~ReportedHonoured(c)

PreflightTypeOK ==
    /\ board \subseteq Scratch /\ life \in 1..MaxRestarts + 1 /\ moved \in 0..MaxRestarts
    /\ \A c \in Checkers :
         /\ check[c].session \in 0..life
         /\ check[c].at \in {"orchestrator", "queue", "settings", "yupana",
                             "first", "second", "third", "done"}

\* A board server that merges is never reported to honour replace, whatever other
\* preflights left on the scratch tenant and whatever was restarted between the
\* three writes ("this tests the mechanism rather than a number", check_replace).
IgnoredIsSaid ==
    \A c \in Checkers : ReportedHonoured(c) => spokeTo[c] = "replaces"

\* "That is true of a build that has the feature" (check_replace): a build that
\* replaces, and was there throughout, is not reported to ignore it.
HonouredIsSaid ==
    \A c \in Checkers : ReportedIgnored(c) /\ life = 1 /\ host.yupana # "down"
                           => spokeTo[c] # "replaces"
================================================================================
