------------------------------- MODULE AgentDesk -------------------------------
(* mcp_server.py against the /agent endpoints of service.py: the tools of an    *)
(* agent as calls over HTTP, each with the client's time limit on one side and  *)
(* the handler's on the other, and what the agent has read, which outlives both *)
(* processes.  The waking and the closing of a decision are DecisionQueue's; a  *)
(* decision here is open or closed.                                             *)
EXTENDS Naturals, FiniteSets

CONSTANTS Desks,        \* agents, each with its MCP process
          Menu,         \* action ids
          Waits,        \* what next_decision is asked to wait
          WaitCap,      \* agent_next: min(wait, 110.0)
          HttpTimeout,  \* mcp_server.HTTP_TIMEOUT, 120 s
          Slack,        \* how late a handler that has an answer may send it
          MaxOpened,    \* bound: decisions opened in one life of the orchestrator
          MaxServices   \* bound: lives of the orchestrator

ASSUME DeskTimes == /\ {WaitCap, HttpTimeout, Slack, MaxOpened, MaxServices} \subseteq Nat
                    /\ Waits \subseteq Nat
                    /\ WaitCap + Slack < HttpTimeout

VARIABLES service,   \* which life of the orchestrator this is
          numbered,  \* how many decisions this life has numbered
          queue,     \* its open decisions: number |-> [space, claimed]
          asked,     \* each desk's call: [tool, wait, age], or NoCall
          listener,  \* who would hear the reply: "client", or, once nobody does, why
          holds,     \* what the agent has read: [number, service, space], or Nothing
          strays,    \* history: answers and plans taken for a decision the agent had not read
          unheard    \* history: decisions claimed for nobody, each with why

deskVars == <<service, numbered, queue, asked, listener, holds, strays, unheard>>

NoCall == [tool |-> "none", wait |-> 0, age |-> 0]
Nothing == [number |-> 0, service |-> 0, space |-> {}]

DeskInit == /\ service = 1 /\ numbered = 0 /\ queue = <<>>
            /\ asked = [a \in Desks |-> NoCall] /\ listener = [a \in Desks |-> "nobody"]
            /\ holds = [a \in Desks |-> Nothing]
            /\ strays = {} /\ unheard = {}

Service == UNCHANGED <<service, numbered, queue>>
Without(n) == [m \in DOMAIN queue \ {n} |-> queue[m]]

(*---------------------------------------------------------------------------*)
(* The rest of the system.                                                    *)

\* A decision is numbered by a counter of the process.
Opens == /\ numbered < MaxOpened /\ numbered' = numbered + 1
         /\ \E space \in SUBSET Menu \ {{}} :
              queue' = [m \in DOMAIN queue \cup {numbered + 1} |->
                          IF m \in DOMAIN queue THEN queue[m]
                          ELSE [space |-> space, claimed |-> FALSE]]
         /\ UNCHANGED <<service, asked, listener, holds, strays, unheard>>

\* The deadline, a newer game: the decision closes unanswered.
Closes(n) == /\ n \in DOMAIN queue /\ queue' = Without(n)
             /\ UNCHANGED <<service, numbered, asked, listener, holds, strays, unheard>>

\* The connections drop with the process: each client is told the service is
\* unreachable.  What the agents have read is theirs.
ServiceRestarts == /\ service < MaxServices /\ service' = service + 1
                   /\ numbered' = 0 /\ queue' = <<>>
                   /\ asked' = [a \in Desks |-> NoCall] /\ listener' = [a \in Desks |-> "nobody"]
                   /\ UNCHANGED <<holds, strays, unheard>>

\* Mutant: the wait is what the caller asked for.
AsAsked(wait) == wait
Capped(wait) == IF wait < WaitCap THEN wait ELSE WaitCap

Unclaimed == {n \in DOMAIN queue : ~queue[n].claimed}
Due(a) == CASE asked[a].tool = "none" -> FALSE
            [] asked[a].tool = "next" -> Unclaimed # {} \/ asked[a].age >= Capped(asked[a].wait)
            [] OTHER -> TRUE
Grows(a) == asked[a].tool # "none"
Hears(a) == listener[a] = "client"

\* Time passes for the calls under way, as long as no handler is later than Slack
\* with an answer it has.
DeskTick == /\ \E a \in Desks : Grows(a)
            /\ \A a \in Desks : Due(a) => asked[a].age < Capped(asked[a].wait) + Slack
            /\ \A a \in Desks : Hears(a) => asked[a].age < HttpTimeout
            /\ asked' = [a \in Desks |-> IF Grows(a) THEN [asked[a] EXCEPT !.age = @ + 1] ELSE NoCall]
            /\ UNCHANGED <<service, numbered, queue, listener, holds, strays, unheard>>

(*---------------------------------------------------------------------------*)
(* The client: one call of a desk at a time; a desk whose client has given up *)
(* calls again once the handler it left behind is done (a bound).             *)

Calls(a, tool, wait) == /\ asked[a] = NoCall
                        /\ asked' = [asked EXCEPT ![a] = [tool |-> tool, wait |-> wait, age |-> 0]]
                        /\ listener' = [listener EXCEPT ![a] = "client"]
                        /\ Service /\ UNCHANGED <<holds, strays, unheard>>

NextDecision(a) == \E wait \in Waits : Calls(a, "next", wait)
\* submit_orders and issue_directive quote a decision the agent has read.
SubmitOrders(a) == holds[a] # Nothing /\ Calls(a, "submit", 0)
IssueDirective(a) == holds[a] # Nothing /\ Calls(a, "directive", 0)

\* urlopen's timeout: the handler knows nothing of it.
ClientGivesUp(a) == /\ Hears(a) /\ asked[a].age >= HttpTimeout
                    /\ listener' = [listener EXCEPT ![a] = "gave up"]
                    /\ Service /\ UNCHANGED <<asked, holds, strays, unheard>>

\* The MCP process is restarted under a call.
DeskRestarts(a) == /\ Hears(a)
                   /\ listener' = [listener EXCEPT ![a] = "restarted"]
                   /\ Service /\ UNCHANGED <<asked, holds, strays, unheard>>

Replied(a) == asked' = [asked EXCEPT ![a] = NoCall] /\ listener' = [listener EXCEPT ![a] = "nobody"]

(*---------------------------------------------------------------------------*)
(* The handlers.                                                              *)

\* agent_next: the oldest unclaimed decision, whoever still listens for it ...
Hands(a) ==
    /\ asked[a].tool = "next" /\ Unclaimed # {}
    /\ LET n == CHOOSE m \in Unclaimed : \A k \in Unclaimed : m <= k
       IN  /\ queue' = [queue EXCEPT ![n].claimed = TRUE]
           /\ holds' = IF Hears(a)
                         THEN [holds EXCEPT ![a] = [number |-> n, service |-> service,
                                                    space |-> queue[n].space]]
                         ELSE holds
           /\ unheard' = IF Hears(a) THEN unheard
                         ELSE unheard \cup {[of |-> <<service, n>>, why |-> listener[a]]}
    /\ Replied(a) /\ UNCHANGED <<service, numbered, strays>>

\* ... or nothing, once its wait is over.
HandsNothing(a) == /\ asked[a].tool = "next" /\ Unclaimed = {}
                   /\ asked[a].age >= Capped(asked[a].wait)
                   /\ Replied(a) /\ Service /\ UNCHANGED <<holds, strays, unheard>>

\* What lands on the decision now open under the id an agent read.
Lands(a) == strays' = IF holds[a].service = service THEN strays
                      ELSE strays \cup {[read |-> <<holds[a].service, holds[a].number>>,
                                        of |-> <<service, holds[a].number>>]}

\* agent_directive: 409 unless the decision is open (peek), else attached to it; what
\* becomes of a plan is DirectiveStore's.
Attaches(a) == /\ asked[a].tool = "directive"
               /\ IF holds[a].number \in DOMAIN queue THEN Lands(a) ELSE UNCHANGED strays
               /\ Replied(a) /\ Service /\ UNCHANGED <<holds, unheard>>

\* agent_submit: 422 for an action the decision under that id does not offer, 409
\* when none is open, and otherwise the answer.
Offers(n, action) == \E m \in DOMAIN queue : m = n /\ action \in queue[m].space
Takes(a, action) ==
    /\ asked[a].tool = "submit" /\ action \in holds[a].space
    /\ IF Offers(holds[a].number, action)
         THEN Lands(a) /\ queue' = Without(holds[a].number)
         ELSE UNCHANGED <<queue, strays>>
    /\ Replied(a) /\ UNCHANGED <<service, numbered, holds, unheard>>

DeskNext ==
    \/ Opens \/ ServiceRestarts \/ DeskTick \/ \E n \in 1..MaxOpened : Closes(n)
    \/ \E a \in Desks : \/ NextDecision(a) \/ SubmitOrders(a) \/ IssueDirective(a)
                        \/ ClientGivesUp(a) \/ DeskRestarts(a) \/ Hands(a) \/ HandsNothing(a) \/ Attaches(a)
                        \/ \E action \in Menu : Takes(a, action)

DeskSpec == DeskInit /\ [][DeskNext]_deskVars

(*---------------------------------------------------------------------------*)
(* Properties.                                                                *)

DeskTypeOK == /\ service \in 1..MaxServices /\ numbered \in 0..MaxOpened
              /\ DOMAIN queue \subseteq 1..numbered
              /\ \A a \in Desks : /\ asked[a].tool \in {"none", "next", "submit", "directive"}
                                  /\ asked[a].age \in 0..HttpTimeout + Slack
                                  /\ Hears(a) => asked[a] # NoCall

\* No decision is claimed for an agent that has stopped listening: however long it
\* asked to wait, the orchestrator's limit ends before its client's (110 s in
\* agent_next, 120 s in mcp_server.py), and a claimed decision is not handed out again.
ClaimIsHeard == \A u \in unheard : u.why # "gave up"

\* "an MCP process that can be restarted without dropping a game" (mcp_server.py):
\* a restart loses no decision.
RestartLosesNothing == \A u \in unheard : u.why # "restarted"

\* One decision is in the hands of one agent.
HandedOnce == \A a, b \in Desks : a # b /\ holds[a] = holds[b] => holds[a] = Nothing

\* "The counter alone still makes the id unique" (DecisionQueue.post): an answer is
\* taken only for the decision the agent read under that id.
AnswersWhatWasRead == strays = {}
================================================================================
