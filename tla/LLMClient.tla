------------------------------- MODULE LLMClient -------------------------------
(***************************************************************************)
(* The language-model clients (agents/llm_client.py): how a run gets its   *)
(* client, what a client asks of the endpoint, and what it makes of the    *)
(* reply.  One behaviour is one run: the factory builds a client or        *)
(* refuses, then the Optimizer calls complete() once per round, without    *)
(* reasoning in the first round of a cycle and with it in a revision.      *)
(*                                                                         *)
(* Tokens are counted, text is not spelled out.  What a model writes is a  *)
(* generation: a trace of some tokens that may hold an object in braces (a *)
(* draft), then the answer.  The endpoint cuts it at max_tokens.           *)
(***************************************************************************)
EXTENDS Integers

CONSTANTS
  Admissible,       \* the setpoint pairs SetpointProposalInput accepts
  Nominal, Interim, \* the two pairs the mock can propose
  Unbounded,        \* an object that is JSON and breaks the schema
  Prose,            \* text without an object in braces
  Garbled,          \* braces around something that is not JSON
  None,
  Traces,           \* lengths a reasoning trace would have if left alone
  Budgets,          \* values given with --reasoning-budget
  AnswerTokens,     \* length of the JSON answer
  MaxRetries,       \* attempts the openai SDK adds of its own accord
  MaxCalls          \* bound: completions of one run

ASSUME AdmissibleAssumption ==
  /\ {Nominal, Interim} \subseteq Admissible
  /\ {Unbounded, Garbled, Prose, None} \cap Admissible = {}
  /\ Unbounded \notin {Garbled, Prose, None} /\ Garbled # None /\ Prose # None

ASSUME TokensAssumption ==
  /\ Traces \subseteq Nat /\ Budgets \subseteq Nat /\ None \notin Nat
  /\ AnswerTokens \in Nat \ {0}
  /\ MaxRetries \in Nat /\ MaxCalls \in Nat

VARIABLES
  settings,  \* the environment and the command line of the run
  client,    \* the client built, None before
  pc,        \* "start", "idle", "sent", "answered", "raised", "done"
  request,   \* the request of the call in progress
  reply,     \* what came back for it
  attempts,  \* times it has been posted
  outcome,   \* what the last call returned or raised
  calls      \* completions returned so far

vars == <<settings, client, pc, request, reply, attempts, outcome, calls>>

Families == {"super49b", "super120b", "deepseek"}

Objects == Admissible \cup {Unbounded, Garbled}

\* A run's environment and command line; a field its backend does not read has
\* one value only.
Settings ==
  LET Read(backend, complete, model, budget, sanctioned, policy) ==
        [backend    : backend,
         complete   : complete,     \* every required variable is set
         model      : model,        \* the model served
         budget     : budget,       \* --reasoning-budget, None without
         sanctioned : sanctioned,   \* pytest is active, or allow_mock
         policy     : policy]
      Models == Families \cup {"unlisted"}
  IN  Read({"nim"}, BOOLEAN, Models, Budgets \cup {None}, {FALSE}, {"nominal"})
      \cup Read({"mac-studio", "lm-studio"}, {TRUE}, Models, {None}, {FALSE}, {"nominal"})
      \cup Read({"mock"}, {TRUE}, {"unlisted"}, {None}, BOOLEAN, {"nominal", "adaptive"})
      \cup Read({"other"}, {TRUE}, {"unlisted"}, {None}, {FALSE}, {"nominal"})

Protocols ==
  [convention : {"marker", "nemotron_extra_body", "deepseek_extra_body", "unmanaged"},
   budget : Nat \cup {None}]

Clients == [transport : {"httpx", "openai", "langchain", "none"}, protocol : Protocols]

Requests == [reasoning : BOOLEAN, budget : Nat \cup {None}, maxTokens : Nat]

Failures == [kind : {"unreachable", "busy", "rejected", "not_json", "no_message"}]

\* The usage block: there with its fields, without one of them or not there, not
\* an object, or with fields that are not numbers.
Usages == {"full", "missing", "no_object", "no_numbers"}

Messages ==
  [kind : {"message"}, thinking : BOOLEAN, trace : Nat, draft : Objects \cup {None},
   answer : Objects \cup {None}, usage : Usages,
   content : Objects \cup {Prose, None}]

Errors ==
  {"MissingBackendConfigError", "UnknownReasoningProtocolError", "MockLLMClientMisuseError",
   "ValueError", "LLMEndpointUnreachableError", "LLMServerError", "LLMResponseFormatError",
   "MissingUsageError", "LLMResponseParseError", "ValidationError",
   "AttributeError", "IndexError", "TypeError"}

Outcomes ==
  [kind : {"proposal"}, value : Admissible] \cup [kind : {"error"}, value : Errors]

ASSUME NoneAssumption ==
  None \notin Clients /\ None \notin Requests /\ None \notin Failures
  /\ None \notin Messages /\ None \notin Outcomes /\ None \notin Errors

----------------------------------------------------------------------------
(* Reasoning protocols: one convention per model family.                   *)

\* Mutant: the registry hands the marker protocol to the whole vendor.
Protocol_ByVendor(model, override) ==
  [convention |-> IF model = "deepseek" THEN "deepseek_extra_body" ELSE "marker",
   budget |-> None]

\* _PROTOCOL_REGISTRY, by the family a model identifier belongs to.
Protocol(model, override) ==
  CASE model = "super49b"  -> [convention |-> "marker", budget |-> None]
    [] model = "super120b" ->
         [convention |-> "nemotron_extra_body",
          budget |-> IF override # None THEN override ELSE 4096]
    [] model = "deepseek"  -> [convention |-> "deepseek_extra_body", budget |-> None]

MaxTokens(convention, reasoning) ==
  CASE convention = "unmanaged"           -> 256
    [] convention = "deepseek_extra_body" -> 8192
    [] OTHER                              -> IF reasoning THEN 4096 ELSE 512

\* The conventions under which the server writes the trace into a field of its own.
Separated == {"nemotron_extra_body", "deepseek_extra_body"}

\* apply_to_system_prompt, and the same in the MLX client.
Marked(convention, reasoning) == convention = "marker" /\ ~reasoning

\* The 49B family's chat template, which the MLX client renders itself: unless the
\* marker is in the system text, the model is left to think.
EnableThinking(marked) == ~marked

\* The flag in the body that the templates of the other families read, on their
\* servers.
Flag == [super120b |-> "nemotron_extra_body", deepseek |-> "deepseek_extra_body"]

\* Whether the served model thinks.  One that is not asked in its own convention
\* does as it pleases.
Thinking(convention, reasoning, model) ==
  CASE model = "super49b" -> {EnableThinking(Marked(convention, reasoning))}
    [] model \in DOMAIN Flag /\ convention = Flag[model] -> {reasoning}
    [] OTHER -> BOOLEAN

----------------------------------------------------------------------------
(* The factory.                                                            *)

Refusal(s) ==
  CASE s.backend = "nim" /\ ~s.complete         -> "MissingBackendConfigError"
    [] s.backend = "nim" /\ s.complete /\ s.model \notin Families
                                                -> "UnknownReasoningProtocolError"
    [] s.backend = "mock" /\ ~s.sanctioned      -> "MockLLMClientMisuseError"
    [] s.backend = "other"                      -> "ValueError"
    [] OTHER                                    -> None

\* build_llm_client, and the direct constructions of the two other clients.
NewClient(s) ==
  CASE s.backend = "nim" ->
         [transport |-> "httpx", protocol |-> Protocol(s.model, s.budget)]
    [] s.backend = "mac-studio" ->
         [transport |-> "openai", protocol |-> [convention |-> "marker", budget |-> None]]
    [] s.backend = "lm-studio" ->
         [transport |-> "langchain", protocol |-> [convention |-> "unmanaged", budget |-> None]]
    [] s.backend = "mock" ->
         [transport |-> "none", protocol |-> [convention |-> "unmanaged", budget |-> None]]

Returned(p) == [kind |-> "proposal", value |-> p]
Raised(e)   == [kind |-> "error", value |-> e]

Init ==
  /\ settings \in Settings
  /\ client = None /\ pc = "start"
  /\ request = None /\ reply = None /\ attempts = 0
  /\ outcome = None /\ calls = 0

BuildRefused ==
  /\ pc = "start" /\ Refusal(settings) # None
  /\ pc' = "raised" /\ outcome' = Raised(Refusal(settings))
  /\ UNCHANGED <<settings, client, request, reply, attempts, calls>>

Build ==
  /\ pc = "start" /\ Refusal(settings) = None
  /\ client' = NewClient(settings)
  /\ pc' = "idle"
  /\ UNCHANGED <<settings, request, reply, attempts, outcome, calls>>

----------------------------------------------------------------------------
(* One completion.                                                         *)

\* MockLLMClient.complete: no network, the pair follows the policy.
MockComplete ==
  /\ pc = "idle" /\ calls < MaxCalls /\ client.transport = "none"
  /\ \E offNominal \in BOOLEAN :
       outcome' = Returned(IF settings.policy = "adaptive" /\ offNominal
                           THEN Interim ELSE Nominal)
  /\ calls' = calls + 1
  /\ UNCHANGED <<settings, client, pc, request, reply, attempts>>

\* The request is put together and posted.
Call(reasoning) ==
  /\ pc = "idle" /\ calls < MaxCalls /\ client.transport # "none"
  /\ request' = [reasoning |-> reasoning,
                 budget    |-> IF reasoning THEN client.protocol.budget ELSE None,
                 maxTokens |-> MaxTokens(client.protocol.convention, reasoning)]
  /\ attempts' = 1 /\ pc' = "sent"
  /\ reply' = None /\ outcome' = None
  /\ UNCHANGED <<settings, client, calls>>

\* Tokens of trace that are generated: the server stops it at the budget.
TraceTokens(thinking, trace) ==
  IF ~thinking THEN 0
  ELSE IF request.budget # None /\ request.budget < trace
       THEN request.budget ELSE trace

\* What the first search for braces finds in the message's text: an object of a
\* trace that is written inline, before the answer; an answer that does not fit
\* is cut and has no brace to close it.  None is the null content of a server
\* that separates the trace and found nothing behind it.
FirstObject(trace, draft, answer) ==
  IF client.protocol.convention \in Separated /\ trace >= request.maxTokens THEN None
  ELSE IF client.protocol.convention \notin Separated /\ trace > 0 /\ draft # None THEN draft
  ELSE IF answer # None /\ trace + AnswerTokens <= request.maxTokens THEN answer
  ELSE Prose

Message(thinking, trace, draft, answer, usage, content) ==
  [kind |-> "message", thinking |-> thinking, trace |-> TraceTokens(thinking, trace),
   draft |-> draft, answer |-> answer, usage |-> usage,
   content |-> content]

\* No connection or a timeout; a status that invites another attempt (408, 409,
\* 429, 5xx); any other status of 400 and above; a body nothing can be read from.
Failure(kind) == [kind |-> kind]

\* Any server may also send a message whose content is null.
Answer ==
  /\ pc = "sent"
  /\ \/ \E kind \in {"unreachable", "busy", "rejected", "not_json", "no_message"} :
          reply' = Failure(kind)
     \/ \E thinking \in Thinking(client.protocol.convention, request.reasoning, settings.model),
           trace \in Traces, draft, answer \in Objects \cup {None}, usage \in Usages :
        \E content \in {None, FirstObject(TraceTokens(thinking, trace), draft, answer)} :
          reply' = Message(thinking, trace, draft, answer, usage, content)
  /\ pc' = "answered"
  /\ UNCHANGED <<settings, client, request, attempts, outcome, calls>>

\* OpenAI(...) and ChatOpenAI(...) are built without max_retries: the SDK
\* posts again after a connection error and after a status it may retry.
Retries(kind) ==
  client.transport \in {"openai", "langchain"} /\ kind \in {"unreachable", "busy"}

SdkRetry ==
  /\ pc = "answered" /\ Retries(reply.kind) /\ attempts <= MaxRetries
  /\ attempts' = attempts + 1 /\ pc' = "sent" /\ reply' = None
  /\ UNCHANGED <<settings, client, request, outcome, calls>>

\* _parse_setpoint_json: the first object in braces, or an error.
Parsed(content) ==
  IF content \in {Prose, Garbled} THEN Raised("LLMResponseParseError")
  ELSE IF content = Unbounded THEN Raised("ValidationError")
  ELSE Returned(content)

\* The error of a reply without a message.  What goes wrong inside invoke() or
\* create() is caught there; what create() hands on is not looked at before
\* reply.choices[0].text is read: it may be the body's text (no JSON), or have no
\* choices (an empty list, or none: then the AttributeError or TypeError of that).
NameOf(kind) ==
  CASE client.transport = "httpx" ->
         (CASE kind = "unreachable"             -> "LLMEndpointUnreachableError"
            [] kind \in {"busy", "rejected"}    -> "LLMServerError"
            [] kind \in {"not_json", "no_message"} -> "LLMResponseFormatError")
    [] client.transport = "openai" /\ kind = "not_json"   -> "AttributeError"
    [] client.transport = "openai" /\ kind = "no_message" -> "IndexError"
    [] OTHER -> "LLMEndpointUnreachableError"

\* int() of the token counts, once there is a pair.
Counted(r) ==
  IF r.usage = "no_numbers" /\ Parsed(r.content).kind = "proposal"
  THEN Raised("ValueError") ELSE Parsed(r.content)

\* Without the NIM client's guard on the content, a null reaches the parser.
UsageThenText(r) ==
  CASE r.usage = "missing"   -> Raised("MissingUsageError")
    [] r.usage = "no_object" -> Raised(IF client.transport = "openai" THEN "MissingUsageError"
                                       ELSE "AttributeError")
    [] OTHER                 -> IF r.content = None THEN Raised("TypeError") ELSE Counted(r)

\* Mutants: the NIM client, too, lets a null content through; the trace stands in
\* for it.
Interpreted_NullContent(r) ==
  IF r.kind # "message" THEN Raised(NameOf(r.kind)) ELSE UsageThenText(r)

Interpreted_TraceForContent(r) ==
  IF r.kind # "message" THEN Raised(NameOf(r.kind))
  ELSE IF r.content = None
       THEN Parsed(IF r.draft = None THEN Prose ELSE r.draft)
  ELSE UsageThenText(r)

\* The checks of complete, in the order each client makes them.  LangChain turns a
\* null content into an empty one, and nobody looks at its usage.
Interpreted(r) ==
  CASE r.kind # "message" -> Raised(NameOf(r.kind))
    [] r.kind = "message" /\ client.transport = "langchain" ->
         Parsed(IF r.content = None THEN Prose ELSE r.content)
    [] r.kind = "message" /\ client.transport = "httpx" /\ r.content = None ->
         Raised("LLMResponseFormatError")
    [] OTHER -> UsageThenText(r)

\* Mutant: a reply that does not parse is asked for again, from the start.
Finish_AsksAgain ==
  /\ pc = "answered"
  /\ ~(Retries(reply.kind) /\ attempts <= MaxRetries)
  /\ UNCHANGED <<settings, client, request>>
  /\ LET result == Interpreted(reply)
     IN  IF result = Raised("LLMResponseParseError")
         THEN /\ pc' = "sent" /\ reply' = None /\ outcome' = None /\ attempts' = 1
              /\ UNCHANGED calls
         ELSE /\ outcome' = result /\ UNCHANGED <<reply, attempts>>
              /\ IF result.kind = "proposal"
                 THEN pc' = "idle" /\ calls' = calls + 1
                 ELSE pc' = "raised" /\ UNCHANGED calls

Finish ==
  /\ pc = "answered"
  /\ ~(Retries(reply.kind) /\ attempts <= MaxRetries)
  /\ outcome' = Interpreted(reply)
  /\ IF outcome'.kind = "proposal"
     THEN pc' = "idle" /\ calls' = calls + 1
     ELSE pc' = "raised" /\ UNCHANGED calls
  /\ UNCHANGED <<settings, client, request, reply, attempts>>

\* The run needs no further completion.
Done ==
  /\ pc = "idle" /\ pc' = "done"
  /\ UNCHANGED <<settings, client, request, reply, attempts, outcome, calls>>

Next ==
  \/ BuildRefused \/ Build \/ MockComplete
  \/ \E reasoning \in BOOLEAN : Call(reasoning)
  \/ Answer \/ SdkRetry \/ Finish \/ Done

\* A request times out, so an answer of some kind arrives.
Spec == Init /\ [][Next]_vars /\ WF_vars(Build \/ BuildRefused \/ Answer \/ SdkRetry \/ Finish)

----------------------------------------------------------------------------
Registered == client # None /\ settings.backend = "nim"

\* Type correctness: requests and replies are there exactly while the program
\* counter says so, and the attempts stay within those of the SDK.
ClientTypeOK ==
  /\ settings \in Settings
  /\ client \in Clients \cup {None}
  /\ pc \in {"start", "idle", "sent", "answered", "raised", "done"}
  /\ request \in Requests \cup {None}
  /\ reply \in Failures \cup Messages \cup {None}
  /\ outcome \in Outcomes \cup {None}
  /\ attempts \in 0..(MaxRetries + 1)
  /\ calls \in 0..MaxCalls
  /\ pc \in {"idle", "sent", "answered"} => client # None
  /\ pc \in {"sent", "answered"} => request # None /\ calls < MaxCalls
  /\ pc = "answered" => reply # None

\* The errors the except clause of the smoke's tick loop lists: the trace of
\* a run that ends in one of them is kept.
Caught ==
  {"LLMResponseParseError", "LLMResponseFormatError", "LLMServerError", "MissingUsageError",
   "LLMEndpointUnreachableError"}

\* What the clients read without a check: the MLX client the first choice and its
\* text (llm_client.py:525), both that count tokens the counts (550, 908), the NIM
\* client the fields of the usage block (894).
Unguarded(r) ==
  \/ client.transport = "openai" /\ r.kind \in {"not_json", "no_message"}
  \/ /\ r.kind = "message"
     /\ \/ client.transport = "openai" /\ r.content = None
        \/ client.transport = "httpx" /\ r.usage = "no_object"
        \/ client.transport # "langchain" /\ r.usage = "no_numbers"

\* A failed call, be it for nothing, half a reply, a trace without an answer or an
\* answer cut short, raises an error the smoke's except clause lists
\* (run_c2_smoke.py:447), so that the trace of the run is kept.  It escapes that
\* clause only by the schema's own exception, and then the model did write an object
\* that breaks the schema, or by a reply of those that are read without a check:
\* never by a content the NIM client finds missing.
FailuresAreNamed ==
  client # None /\ outcome # None /\ outcome.kind = "error" =>
    \/ outcome.value \in Caught
    \/ outcome.value = "ValidationError" /\ reply.content = Unbounded
    \/ Unguarded(reply)

\* Decision record 010 (line 23): "Errors propagate as named, typed exceptions."  The
\* code's MLX client has others (README, Findings).
EveryFailureIsTyped ==
  client # None /\ outcome # None /\ outcome.kind = "error" =>
    outcome.value \notin {"AttributeError", "IndexError", "TypeError", "ValueError"}

\* A pair that is returned is one the model wrote in this very reply: the answer,
\* whole.  Only where the trace is written into the text (the marker protocol and
\* unmanaged servers, llm_client.py:339-367) can an object of the trace be taken
\* for it.
AnswersWithTheAnswer ==
  outcome # None /\ outcome.kind = "proposal" /\ reply # None =>
    \/ /\ outcome.value = reply.answer
       /\ reply.trace + AnswerTokens <= request.maxTokens
    \/ /\ outcome.value = reply.draft
       /\ client.protocol.convention \notin Separated /\ reply.thinking

\* A model of the registry thinks in a revision and only there: prefix, protocol
\* and the server's template agree for every family (llm_client.py:931-966).
ThinksWhenAsked ==
  Registered /\ reply # None /\ reply.kind = "message" => reply.thinking = request.reasoning

\* A call comes to an end: with a pair, or with the run's (no retry until the
\* reply parses, decision record 010).
EveryCallEnds == pc = "sent" ~> pc \in {"idle", "raised", "done"}
===============================================================================
