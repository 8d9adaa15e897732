---------------------------- MODULE LLMClientProofs ----------------------------
(***************************************************************************)
(* Safety of the language-model clients for every set of pairs, traces and *)
(* budgets, every length of an answer and any number of SDK retries.       *)
(*                                                                         *)
(* The invariants are not inductive: they speak of the reply and of what   *)
(* was made of it, not of how both come to be.  IInv adds that the client  *)
(* is the one the factory builds from the settings, that a reply is one    *)
(* the endpoint can give to the request, and that the outcome is the       *)
(* reading of the reply.                                                   *)
(***************************************************************************)
EXTENDS LLMClient, TLAPS

\* The client is the factory's.
BuiltFromSettings ==
  client # None => Refusal(settings) = None /\ client = NewClient(settings)

\* Only a client with a transport sends requests; they ask for what it may ask.
RequestIsTheClients ==
  request # None => client # None /\ client.transport # "none"

\* A reply is one the endpoint can give to the request.
ReplyIsOfTheRequest ==
  reply # None =>
    /\ request # None
    /\ reply.kind = "message" =>
         /\ reply.thinking \in
              Thinking(client.protocol.convention, request.reasoning, settings.model)
         /\ ~reply.thinking => reply.trace = 0
         /\ reply.content \in {None, FirstObject(reply.trace, reply.draft, reply.answer)}

\* An outcome beside a reply is the reading of it.
OutcomeIsOfTheReply ==
  /\ client # None /\ outcome # None /\ outcome.kind = "error" => reply # None
  /\ outcome # None /\ reply # None => outcome = Interpreted(reply)
  /\ pc \in {"sent", "answered"} => outcome = None
  /\ pc = "start" => client = None /\ outcome = None /\ reply = None /\ request = None

IInv ==
  /\ ClientTypeOK
  /\ BuiltFromSettings
  /\ RequestIsTheClients
  /\ ReplyIsOfTheRequest
  /\ OutcomeIsOfTheReply

USE AdmissibleAssumption, TokensAssumption, NoneAssumption

----------------------------------------------------------------------------
(* What the operators return.                                              *)

\* The factory builds a client for every setting it does not refuse.
LEMMA NewClientType ==
  ASSUME NEW s \in Settings, Refusal(s) = None PROVE NewClient(s) \in Clients
  <1> DEFINE Models == Families \cup {"unlisted"}
  <1>1. /\ s.backend \in {"nim", "mac-studio", "lm-studio", "mock", "other"}
        /\ s.complete \in BOOLEAN /\ s.model \in Models
        /\ s.budget \in Budgets \cup {None}
    BY DEF Settings
  <1>2. ASSUME NEW m \in Families, NEW b \in Nat \cup {None}
        PROVE  Protocol(m, b) \in Protocols
    BY <1>2 DEF Protocol, Protocols, Families
  <1>3. CASE s.backend = "nim"
    <2>1. s.model \in Families
      BY <1>1, <1>3 DEF Refusal, Errors
    <2> QED BY <1>1, <1>2, <1>3, <2>1 DEF NewClient, Clients
  <1>4. CASE s.backend \in {"mac-studio", "lm-studio", "mock"}
    BY <1>4 DEF NewClient, Clients, Protocols
  <1>5. s.backend # "other"
    BY <1>1 DEF Refusal, Errors
  <1> QED BY <1>1, <1>3, <1>4, <1>5

\* A refusal is one of the named errors.
LEMMA RefusalType ==
  ASSUME NEW s \in Settings, Refusal(s) # None PROVE Refusal(s) \in Errors
  BY DEF Refusal, Errors, Settings

\* The protocol of a registered family speaks the family's own convention.
LEMMA RegistrySpeaksItsFamily ==
  ASSUME NEW m \in Families, NEW b
  PROVE  \/ /\ m = "super49b" /\ Protocol(m, b).convention = "marker"
         \/ m \in DOMAIN Flag /\ Protocol(m, b).convention = Flag[m]
  BY DEF Protocol, Flag, Families

\* The budget of a mode is a number of tokens.
LEMMA MaxTokensNat ==
  ASSUME NEW c, NEW r \in BOOLEAN PROVE MaxTokens(c, r) \in Nat
  BY DEF MaxTokens

\* What the search for braces finds is an object, or one of the two signs that
\* there is none.
LEMMA FirstObjectType ==
  ASSUME NEW t, NEW d \in Objects \cup {None}, NEW a \in Objects \cup {None}
  PROVE  FirstObject(t, d, a) \in Objects \cup {Prose, None}
  BY DEF FirstObject

\* A trace cut at the budget is still a number of tokens.
LEMMA TraceTokensNat ==
  ASSUME request \in Requests, NEW th \in BOOLEAN, NEW t \in Nat
  PROVE  TraceTokens(th, t) \in Nat /\ (~th => TraceTokens(th, t) = 0)
  BY DEF TraceTokens, Requests

\* A reading is a pair of the schema or an error; one the smoke does not list is
\* the schema's or that of a reply read without a check.
LEMMA InterpretedType ==
  ASSUME NEW r \in Failures \cup Messages, client \in Clients, client.transport # "none"
  PROVE  /\ Interpreted(r) \in Outcomes
         /\ Interpreted(r).kind = "error" =>
              \/ Interpreted(r).value \in Caught
              \/ Interpreted(r).value = "ValidationError" /\ r.content = Unbounded
              \/ Unguarded(r)
         /\ Interpreted(r).kind = "proposal" =>
              r.kind = "message" /\ Interpreted(r).value = r.content
  <1> DEFINE Good(o) ==
        /\ o \in Outcomes
        /\ o.kind = "error" =>
             o.value \in Caught \/ (o.value = "ValidationError" /\ r.content = Unbounded) \/ Unguarded(r)
        /\ o.kind = "proposal" => r.kind = "message" /\ o.value = r.content
  <1>1. client.transport \in {"httpx", "openai", "langchain"}
    BY DEF Clients
  <1>2. CASE r \in Failures
    <2>1. /\ r.kind \in {"unreachable", "busy", "rejected", "not_json", "no_message"}
          /\ r.kind # "message"
      BY <1>2 DEF Failures
    <2>2. Interpreted(r) = Raised(NameOf(r.kind))
      BY <2>1 DEF Interpreted
    <2>3. /\ NameOf(r.kind) \in Errors
          /\ NameOf(r.kind) \in Caught \/ Unguarded(r)
      BY <1>1, <2>1 DEF NameOf, Errors, Caught, Unguarded
    <2> QED BY <2>2, <2>3 DEF Raised, Outcomes
  <1>3. CASE r \in Messages
    <2>1. /\ r.kind = "message"
          /\ r.content \in Objects \cup {Prose, None}
          /\ r.usage \in Usages
      BY <1>3 DEF Messages
    <2>2. ASSUME r.content # None PROVE Good(Parsed(r.content))
      BY <2>1, <2>2 DEF Parsed, Raised, Returned, Outcomes, Errors, Caught, Objects
    <2>3. ASSUME NEW e \in Caught PROVE Good(Raised(e))
      BY <2>3 DEF Raised, Outcomes, Errors, Caught
    <2>4. ASSUME NEW e \in Errors, Unguarded(r) PROVE Good(Raised(e))
      BY <2>4 DEF Raised, Outcomes
    <2>5. CASE client.transport = "langchain"
      <3>1. CASE r.content = None
        <4>1. Interpreted(r) = Raised("LLMResponseParseError")
          BY <2>1, <2>5, <3>1 DEF Interpreted, Parsed
        <4> QED BY <2>3, <4>1 DEF Caught
      <3>2. CASE r.content # None
        <4>1. Interpreted(r) = Parsed(r.content)
          BY <2>1, <2>5, <3>2 DEF Interpreted
        <4> QED BY <2>2, <3>2, <4>1
      <3> QED BY <3>1, <3>2
    <2>6. CASE client.transport = "httpx" /\ r.content = None
      <3>1. Interpreted(r) = Raised("LLMResponseFormatError")
        BY <2>1, <2>6 DEF Interpreted
      <3> QED BY <2>3, <3>1 DEF Caught
    <2>7. CASE /\ client.transport # "langchain"
               /\ ~(client.transport = "httpx" /\ r.content = None)
      <3>1. Interpreted(r) = UsageThenText(r)
        BY <2>1, <2>7 DEF Interpreted
      <3>2. CASE r.usage = "missing"
        BY <2>3, <3>1, <3>2 DEF UsageThenText, Caught
      <3>3. CASE r.usage = "no_object"
        <4>1. CASE client.transport = "openai"
          <5>1. Interpreted(r) = Raised("MissingUsageError")
            BY <3>1, <3>3, <4>1 DEF UsageThenText
          <5> QED BY <2>3, <5>1 DEF Caught
        <4>2. CASE client.transport # "openai"
          <5>1. Interpreted(r) = Raised("AttributeError")
            BY <3>1, <3>3, <4>2 DEF UsageThenText
          <5>2. client.transport = "httpx"
            BY <1>1, <2>7, <4>2
          <5>3. Unguarded(r)
            BY <2>1, <3>3, <5>2 DEF Unguarded
          <5> QED BY <2>4, <5>1, <5>3 DEF Errors
        <4> QED BY <4>1, <4>2
      <3>4. CASE r.usage \in {"full", "no_numbers"} /\ r.content = None
        <4>1. Interpreted(r) = Raised("TypeError")
          BY <3>1, <3>4 DEF UsageThenText
        <4>2. Unguarded(r)
          BY <1>1, <2>1, <2>7, <3>4 DEF Unguarded
        <4> QED BY <2>4, <4>1, <4>2 DEF Errors
      <3>5. CASE r.usage \in {"full", "no_numbers"} /\ r.content # None
        <4>1. Interpreted(r) = Counted(r)
          BY <3>1, <3>5 DEF UsageThenText
        <4> QED BY <2>1, <2>2, <2>4, <2>7, <3>5, <4>1 DEF Counted, Errors, Unguarded
      <3> QED BY <2>1, <3>2, <3>3, <3>4, <3>5 DEF Usages
    <2> QED BY <2>5, <2>6, <2>7
  <1> QED BY <1>2, <1>3

----------------------------------------------------------------------------
(* The invariant, action by action.                                        *)

LEMMA InitIInv == ASSUME Init PROVE IInv
  BY DEF Init, IInv, ClientTypeOK, BuiltFromSettings, RequestIsTheClients, ReplyIsOfTheRequest, OutcomeIsOfTheReply

\* A run that got no client has no outcome but the refusal.
LEMMA BuildRefusedIInv == ASSUME IInv, BuildRefused PROVE IInv'
  <1>1. /\ outcome' = [kind |-> "error", value |-> Refusal(settings)]
        /\ Refusal(settings) \in Errors
    BY RefusalType DEF BuildRefused, Raised, IInv, ClientTypeOK
  <1>2. outcome' \in Outcomes
    BY <1>1 DEF Outcomes
  <1> QED BY <1>2 DEF IInv, BuildRefused, ClientTypeOK, BuiltFromSettings,
            RequestIsTheClients, ReplyIsOfTheRequest, OutcomeIsOfTheReply

LEMMA BuildIInv == ASSUME IInv, Build PROVE IInv'
  <1>1. client' \in Clients
    BY NewClientType DEF Build, IInv, ClientTypeOK
  <1> QED BY <1>1 DEF IInv, Build, ClientTypeOK, BuiltFromSettings,
            RequestIsTheClients, ReplyIsOfTheRequest, OutcomeIsOfTheReply

\* The mock answers without a request.
LEMMA MockCompleteIInv == ASSUME IInv, MockComplete PROVE IInv'
  <1>1. /\ outcome'.kind = "proposal"
        /\ outcome' \in Outcomes
    BY DEF MockComplete, Returned, Outcomes
  <1>2. reply = None
    BY DEF MockComplete, IInv, ClientTypeOK, RequestIsTheClients, ReplyIsOfTheRequest
  <1>3. calls' \in 0..MaxCalls
    BY DEF MockComplete, IInv, ClientTypeOK
  <1> QED BY <1>1, <1>2, <1>3 DEF IInv, MockComplete, ClientTypeOK, BuiltFromSettings,
            RequestIsTheClients, ReplyIsOfTheRequest, OutcomeIsOfTheReply

LEMMA CallIInv == ASSUME IInv, NEW reasoning \in BOOLEAN, Call(reasoning) PROVE IInv'
  <1>1. client \in Clients /\ client # None
    BY DEF Call, IInv, ClientTypeOK
  <1>2. MaxTokens(client.protocol.convention, reasoning) \in Nat
    BY MaxTokensNat
  <1>3. request' \in Requests
    BY <1>1, <1>2 DEF Call, Requests, Clients, Protocols
  <1>4. attempts' \in 0..(MaxRetries + 1)
    BY DEF Call
  <1> QED BY <1>1, <1>3, <1>4 DEF IInv, Call, ClientTypeOK, BuiltFromSettings,
            RequestIsTheClients, ReplyIsOfTheRequest, OutcomeIsOfTheReply

\* A message is one the endpoint gives to this request.
LEMMA AnswerIInv == ASSUME IInv, Answer PROVE IInv'
  <1>1. /\ request \in Requests /\ request # None
        /\ client \in Clients /\ client # None
    BY DEF Answer, IInv, ClientTypeOK
  <1>2. /\ reply' \in Failures \cup Messages
        /\ reply'.kind = "message" =>
             /\ reply'.thinking \in
                  Thinking(client.protocol.convention, request.reasoning, settings.model)
             /\ ~reply'.thinking => reply'.trace = 0
             /\ reply'.content \in {None, FirstObject(reply'.trace, reply'.draft, reply'.answer)}
    <2>1. CASE \E kind \in {"unreachable", "busy", "rejected", "not_json", "no_message"} :
                 reply' = Failure(kind)
      BY <2>1 DEF Failure, Failures
    <2>2. ASSUME NEW thinking \in
                   Thinking(client.protocol.convention, request.reasoning, settings.model),
                 NEW trace \in Traces,
                 NEW draft \in Objects \cup {None}, NEW answer \in Objects \cup {None},
                 NEW usage \in Usages,
                 NEW content \in {None, FirstObject(TraceTokens(thinking, trace), draft, answer)},
                 reply' = Message(thinking, trace, draft, answer, usage, content)
          PROVE  <1>2!1 /\ <1>2!2
      <3>1. thinking \in BOOLEAN
        <4>1. EnableThinking(Marked(client.protocol.convention, request.reasoning)) \in BOOLEAN
          BY DEF EnableThinking, Marked
        <4>2. request.reasoning \in BOOLEAN
          BY <1>1 DEF Requests
        <4> QED BY <4>1, <4>2 DEF Thinking
      <3>2. TraceTokens(thinking, trace) \in Nat /\ (~thinking => TraceTokens(thinking, trace) = 0)
        BY <1>1, <3>1, TraceTokensNat
      <3>3. FirstObject(TraceTokens(thinking, trace), draft, answer) \in Objects \cup {Prose, None}
        BY FirstObjectType
      <3> QED BY <2>2, <3>1, <3>2, <3>3 DEF Message, Messages
    <2> QED BY <2>1, <2>2 DEF Answer
  <1>3. FirstObject(reply.trace, reply.draft, reply.answer)' =
          FirstObject(reply'.trace, reply'.draft, reply'.answer)
    BY DEF Answer, FirstObject
  <1>4. reply' # None
    BY <1>2
  <1> QED BY <1>1, <1>2, <1>3, <1>4 DEF IInv, Answer, ClientTypeOK, BuiltFromSettings,
            RequestIsTheClients, ReplyIsOfTheRequest, OutcomeIsOfTheReply

LEMMA SdkRetryIInv == ASSUME IInv, SdkRetry PROVE IInv'
  <1>1. attempts' \in 0..(MaxRetries + 1)
    BY DEF SdkRetry, IInv, ClientTypeOK
  <1> QED BY <1>1 DEF IInv, SdkRetry, ClientTypeOK, BuiltFromSettings,
            RequestIsTheClients, ReplyIsOfTheRequest, OutcomeIsOfTheReply

\* The reading of the reply becomes the outcome.
LEMMA FinishIInv == ASSUME IInv, Finish PROVE IInv'
  <1>1. /\ client \in Clients /\ client # None /\ client.transport # "none"
        /\ reply \in Failures \cup Messages /\ reply # None
    BY DEF Finish, IInv, ClientTypeOK, ReplyIsOfTheRequest, RequestIsTheClients
  <1>2. outcome' = Interpreted(reply) /\ outcome' \in Outcomes
    BY <1>1, InterpretedType DEF Finish
  <1>3. Interpreted(reply)' = Interpreted(reply')
    BY DEF Finish, Interpreted, UsageThenText, Counted, Parsed, NameOf, Raised, Returned
  <1>4. Interpreted(reply') = Interpreted(reply)
    BY DEF Finish
  <1>5. FirstObject(reply.trace, reply.draft, reply.answer)' =
          FirstObject(reply.trace, reply.draft, reply.answer)
    BY DEF Finish, FirstObject
  <1>6. calls' \in 0..MaxCalls /\ pc' \in {"idle", "raised"}
    BY DEF Finish, IInv, ClientTypeOK
  <1> QED BY <1>1, <1>2, <1>3, <1>4, <1>5, <1>6 DEF IInv, Finish, ClientTypeOK,
            BuiltFromSettings, RequestIsTheClients, ReplyIsOfTheRequest, OutcomeIsOfTheReply

LEMMA DoneIInv == ASSUME IInv, Done PROVE IInv'
  <1>1. Interpreted(reply)' = Interpreted(reply)
    BY DEF Done, Interpreted, UsageThenText, Counted, Parsed, NameOf, Raised, Returned
  <1>2. FirstObject(reply.trace, reply.draft, reply.answer)' =
          FirstObject(reply.trace, reply.draft, reply.answer)
    BY DEF Done, FirstObject
  <1> QED BY <1>1, <1>2 DEF IInv, Done, ClientTypeOK, BuiltFromSettings,
            RequestIsTheClients, ReplyIsOfTheRequest, OutcomeIsOfTheReply

LEMMA StutterIInv == ASSUME IInv, UNCHANGED vars PROVE IInv'
  <1>1. Interpreted(reply)' = Interpreted(reply)
    BY DEF vars, Interpreted, UsageThenText, Counted, Parsed, NameOf, Raised, Returned
  <1>2. FirstObject(reply.trace, reply.draft, reply.answer)' =
          FirstObject(reply.trace, reply.draft, reply.answer)
    BY DEF vars, FirstObject
  <1> QED BY <1>1, <1>2 DEF IInv, vars, ClientTypeOK, BuiltFromSettings,
            RequestIsTheClients, ReplyIsOfTheRequest, OutcomeIsOfTheReply

\* The inductive invariant: the client is the factory's, a reply is one its
\* endpoint can give, an outcome the reading of the reply.
THEOREM ClientInvariant == Spec => []IInv
  <1>1. Init => IInv
    BY InitIInv
  <1>2. IInv /\ [Next]_vars => IInv'
    BY BuildRefusedIInv, BuildIInv, MockCompleteIInv, CallIInv, AnswerIInv, SdkRetryIInv,
       FinishIInv, DoneIInv, StutterIInv DEF Next
  <1> QED BY <1>1, <1>2, PTL DEF Spec

\* Type correctness of the client (llm_client.py), the SDK's attempts included.
THEOREM ClientTypes == Spec => []ClientTypeOK
  <1>1. IInv => ClientTypeOK
    BY DEF IInv
  <1> QED BY <1>1, ClientInvariant, PTL

----------------------------------------------------------------------------
(* What follows from it.                                                   *)

\* Every failure of a call is one the smoke's except clause lists, the schema's
\* refusal of an object the model did write, or that of a reply of those the client
\* reads without a check (llm_client.py:525, 550, 894, 908), for every reply.
THEOREM ClientFailuresAreNamed == Spec => []FailuresAreNamed
  <1>1. ASSUME IInv PROVE FailuresAreNamed
    <2> SUFFICES ASSUME client # None, outcome # None, outcome.kind = "error"
                 PROVE  \/ outcome.value \in Caught
                        \/ outcome.value = "ValidationError" /\ reply.content = Unbounded
                        \/ Unguarded(reply)
      BY DEF FailuresAreNamed
    <2>1. reply # None /\ outcome = Interpreted(reply)
      BY <1>1 DEF IInv, OutcomeIsOfTheReply
    <2>2. /\ reply \in Failures \cup Messages
          /\ client \in Clients /\ client.transport # "none"
      BY <1>1, <2>1 DEF IInv, ClientTypeOK, ReplyIsOfTheRequest, RequestIsTheClients
    <2> QED BY <2>1, <2>2, InterpretedType
  <1> QED BY <1>1, ClientInvariant, PTL

\* A pair a call returns is the whole answer of this reply, or an object of a
\* trace written inline, for every length of trace and answer.
THEOREM ClientAnswersWithTheAnswer == Spec => []AnswersWithTheAnswer
  <1>1. ASSUME IInv PROVE AnswersWithTheAnswer
    <2> SUFFICES ASSUME outcome # None, outcome.kind = "proposal", reply # None
                 PROVE  \/ /\ outcome.value = reply.answer
                           /\ reply.trace + AnswerTokens <= request.maxTokens
                        \/ /\ outcome.value = reply.draft
                           /\ client.protocol.convention \notin Separated /\ reply.thinking
      BY DEF AnswersWithTheAnswer
    <2>1. /\ outcome = Interpreted(reply) /\ outcome \in Outcomes
          /\ client \in Clients /\ client.transport # "none"
          /\ reply \in Failures \cup Messages
      BY <1>1 DEF IInv, ClientTypeOK, OutcomeIsOfTheReply, RequestIsTheClients,
                  ReplyIsOfTheRequest
    <2>2. reply.kind = "message" /\ outcome.value = reply.content
      BY <2>1, InterpretedType
    <2>3. outcome.value \in Admissible
      BY <2>1 DEF Outcomes
    <2>4. /\ reply.content \in {None, FirstObject(reply.trace, reply.draft, reply.answer)}
          /\ ~reply.thinking => reply.trace = 0
      BY <1>1, <2>2 DEF IInv, ReplyIsOfTheRequest
    <2>5. reply.thinking \in BOOLEAN /\ reply.trace \in Nat
      BY <2>1, <2>2 DEF Failures, Messages
    <2>6. reply.content = FirstObject(reply.trace, reply.draft, reply.answer)
      BY <2>2, <2>3, <2>4
    <2> QED BY <2>2, <2>3, <2>4, <2>5, <2>6 DEF FirstObject
  <1> QED BY <1>1, ClientInvariant, PTL

\* Every registered model thinks exactly when it is asked to.
THEOREM ClientThinksWhenAsked == Spec => []ThinksWhenAsked
  <1>1. ASSUME IInv PROVE ThinksWhenAsked
    <2> SUFFICES ASSUME Registered, reply # None, reply.kind = "message"
                 PROVE  reply.thinking = request.reasoning
      BY DEF ThinksWhenAsked
    <2>1. /\ client # None /\ settings.backend = "nim"
          /\ Refusal(settings) = None /\ client = NewClient(settings)
          /\ settings.complete \in BOOLEAN
      BY <1>1 DEF Registered, IInv, BuiltFromSettings, ClientTypeOK, Settings
    <2>2. settings.model \in Families
      BY <2>1 DEF Refusal, Errors
    <2>3. client.protocol = Protocol(settings.model, settings.budget)
      BY <2>1 DEF NewClient
    <2>4. reply.thinking \in
            Thinking(client.protocol.convention, request.reasoning, settings.model)
      BY <1>1 DEF IInv, ReplyIsOfTheRequest
    <2>5. \/ settings.model = "super49b" /\ client.protocol.convention = "marker"
          \/ /\ settings.model \in DOMAIN Flag
             /\ client.protocol.convention = Flag[settings.model]
      BY <2>2, <2>3, RegistrySpeaksItsFamily
    <2>6. request.reasoning \in BOOLEAN
      BY <1>1 DEF IInv, ReplyIsOfTheRequest, ClientTypeOK, Requests
    <2>7. settings.model \in DOMAIN Flag => settings.model # "super49b"
      BY DEF Flag
    <2> QED BY <2>4, <2>5, <2>6, <2>7 DEF Thinking, EnableThinking, Marked
  <1> QED BY <1>1, ClientInvariant, PTL
===============================================================================
