---------------------------- MODULE ChatService -----------------------------
(***************************************************************************)
(* ChatService::predict (src/src/examples/server/lib/impl/llama-cpp/       *)
(* services/ChatService.cpp) under concurrent requests, each on a thread   *)
(* of its own (HttpConnectionHandler), with the parts of llama_cpp::context *)
(* it uses.  The process may end at any time (the SIGINT handler calls     *)
(* _exit) and is started again (docker-compose.yml: restart: always).      *)
(*                                                                         *)
(* A session's context is shared by all requests of the session, and       *)
(* inference takes no lock, so inferences of one session may overlap on    *)
(* the same llama_context.                                                 *)
(*                                                                         *)
(* Abstracted: an inference is some calls of llama_eval (see Generation    *)
(* for what happens around them), a bounded number of them only if the     *)
(* options limit the tokens, which n_predict does not by default; prompts  *)
(* and answers are reduced to whether the tokens of another request got    *)
(* into them.                                                              *)
(*                                                                         *)
(* External (phmap): lazy_emplace_l locks the submap the key hashes to     *)
(* while either callback runs, and inserts nothing when the callback that  *)
(* should construct the value throws.                                      *)
(***************************************************************************)
EXTENDS Naturals, FiniteSets

CONSTANTS
  Requests,    \* POST /api/prompt requests, each sent once
  Payloads,    \* what a request may carry: [session, model, options]
  NoPayload,   \* of a request that was not received yet
  Known,       \* the model names in _models, fixed when the service starts
  Submaps,     \* the submaps of the parallel hash map
  SubmapOf(_), \* the submap a session id hashes to
  NoOne,       \* holder of a free submap lock; a null session pointer
  Limited,     \* the options with an n_predict that is not negative
  MaxEvals,    \* bound: calls of llama_eval in an inference with a limit, and
               \* how far those of one without are counted
  MaxCrashes   \* bound: how often the process ends and is started again

ASSUME PayloadAssumption ==
  \A p \in Payloads : SubmapOf(p.session) \in Submaps

ASSUME DistinctAssumption == NoOne \notin Requests /\ NoPayload \notin Payloads

ASSUME BoundAssumption == MaxEvals \in Nat \ {0} /\ MaxCrashes \in Nat

VARIABLES
  pc,         \* where the thread of a request is
  req,        \* the payload of each request
  held,       \* who holds the lock of each submap
  sessions,   \* _sessions: session id -> context
  session,    \* the local shared_ptr of each request
  context,    \* the llama_cpp::context each request created, see NoContext
  evals,      \* calls of llama_eval made by each inference, up to MaxEvals
  mixed,      \* requests whose answer the tokens of another request got into
  reply,      \* what each request was answered
  crashes     \* how often the process was started again

vars == <<pc, req, held, sessions, session, context, evals, mixed, reply, crashes>>

Config(payload) == [model |-> payload.model, options |-> payload.options]

\* The response names the model of the request, not of the session.
Ok(config, model) == [status |-> 200, config |-> config, model |-> model]
Error   == [status |-> 500]
Lost    == [status |-> 499]
NoReply == [status |-> 0]

\* A context is named by the request that created it: no request creates two.
\* Its phases: none, new (constructed), loaded (load() returned), ready
\* (set_predict_options returned), freed (destroyed, which unloads it).
NoContext == [phase |-> "none", model |-> NoPayload, options |-> NoPayload]
Live(c)   == context[c].phase \in {"new", "loaded", "ready"}

Id(r)     == req[r].session
Submap(r) == SubmapOf(Id(r))

Init ==
  /\ pc = [r \in Requests |-> "unsent"]
  /\ req = [r \in Requests |-> NoPayload]
  /\ held = [m \in Submaps |-> NoOne]
  /\ sessions = [s \in {} |-> NoOne]
  /\ session = [r \in Requests |-> NoOne]
  /\ context = [r \in Requests |-> NoContext]
  /\ evals = [r \in Requests |-> 0]
  /\ mixed = {}
  /\ reply = [r \in Requests |-> NoReply]
  /\ crashes = 0

\* map_model_path finds the model.
Accept(r, payload) ==
  /\ pc[r] = "unsent"
  /\ payload.model \in Known
  /\ pc' = [pc EXCEPT ![r] = "emplace"]
  /\ req' = [req EXCEPT ![r] = payload]
  /\ UNCHANGED <<held, sessions, session, context, evals, mixed, reply, crashes>>

\* map_model_path throws "Model not found".
Reject(r, payload) ==
  /\ pc[r] = "unsent"
  /\ payload.model \notin Known
  /\ pc' = [pc EXCEPT ![r] = "done"]
  /\ req' = [req EXCEPT ![r] = payload]
  /\ reply' = [reply EXCEPT ![r] = Error]
  /\ UNCHANGED <<held, sessions, session, context, evals, mixed, crashes>>

----------------------------------------------------------------------------
(* lazy_emplace_l: the submap is locked from the lookup to the return.     *)
(* Faulty variants of actions, each with one slip a maintainer could make, *)
(* stand before the action they vary.                                      *)

JoinBySubmap(r) ==
  /\ pc[r] = "emplace"
  /\ held[Submap(r)] = NoOne
  /\ \E s \in DOMAIN sessions :
       /\ SubmapOf(s) = Submap(r)
       /\ session' = [session EXCEPT ![r] = sessions[s]]
  /\ pc' = [pc EXCEPT ![r] = "predict"]
  /\ UNCHANGED <<req, held, sessions, context, evals, mixed, reply, crashes>>

\* The session exists: copy its pointer.
Join(r) ==
  /\ pc[r] = "emplace"
  /\ held[Submap(r)] = NoOne
  /\ Id(r) \in DOMAIN sessions
  /\ session' = [session EXCEPT ![r] = sessions[Id(r)]]
  /\ pc' = [pc EXCEPT ![r] = "predict"]
  /\ UNCHANGED <<req, held, sessions, context, evals, mixed, reply, crashes>>

CreateUnlocked(r) ==
  /\ pc[r] = "emplace"
  /\ held[Submap(r)] = NoOne
  /\ Id(r) \notin DOMAIN sessions
  /\ context' = [context EXCEPT ![r].phase = "new", ![r].model = req[r].model]
  /\ session' = [session EXCEPT ![r] = r]
  /\ pc' = [pc EXCEPT ![r] = "load"]
  /\ UNCHANGED <<req, held, sessions, evals, mixed, reply, crashes>>

\* The session does not exist: construct a context for it, under the lock.
Create(r) ==
  /\ pc[r] = "emplace"
  /\ held[Submap(r)] = NoOne
  /\ Id(r) \notin DOMAIN sessions
  /\ held' = [held EXCEPT ![Submap(r)] = r]
  /\ context' = [context EXCEPT ![r].phase = "new", ![r].model = req[r].model]
  /\ session' = [session EXCEPT ![r] = r]
  /\ pc' = [pc EXCEPT ![r] = "load"]
  /\ UNCHANGED <<req, sessions, evals, mixed, reply, crashes>>

Load(r) ==
  /\ pc[r] = "load"
  /\ context' = [context EXCEPT ![r].phase = "loaded"]
  /\ pc' = [pc EXCEPT ![r] = "publish"]
  /\ UNCHANGED <<req, held, sessions, session, evals, mixed, reply, crashes>>

LoadFailsLocked(r) ==
  /\ pc[r] = "load"
  /\ context' = [context EXCEPT ![r].phase = "freed"]
  /\ session' = [session EXCEPT ![r] = NoOne]
  /\ reply' = [reply EXCEPT ![r] = Error]
  /\ pc' = [pc EXCEPT ![r] = "done"]
  /\ UNCHANGED <<req, held, sessions, evals, mixed, crashes>>

LoadFailsPublished(r) ==
  /\ pc[r] = "load"
  /\ sessions' = [s \in DOMAIN sessions \cup {Id(r)} |->
                    IF s = Id(r) THEN r ELSE sessions[s]]
  /\ held' = [held EXCEPT ![Submap(r)] = NoOne]
  /\ reply' = [reply EXCEPT ![r] = Error]
  /\ pc' = [pc EXCEPT ![r] = "done"]
  /\ UNCHANGED <<req, session, context, evals, mixed, crashes>>

LoadFailsNull(r) ==
  /\ pc[r] = "load"
  /\ context' = [context EXCEPT ![r].phase = "freed"]
  /\ sessions' = [s \in DOMAIN sessions \cup {Id(r)} |->
                    IF s = Id(r) THEN NoOne ELSE sessions[s]]
  /\ held' = [held EXCEPT ![Submap(r)] = NoOne]
  /\ reply' = [reply EXCEPT ![r] = Error]
  /\ pc' = [pc EXCEPT ![r] = "done"]
  /\ UNCHANGED <<req, session, evals, mixed, crashes>>

\* load() throws: the only owner of the context is unwound, nothing is
\* inserted, the lock is released.
LoadFails(r) ==
  /\ pc[r] = "load"
  /\ context' = [context EXCEPT ![r].phase = "freed"]
  /\ session' = [session EXCEPT ![r] = NoOne]
  /\ held' = [held EXCEPT ![Submap(r)] = NoOne]
  /\ reply' = [reply EXCEPT ![r] = Error]
  /\ pc' = [pc EXCEPT ![r] = "done"]
  /\ UNCHANGED <<req, sessions, evals, mixed, crashes>>

PublishKeepsLock(r) ==
  /\ pc[r] = "publish"
  /\ context' = [context EXCEPT ![r].phase = "ready", ![r].options = req[r].options]
  /\ sessions' = [s \in DOMAIN sessions \cup {Id(r)} |->
                    IF s = Id(r) THEN r ELSE sessions[s]]
  /\ pc' = [pc EXCEPT ![r] = "predict"]
  /\ UNCHANGED <<req, held, session, evals, mixed, reply, crashes>>

\* Set the options of the context, insert it, release the lock.
Publish(r) ==
  /\ pc[r] = "publish"
  /\ context' = [context EXCEPT ![r].phase = "ready", ![r].options = req[r].options]
  /\ sessions' = [s \in DOMAIN sessions \cup {Id(r)} |->
                    IF s = Id(r) THEN r ELSE sessions[s]]
  /\ held' = [held EXCEPT ![Submap(r)] = NoOne]
  /\ pc' = [pc EXCEPT ![r] = "predict"]
  /\ UNCHANGED <<req, session, evals, mixed, reply, crashes>>

----------------------------------------------------------------------------
(* session->predict(prompt), without a lock.                               *)

Inferring(c) == {r \in Requests : pc[r] = "predict" /\ session[r] = c}

\* The limit is that of the session, whatever the request asks for.
Unlimited(r) == pc[r] = "predict" /\ context[session[r]].options \notin Limited

MayEval(r) == pc[r] = "predict" /\ (evals[r] < MaxEvals \/ Unlimited(r))

\* One llama_eval.  It overwrites the cells and the logits of the other
\* inferences that are under way in the same context; it may run at the same
\* time as one of theirs, a data race that can spoil its own result as well.
Eval(r) ==
  LET started == {q \in Inferring(session[r]) \ {r} : evals[q] > 0}
  IN  /\ MayEval(r)
      /\ evals' = [evals EXCEPT ![r] = IF @ < MaxEvals THEN @ + 1 ELSE @]
      /\ mixed' \in {mixed \cup started,
                     IF started = {} THEN mixed ELSE mixed \cup started \cup {r}}
      /\ UNCHANGED <<pc, req, held, sessions, session, context, reply, crashes>>

\* llama_eval fails: "inference failed"; the session stays.
EvalFails(r) ==
  /\ MayEval(r)
  /\ reply' = [reply EXCEPT ![r] = Error]
  /\ pc' = [pc EXCEPT ![r] = "done"]
  /\ UNCHANGED <<req, held, sessions, session, context, evals, mixed, crashes>>

RespondAsAsked(r) ==
  /\ pc[r] = "predict"
  /\ reply' = [reply EXCEPT ![r] = Ok(Config(req[r]), req[r].model)]
  /\ pc' = [pc EXCEPT ![r] = "done"]
  /\ UNCHANGED <<req, held, sessions, session, context, evals, mixed, crashes>>

\* The answer was made by the context of the session with its options.  It may
\* have needed no evaluation: a prompt can end with a stop prompt.
Respond(r) ==
  /\ pc[r] = "predict"
  /\ reply' = [reply EXCEPT ![r] = Ok(Config(context[session[r]]), req[r].model)]
  /\ pc' = [pc EXCEPT ![r] = "done"]
  /\ UNCHANGED <<req, held, sessions, session, context, evals, mixed, crashes>>

----------------------------------------------------------------------------
\* The process ends and is started again: connections break, memory is gone.
Crash ==
  /\ crashes < MaxCrashes
  /\ crashes' = crashes + 1
  /\ pc' = [r \in Requests |-> IF pc[r] = "unsent" THEN "unsent" ELSE "done"]
  /\ reply' = [r \in Requests |->
                 IF pc[r] \in {"unsent", "done"} THEN reply[r] ELSE Lost]
  /\ held' = [m \in Submaps |-> NoOne]
  /\ sessions' = [s \in {} |-> NoOne]
  /\ session' = [r \in Requests |-> NoOne]
  /\ context' = [r \in Requests |-> NoContext]
  /\ UNCHANGED <<req, evals, mixed>>

GetSession(r) ==
  Join(r) \/ Create(r) \/ Load(r) \/ LoadFails(r) \/ Publish(r)

Infer(r) == Eval(r) \/ EvalFails(r) \/ Respond(r)

Step(r) == GetSession(r) \/ Infer(r)

Send(r) == \E payload \in Payloads : Accept(r, payload) \/ Reject(r, payload)

AllDone == (\A r \in Requests : pc[r] = "done") /\ UNCHANGED vars

Next == (\E r \in Requests : Send(r) \/ Step(r)) \/ Crash \/ AllDone

Spec == Init /\ [][Next]_vars

\* Each thread runs, and load_model and llama_eval return: a request gets on until
\* it has a session, and to the end if the session has a limit.  An inference
\* without one stops at an end-of-text token or a stop prompt, which the model
\* may never generate: nothing makes it end.  No fairness between threads that
\* want the same lock is needed: a request takes it once.
FairSpec ==
  /\ Spec
  /\ \A r \in Requests :
       /\ WF_vars(GetSession(r))
       /\ WF_vars(Infer(r) /\ ~Unlimited(r))

----------------------------------------------------------------------------
(* Properties.                                                             *)

Phases == {"none", "new", "loaded", "ready", "freed"}

Contexts == [phase   : Phases,
             model   : {p.model : p \in Payloads} \cup {NoPayload},
             options : {p.options : p \in Payloads} \cup {NoPayload}]

\* Types of the service's fields and of the locals of predict.
TypeOK ==
  /\ pc \in [Requests -> {"unsent", "emplace", "load", "publish", "predict", "done"}]
  /\ req \in [Requests -> Payloads \cup {NoPayload}]
  /\ held \in [Submaps -> Requests \cup {NoOne}]
  /\ DOMAIN sessions \subseteq {p.session : p \in Payloads}
  /\ \A s \in DOMAIN sessions : sessions[s] \in Requests
  /\ session \in [Requests -> Requests \cup {NoOne}]
  /\ context \in [Requests -> Contexts]
  /\ evals \in [Requests -> 0 .. MaxEvals]
  /\ mixed \subseteq Requests
  /\ crashes \in 0 .. MaxCrashes

\* However many requests of a new session arrive at once, the model is loaded
\* for one of them only: a session never has two contexts alive.
OneContextPerSession ==
  \A q, r \in Requests : Live(q) /\ Live(r) /\ Id(q) = Id(r) => q = r

\* No context is leaked or lost: one that is alive is in the map, or is being
\* made by the request that holds the lock of its submap; and the map holds
\* only contexts whose model is loaded and whose options are set.
EveryContextHasItsPlace ==
  /\ \A c \in Requests : Live(c) =>
       \/ Id(c) \in DOMAIN sessions /\ sessions[Id(c)] = c
       \/ held[Submap(c)] = c /\ pc[c] \in {"load", "publish"}
  /\ \A s \in DOMAIN sessions :
       context[sessions[s]].phase = "ready" /\ Id(sessions[s]) = s

\* An inference runs in the context of its own session, which is ready and
\* stays alive under it, and holds no lock: it keeps no other request waiting.
InferenceRunsInItsSession ==
  \A r \in Requests : pc[r] = "predict" =>
    /\ context[session[r]].phase = "ready"
    /\ Id(session[r]) = Id(r)
    /\ \A m \in Submaps : held[m] # r

\* The tokens of another request get into an answer only when a request of the
\* same session shares the context; sessions do not disturb one another.
OnlyOwnSessionMixes ==
  \A r \in mixed : \E q \in Requests \ {r} : evals[q] > 0 /\ Id(q) = Id(r)

\* A request that was received is answered or loses its connection, unless its
\* own session sets no limit to inference: neither a load that fails nor an
\* inference that goes on for ever, in the same submap or the same session,
\* keeps another request waiting.
OnlyUnlimitedRunsOn ==
  \A r \in Requests :
    pc[r] = "emplace" ~>
      reply[r] # NoReply \/ Unlimited(r)

\* The service as a store of sessions.
Store == INSTANCE SessionStore WITH
  store <- [s \in DOMAIN sessions |-> Config(context[sessions[s]])]

\* Every answer is made with the model and the options of the request that
\* opened its session, until the process ends.
ImplementsSessionStore == Store!Spec

=============================================================================
