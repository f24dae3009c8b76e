---------------------------- MODULE SessionStore ----------------------------
(***************************************************************************)
(* What the chat service promises, abstractly: a session is opened by the  *)
(* first request that can, with the model and the options of that request, *)
(* and every later request of the session is answered under them until the *)
(* process ends.  ChatService implements this specification.               *)
(***************************************************************************)
EXTENDS Naturals

CONSTANTS
  Requests,   \* POST /api/prompt requests, each sent once
  Payloads,   \* what a request may carry: [session, model, options]
  NoPayload,  \* of a request that was not received yet
  MaxCrashes  \* bound: how often the process ends and is started again

VARIABLES
  req,        \* the payload of each request
  store,      \* the open sessions, each with its configuration
  reply,      \* what each request was answered
  crashes     \* how often the process was started again

vars == <<req, store, reply, crashes>>

Config(payload) == [model |-> payload.model, options |-> payload.options]

\* An answer says which configuration made it and which model it names.
Ok(config, model) == [status |-> 200, config |-> config, model |-> model]
Error   == [status |-> 500]
Lost    == [status |-> 499]  \* the connection broke
NoReply == [status |-> 0]

Pending(r) == req[r] # NoPayload /\ reply[r] = NoReply

Init ==
  /\ req = [r \in Requests |-> NoPayload]
  /\ store = [s \in {} |-> NoPayload]
  /\ reply = [r \in Requests |-> NoReply]
  /\ crashes = 0

Submit(r, payload) ==
  /\ req[r] = NoPayload
  /\ req' = [req EXCEPT ![r] = payload]
  /\ UNCHANGED <<store, reply, crashes>>

Open(r) ==
  /\ Pending(r)
  /\ req[r].session \notin DOMAIN store
  /\ store' = [s \in DOMAIN store \cup {req[r].session} |->
                 IF s = req[r].session THEN Config(req[r]) ELSE store[s]]
  /\ UNCHANGED <<req, reply, crashes>>

Answer(r) ==
  /\ Pending(r)
  /\ req[r].session \in DOMAIN store
  /\ reply' = [reply EXCEPT ![r] = Ok(store[req[r].session], req[r].model)]
  /\ UNCHANGED <<req, store, crashes>>

Refuse(r) ==
  /\ Pending(r)
  /\ reply' = [reply EXCEPT ![r] = Error]
  /\ UNCHANGED <<req, store, crashes>>

\* A request that is refused as soon as it is received.
SubmitAndRefuse(r, payload) ==
  /\ req[r] = NoPayload
  /\ req' = [req EXCEPT ![r] = payload]
  /\ reply' = [reply EXCEPT ![r] = Error]
  /\ UNCHANGED <<store, crashes>>

Crash ==
  /\ crashes < MaxCrashes
  /\ crashes' = crashes + 1
  /\ store' = [s \in {} |-> NoPayload]
  /\ reply' = [r \in Requests |-> IF Pending(r) THEN Lost ELSE reply[r]]
  /\ UNCHANGED req

Next ==
  \/ \E r \in Requests :
       \/ \E payload \in Payloads : Submit(r, payload) \/ SubmitAndRefuse(r, payload)
       \/ Open(r)
       \/ Answer(r)
       \/ Refuse(r)
  \/ Crash

Spec == Init /\ [][Next]_vars

=============================================================================
