------------------------- MODULE ChatServiceProofs --------------------------
(***************************************************************************)
(* Theorems about ChatService, for any number of requests, sessions and    *)
(* submaps, any payloads and any number of restarts.                       *)
(***************************************************************************)
EXTENDS ChatService, TLAPS

\* A request has a payload once it was received.
Received == \A r \in Requests : req[r] = NoPayload <=> pc[r] = "unsent"

\* A request that did not look its session up yet has created no context.
NoneCreated ==
  \A r \in Requests : pc[r] \in {"unsent", "emplace"} => context[r].phase = "none"

\* A request that is creating a context holds the lock of its session's submap,
\* and the session is not in the map.
CreatorHoldsLock ==
  \A r \in Requests : pc[r] \in {"load", "publish"} =>
    /\ held[Submap(r)] = r
    /\ Id(r) \notin DOMAIN sessions
    /\ session[r] = r
    /\ context[r].phase = (IF pc[r] = "load" THEN "new" ELSE "loaded")
    /\ context[r].model = req[r].model

\* ... and nobody else holds a lock.
HolderCreates ==
  \A m \in Submaps : held[m] # NoOne =>
    pc[held[m]] \in {"load", "publish"} /\ Submap(held[m]) = m

\* An inference runs on the context the map has for its session.
InfersOnSession ==
  \A r \in Requests : pc[r] = "predict" =>
    Id(r) \in DOMAIN sessions /\ session[r] = sessions[Id(r)]

SessionInv ==
  /\ Received /\ NoneCreated
  /\ CreatorHoldsLock /\ HolderCreates /\ InfersOnSession
  /\ EveryContextHasItsPlace

MapInv == TypeOK /\ SessionInv

LEMMA InitMap == Init => MapInv
<1> SUFFICES ASSUME Init PROVE MapInv
  OBVIOUS
<1>1. NoContext \in Contexts
  BY DEF NoContext, Contexts, Phases
<1>2. TypeOK
  BY <1>1, BoundAssumption DEF Init, TypeOK
<1>3. \A r \in Requests : context[r].phase = "none"
  BY DEF Init, NoContext
<1>4. Received /\ NoneCreated
  BY <1>3 DEF Init, Received, NoneCreated
<1>5. CreatorHoldsLock /\ HolderCreates /\ InfersOnSession
  BY DEF Init, CreatorHoldsLock, HolderCreates, InfersOnSession
<1>6. EveryContextHasItsPlace
  BY <1>3 DEF Init, EveryContextHasItsPlace, Live
<1> QED
  BY <1>2, <1>4, <1>5, <1>6 DEF MapInv, SessionInv

LEMMA SubmapOfReceived ==
  ASSUME TypeOK, Received, NEW r \in Requests, pc[r] # "unsent"
  PROVE  req[r] \in Payloads /\ Submap(r) \in Submaps
BY PayloadAssumption DEF TypeOK, Received, Submap, Id

LEMMA TypeKept == TypeOK /\ Received /\ [Next]_vars => TypeOK'
<1> SUFFICES ASSUME TypeOK, Received, [Next]_vars PROVE TypeOK'
  OBVIOUS
<1> USE DEF TypeOK
<1>1. ASSUME NEW r \in Requests, NEW payload \in Payloads, Accept(r, payload)
      PROVE  TypeOK'
  BY <1>1 DEF Accept
<1>2. ASSUME NEW r \in Requests, NEW payload \in Payloads, Reject(r, payload)
      PROVE  TypeOK'
  BY <1>2 DEF Reject
<1>3. ASSUME NEW r \in Requests, Join(r) PROVE TypeOK'
  BY <1>3 DEF Join
<1>4. ASSUME NEW r \in Requests, Create(r) PROVE TypeOK'
  <2>1. req[r] \in Payloads
    BY <1>4, SubmapOfReceived DEF Create
  <2>2. [context[r] EXCEPT !.phase = "new", !.model = req[r].model] \in Contexts
    BY <2>1, ZenonT(30) DEF Contexts, Phases
  <2>3. context' \in [Requests -> Contexts]
    BY <1>4, <2>2 DEF Create
  <2> QED
    BY <1>4, <2>3 DEF Create
<1>5. ASSUME NEW r \in Requests, Load(r) PROVE TypeOK'
  <2>1. [context[r] EXCEPT !.phase = "loaded"] \in Contexts
    BY DEF Contexts, Phases
  <2> QED
    BY <1>5, <2>1 DEF Load
<1>6. ASSUME NEW r \in Requests, LoadFails(r) PROVE TypeOK'
  <2>1. [context[r] EXCEPT !.phase = "freed"] \in Contexts
    BY DEF Contexts, Phases
  <2> QED
    BY <1>6, <2>1 DEF LoadFails
<1>7. ASSUME NEW r \in Requests, Publish(r) PROVE TypeOK'
  <2>1. req[r] \in Payloads
    BY <1>7, SubmapOfReceived DEF Publish
  <2>2. [context[r] EXCEPT !.phase = "ready", !.options = req[r].options] \in Contexts
    BY <2>1, ZenonT(30) DEF Contexts, Phases
  <2>3. context' \in [Requests -> Contexts]
    BY <1>7, <2>2 DEF Publish
  <2>4. /\ DOMAIN sessions' \subseteq {p.session : p \in Payloads}
        /\ \A s \in DOMAIN sessions' : sessions'[s] \in Requests
    BY <1>7, <2>1 DEF Publish, Id
  <2> QED
    BY <1>7, <2>3, <2>4 DEF Publish
<1>8. ASSUME NEW r \in Requests, Eval(r) PROVE TypeOK'
  <2>1. mixed' \subseteq Requests
    BY <1>8 DEF Eval, Inferring
  <2>2. evals' \in [Requests -> 0 .. MaxEvals]
    BY <1>8, BoundAssumption DEF Eval, MayEval
  <2> QED
    BY <1>8, <2>1, <2>2 DEF Eval, MayEval
<1>9. ASSUME NEW r \in Requests, EvalFails(r) \/ Respond(r) PROVE TypeOK'
  BY <1>9 DEF EvalFails, MayEval, Respond
<1>10. CASE Crash
  <2>1. NoContext \in Contexts
    BY DEF NoContext, Contexts, Phases
  <2>2. crashes' \in 0 .. MaxCrashes
    BY <1>10, BoundAssumption DEF Crash
  <2>3. pc' \in [Requests -> {"unsent", "emplace", "load", "publish", "predict", "done"}]
    BY <1>10 DEF Crash
  <2> QED
    BY <1>10, <2>1, <2>2, <2>3 DEF Crash
<1>11. CASE UNCHANGED vars
  BY <1>11 DEF vars
<1> QED
  BY <1>1, <1>2, <1>3, <1>4, <1>5, <1>6, <1>7, <1>8, <1>9, <1>10, <1>11
  DEF Next, Send, Step, GetSession, Infer, AllDone

----------------------------------------------------------------------------
(* SessionInv is preserved: a lemma for each action that changes the map,  *)
(* a lock, a context or the step of a request.                             *)

LEMMA SendKeeps ==
  ASSUME MapInv, NEW r \in Requests, NEW payload \in Payloads,
         Accept(r, payload) \/ Reject(r, payload)
  PROVE  SessionInv'
<1> USE DEF MapInv, SessionInv, TypeOK
<1>1. /\ UNCHANGED <<held, sessions, session, context>>
      /\ req' = [req EXCEPT ![r] = payload]
      /\ \/ pc' = [pc EXCEPT ![r] = "emplace"]
         \/ pc' = [pc EXCEPT ![r] = "done"]
      /\ pc[r] = "unsent"
  BY DEF Accept, Reject
<1>2. \A q \in Requests \ {r} :
        pc'[q] = pc[q] /\ req'[q] = req[q] /\ Id(q)' = Id(q) /\ Submap(q)' = Submap(q)
  BY <1>1 DEF Id, Submap
<1>3. ~Live(r) /\ \A m \in Submaps : held[m] # r
  BY <1>1, DistinctAssumption DEF NoneCreated, Live, HolderCreates
<1>4. Received'
  BY <1>1, DistinctAssumption DEF Received
<1>5. NoneCreated'
  BY <1>1 DEF NoneCreated
<1>6. CreatorHoldsLock'
  BY <1>1, <1>2 DEF CreatorHoldsLock
<1>7. HolderCreates'
  BY <1>1, <1>2, <1>3 DEF HolderCreates
<1>8. InfersOnSession'
  BY <1>1, <1>2 DEF InfersOnSession
<1>9. EveryContextHasItsPlace'
  <2>1. \A s \in DOMAIN sessions : sessions[s] # r
    BY <1>3 DEF EveryContextHasItsPlace, Live
  <2>2. \A c \in Requests : Live(c)' = Live(c)
    BY <1>1 DEF Live
  <2> QED
    BY <1>1, <1>2, <1>3, <2>1, <2>2 DEF EveryContextHasItsPlace
<1> QED
  BY <1>4, <1>5, <1>6, <1>7, <1>8, <1>9

LEMMA JoinKeeps ==
  ASSUME MapInv, NEW r \in Requests, Join(r)
  PROVE  SessionInv'
<1> USE DEF MapInv, SessionInv, TypeOK
<1>1. /\ UNCHANGED <<req, held, sessions, context>>
      /\ session' = [session EXCEPT ![r] = sessions[Id(r)]]
      /\ pc' = [pc EXCEPT ![r] = "predict"]
      /\ pc[r] = "emplace" /\ Id(r) \in DOMAIN sessions
  BY DEF Join
<1>2. \A q \in Requests : Id(q)' = Id(q) /\ Submap(q)' = Submap(q) /\ Live(q)' = Live(q)
  BY <1>1 DEF Id, Submap, Live
<1>3. Received' /\ NoneCreated'
  BY <1>1 DEF Received, NoneCreated
<1>4. CreatorHoldsLock' /\ HolderCreates'
  BY <1>1, <1>2 DEF CreatorHoldsLock, HolderCreates
<1>5. InfersOnSession'
  BY <1>1, <1>2 DEF InfersOnSession
<1>6. EveryContextHasItsPlace'
  BY <1>1, <1>2 DEF EveryContextHasItsPlace
<1> QED
  BY <1>3, <1>4, <1>5, <1>6

LEMMA CreateKeeps ==
  ASSUME MapInv, NEW r \in Requests, Create(r)
  PROVE  SessionInv'
<1> USE DEF MapInv, SessionInv, TypeOK
<1>1. /\ UNCHANGED <<req, sessions>>
      /\ session' = [session EXCEPT ![r] = r]
      /\ held' = [held EXCEPT ![Submap(r)] = r]
      /\ pc' = [pc EXCEPT ![r] = "load"]
      /\ pc[r] = "emplace" /\ Id(r) \notin DOMAIN sessions
      /\ held[Submap(r)] = NoOne
  BY DEF Create
<1>2. /\ \A q \in Requests \ {r} : context'[q] = context[q]
      /\ context'[r].phase = "new" /\ context'[r].model = req[r].model
  BY DEF Create, Contexts
<1>3. \A q \in Requests : Id(q)' = Id(q) /\ Submap(q)' = Submap(q)
  BY <1>1 DEF Id, Submap
<1>4. Submap(r) \in Submaps
  BY <1>1, SubmapOfReceived
<1>5. context[r].phase = "none"
  BY <1>1 DEF NoneCreated
<1>6. Received' /\ NoneCreated'
  BY <1>1, <1>2 DEF Received, NoneCreated
<1>7. CreatorHoldsLock'
  BY <1>1, <1>2, <1>3, <1>4, DistinctAssumption DEF CreatorHoldsLock
<1>8. HolderCreates'
  BY <1>1, <1>3, <1>4 DEF HolderCreates
<1>9. InfersOnSession'
  BY <1>1, <1>3 DEF InfersOnSession
<1>10. EveryContextHasItsPlace'
  <2>1. \A s \in DOMAIN sessions : sessions[s] # r
    BY <1>5 DEF EveryContextHasItsPlace
  <2>2. \A q \in Requests \ {r} : Live(q)' = Live(q)
    BY <1>2 DEF Live
  <2>3. \A q \in Requests \ {r} :
          held[Submap(q)] = q => held'[Submap(q)] = q \/ Submap(q) = Submap(r)
    BY <1>1
  <2>4. \A q \in Requests \ {r} : held[Submap(q)] = q => held'[Submap(q)] = q
    BY <1>1, <2>3, DistinctAssumption
  <2> QED
    BY <1>1, <1>2, <1>3, <1>4, <2>1, <2>2, <2>4 DEF EveryContextHasItsPlace
<1> QED
  BY <1>6, <1>7, <1>8, <1>9, <1>10

LEMMA LoadKeeps ==
  ASSUME MapInv, NEW r \in Requests, Load(r)
  PROVE  SessionInv'
<1> USE DEF MapInv, SessionInv, TypeOK
<1>1. /\ UNCHANGED <<req, held, sessions, session>>
      /\ pc' = [pc EXCEPT ![r] = "publish"] /\ pc[r] = "load"
  BY DEF Load
<1>2. /\ \A q \in Requests \ {r} : context'[q] = context[q]
      /\ context'[r].phase = "loaded" /\ context'[r].model = context[r].model
  BY DEF Load, Contexts
<1>3. \A q \in Requests : Id(q)' = Id(q) /\ Submap(q)' = Submap(q)
  BY <1>1 DEF Id, Submap
<1>4. held[Submap(r)] = r /\ context[r].phase = "new"
  BY <1>1 DEF CreatorHoldsLock
<1>5. Received' /\ NoneCreated'
  BY <1>1, <1>2 DEF Received, NoneCreated
<1>6. CreatorHoldsLock'
  BY <1>1, <1>2, <1>3 DEF CreatorHoldsLock
<1>7. HolderCreates' /\ InfersOnSession'
  BY <1>1, <1>3 DEF HolderCreates, InfersOnSession
<1>8. EveryContextHasItsPlace'
  <2>1. \A s \in DOMAIN sessions : sessions[s] # r
    BY <1>4 DEF EveryContextHasItsPlace
  <2>2. \A q \in Requests \ {r} : Live(q)' = Live(q)
    BY <1>2 DEF Live
  <2> QED
    BY <1>1, <1>2, <1>3, <1>4, <2>1, <2>2 DEF EveryContextHasItsPlace
<1> QED
  BY <1>5, <1>6, <1>7, <1>8

LEMMA LoadFailsKeeps ==
  ASSUME MapInv, NEW r \in Requests, LoadFails(r)
  PROVE  SessionInv'
<1> USE DEF MapInv, SessionInv, TypeOK
<1>1. /\ UNCHANGED <<req, sessions>>
      /\ session' = [session EXCEPT ![r] = NoOne]
      /\ held' = [held EXCEPT ![Submap(r)] = NoOne]
      /\ pc' = [pc EXCEPT ![r] = "done"] /\ pc[r] = "load"
  BY DEF LoadFails
<1>2. /\ \A q \in Requests \ {r} : context'[q] = context[q]
      /\ context'[r].phase = "freed"
  BY DEF LoadFails, Contexts
<1>3. \A q \in Requests : Id(q)' = Id(q) /\ Submap(q)' = Submap(q)
  BY <1>1 DEF Id, Submap
<1>4. held[Submap(r)] = r /\ context[r].phase = "new"
  BY <1>1 DEF CreatorHoldsLock
<1>5. Submap(r) \in Submaps
  BY <1>1, SubmapOfReceived
<1>6. Received' /\ NoneCreated'
  BY <1>1, <1>2 DEF Received, NoneCreated
<1>7. \A q \in Requests \ {r} : held[Submap(q)] = q => held'[Submap(q)] = q
  BY <1>1, <1>4
<1>8. CreatorHoldsLock'
  BY <1>1, <1>2, <1>3, <1>7 DEF CreatorHoldsLock
<1>9. HolderCreates'
  BY <1>1, <1>3, <1>4, <1>5 DEF HolderCreates
<1>10. InfersOnSession'
  BY <1>1, <1>3 DEF InfersOnSession
<1>11. EveryContextHasItsPlace'
  <2>1. \A s \in DOMAIN sessions : sessions[s] # r
    BY <1>4 DEF EveryContextHasItsPlace
  <2>2. \A q \in Requests \ {r} : Live(q)' = Live(q)
    BY <1>2 DEF Live
  <2>3. ~Live(r)'
    BY <1>2 DEF Live
  <2> QED
    BY <1>1, <1>2, <1>3, <1>7, <2>1, <2>2, <2>3 DEF EveryContextHasItsPlace
<1> QED
  BY <1>6, <1>8, <1>9, <1>10, <1>11

LEMMA PublishKeeps ==
  ASSUME MapInv, NEW r \in Requests, Publish(r)
  PROVE  SessionInv'
<1> USE DEF MapInv, SessionInv, TypeOK
<1>1. /\ UNCHANGED <<req, session>>
      /\ held' = [held EXCEPT ![Submap(r)] = NoOne]
      /\ pc' = [pc EXCEPT ![r] = "predict"] /\ pc[r] = "publish"
  BY DEF Publish
<1>2. /\ DOMAIN sessions' = DOMAIN sessions \cup {Id(r)}
      /\ sessions'[Id(r)] = r
      /\ \A s \in DOMAIN sessions : s # Id(r) => sessions'[s] = sessions[s]
  BY DEF Publish
<1>3. /\ \A q \in Requests \ {r} : context'[q] = context[q]
      /\ context'[r].phase = "ready"
  BY DEF Publish, Contexts
<1>4. \A q \in Requests : Id(q)' = Id(q) /\ Submap(q)' = Submap(q)
  BY <1>1 DEF Id, Submap
<1>5. /\ held[Submap(r)] = r /\ session[r] = r
      /\ Id(r) \notin DOMAIN sessions /\ context[r].phase = "loaded"
  BY <1>1 DEF CreatorHoldsLock
<1>6. Submap(r) \in Submaps
  BY <1>1, SubmapOfReceived
<1>7. Received' /\ NoneCreated'
  BY <1>1, <1>3 DEF Received, NoneCreated
<1>8. \A q \in Requests \ {r} :
        held[Submap(q)] = q => held'[Submap(q)] = q /\ Id(q) # Id(r)
  BY <1>1, <1>5 DEF Submap
<1>9. CreatorHoldsLock'
  BY <1>1, <1>2, <1>3, <1>4, <1>8 DEF CreatorHoldsLock
<1>10. HolderCreates'
  BY <1>1, <1>4, <1>5, <1>6 DEF HolderCreates
<1>11. InfersOnSession'
  BY <1>1, <1>2, <1>4, <1>5 DEF InfersOnSession
<1>12. EveryContextHasItsPlace'
  <2>1. \A s \in DOMAIN sessions : sessions[s] # r
    BY <1>5 DEF EveryContextHasItsPlace
  <2>2. \A q \in Requests \ {r} : Live(q)' = Live(q)
    BY <1>3 DEF Live
  <2>3. ASSUME NEW c \in Requests, Live(c)'
        PROVE  \/ Id(c) \in DOMAIN sessions' /\ sessions'[Id(c)] = c
               \/ held'[Submap(c)] = c /\ pc'[c] \in {"load", "publish"}
    <3>1. CASE c = r
      BY <3>1, <1>2
    <3>2. CASE c # r
      BY <3>2, <2>2, <2>3, <1>1, <1>2, <1>5, <1>8 DEF EveryContextHasItsPlace
    <3> QED
      BY <3>1, <3>2
  <2>4. \A s \in DOMAIN sessions' :
          context'[sessions'[s]].phase = "ready" /\ Id(sessions'[s]) = s
    BY <1>2, <1>3, <2>1 DEF EveryContextHasItsPlace
  <2>5. \A s \in DOMAIN sessions' : sessions'[s] \in Requests
    BY <1>2
  <2> QED
    BY <1>4, <2>3, <2>4, <2>5 DEF EveryContextHasItsPlace
<1> QED
  BY <1>7, <1>9, <1>10, <1>11, <1>12

LEMMA PredictKeeps ==
  ASSUME MapInv, NEW r \in Requests, Eval(r) \/ EvalFails(r) \/ Respond(r)
  PROVE  SessionInv'
<1> USE DEF MapInv, SessionInv, TypeOK
<1>1. /\ UNCHANGED <<req, held, sessions, session, context>>
      /\ pc' = pc \/ pc' = [pc EXCEPT ![r] = "done"]
      /\ pc[r] = "predict"
  BY DEF Eval, EvalFails, MayEval, Respond
<1>2. \A q \in Requests : Id(q)' = Id(q) /\ Submap(q)' = Submap(q) /\ Live(q)' = Live(q)
  BY <1>1 DEF Id, Submap, Live
<1>3. Received' /\ NoneCreated'
  BY <1>1 DEF Received, NoneCreated
<1>4. CreatorHoldsLock' /\ HolderCreates' /\ InfersOnSession'
  BY <1>1, <1>2 DEF CreatorHoldsLock, HolderCreates, InfersOnSession
<1>5. EveryContextHasItsPlace'
  BY <1>1, <1>2 DEF EveryContextHasItsPlace
<1> QED
  BY <1>3, <1>4, <1>5

LEMMA CrashKeeps ==
  ASSUME MapInv, Crash
  PROVE  SessionInv'
<1>1. \A r \in Requests : context'[r].phase = "none"
  BY DEF Crash, NoContext
<1>2. \A r \in Requests :
        pc'[r] \in {"unsent", "done"} /\ (pc'[r] = "unsent" <=> pc[r] = "unsent")
  BY DEF Crash
<1>3. (\A m \in Submaps : held'[m] = NoOne) /\ DOMAIN sessions' = {} /\ req' = req
  BY DEF Crash
<1>4. Received' /\ NoneCreated'
  BY <1>1, <1>2, <1>3 DEF Received, NoneCreated, MapInv, SessionInv
<1>5. CreatorHoldsLock' /\ HolderCreates' /\ InfersOnSession'
  BY <1>2, <1>3 DEF CreatorHoldsLock, HolderCreates, InfersOnSession
<1>6. EveryContextHasItsPlace'
  BY <1>1, <1>3 DEF EveryContextHasItsPlace, Live
<1> QED
  BY <1>4, <1>5, <1>6 DEF SessionInv

LEMMA MapKept == MapInv /\ [Next]_vars => MapInv'
<1> SUFFICES ASSUME MapInv, [Next]_vars PROVE MapInv'
  OBVIOUS
<1>1. TypeOK'
  BY TypeKept DEF MapInv, SessionInv
<1>2. CASE UNCHANGED vars
  BY <1>1, <1>2 DEF vars, MapInv, SessionInv, Received, NoneCreated, CreatorHoldsLock,
                    HolderCreates, InfersOnSession, EveryContextHasItsPlace, Live, Submap, Id
<1>3. CASE \E r \in Requests : Send(r)
  BY <1>1, <1>3, SendKeeps DEF Send, MapInv
<1>4. CASE \E r \in Requests : Step(r)
  BY <1>1, <1>4, JoinKeeps, CreateKeeps, LoadKeeps, LoadFailsKeeps, PublishKeeps,
     PredictKeeps
  DEF Step, GetSession, Infer, MapInv
<1>5. CASE Crash
  BY <1>1, <1>5, CrashKeeps DEF MapInv
<1> QED
  BY <1>2, <1>3, <1>4, <1>5 DEF Next, AllDone

----------------------------------------------------------------------------
\* The service's fields and the locals of its requests keep their types, for
\* any requests, payloads, submaps and bounds.
THEOREM TypeCorrect == Spec => []TypeOK
<1>1. MapInv => TypeOK
  BY DEF MapInv
<1> QED
  BY <1>1, InitMap, MapKept, PTL DEF Spec

\* For any number of requests, sessions, submaps and restarts: no context is
\* leaked by a failed load, and the map holds only contexts that are ready.
THEOREM NoContextLost == Spec => []EveryContextHasItsPlace
<1>1. MapInv => EveryContextHasItsPlace
  BY DEF MapInv, SessionInv
<1> QED
  BY <1>1, InitMap, MapKept, PTL DEF Spec

\* ... and a session never has two contexts alive, however its first requests
\* interleave.
THEOREM ModelLoadedOnce == Spec => []OneContextPerSession
<1>1. ASSUME MapInv, NEW q \in Requests, NEW r \in Requests,
             Live(q), Live(r), Id(q) = Id(r)
      PROVE  q = r
  <2>1. Submap(q) = Submap(r)
    BY <1>1 DEF Submap
  <2> QED
    BY <1>1, <2>1 DEF MapInv, SessionInv, EveryContextHasItsPlace, CreatorHoldsLock
<1>2. MapInv => OneContextPerSession
  BY <1>1 DEF OneContextPerSession
<1> QED
  BY <1>2, InitMap, MapKept, PTL DEF Spec

\* ... and every inference runs in the ready context of its own session,
\* holding no lock.
THEOREM SessionsIsolated == Spec => []InferenceRunsInItsSession
<1>1. MapInv => InferenceRunsInItsSession
  BY DistinctAssumption
  DEF MapInv, SessionInv, InfersOnSession, EveryContextHasItsPlace, HolderCreates,
      InferenceRunsInItsSession, TypeOK
<1> QED
  BY <1>1, InitMap, MapKept, PTL DEF Spec

----------------------------------------------------------------------------
(* Answers.                                                                *)

\* A request that was not received has evaluated nothing.
UnsentIdle ==
  \A r \in Requests : pc[r] = "unsent" => evals[r] = 0 /\ r \notin mixed

MixInv == UnsentIdle /\ OnlyOwnSessionMixes

LEMMA MixedKept == MapInv /\ MixInv /\ [Next]_vars => MixInv'
<1> SUFFICES ASSUME MapInv, MixInv, [Next]_vars
             PROVE  MixInv'
  OBVIOUS
<1> USE DEF MapInv, TypeOK, MixInv, UnsentIdle, OnlyOwnSessionMixes
<1>1. ASSUME NEW r \in Requests, Eval(r) PROVE MixInv'
  <2> DEFINE started == {q \in Inferring(session[r]) \ {r} : evals[q] > 0}
  <2>1. /\ pc[r] = "predict" /\ req' = req /\ pc' = pc
        /\ evals' = [evals EXCEPT ![r] = IF @ < MaxEvals THEN @ + 1 ELSE @]
        /\ mixed' \subseteq mixed \cup started \cup {r}
        /\ r \in mixed' \ mixed => started # {}
    BY <1>1 DEF Eval, MayEval
  <2>2. \A q \in Requests : Id(q)' = Id(q) /\ (evals[q] > 0 => evals'[q] > 0)
    BY <2>1, BoundAssumption DEF Id
  <2>3. evals'[r] > 0
    BY <2>1, BoundAssumption
  <2>4. \A q \in started :
          q \in Requests \ {r} /\ pc[q] = "predict" /\ evals[q] > 0 /\ Id(q) = Id(r)
    BY <2>1 DEF Inferring, SessionInv, InfersOnSession, EveryContextHasItsPlace
  <2>5. UnsentIdle'
    BY <2>1, <2>4
  <2>6. OnlyOwnSessionMixes'
    BY <2>1, <2>2, <2>3, <2>4
  <2> QED
    BY <2>5, <2>6
<1>2. ASSUME NEW r \in Requests, NEW payload \in Payloads,
             Accept(r, payload) \/ Reject(r, payload)
      PROVE  MixInv'
  <2>1. /\ pc[r] = "unsent" /\ UNCHANGED <<evals, mixed>>
        /\ \A q \in Requests \ {r} : pc'[q] = pc[q] /\ Id(q)' = Id(q)
    BY <1>2 DEF Accept, Reject, Id
  <2>2. evals[r] = 0 /\ r \notin mixed /\ pc'[r] # "unsent"
    BY <1>2, <2>1 DEF Accept, Reject
  <2> QED
    BY <2>1, <2>2
<1>3. ASSUME UNCHANGED <<req, evals, mixed>>,
             \A r \in Requests : pc'[r] = "unsent" => pc[r] = "unsent"
      PROVE  MixInv'
  BY <1>3 DEF Id
<1>4. CASE UNCHANGED vars
  BY <1>3, <1>4 DEF vars
<1>5. CASE Crash
  BY <1>3, <1>5 DEF Crash
<1>6. ASSUME NEW r \in Requests, Step(r), ~Eval(r) PROVE MixInv'
  <2>1. UNCHANGED <<req, evals, mixed>>
    BY <1>6 DEF Step, GetSession, Infer, Join, Create, Load, LoadFails, Publish, EvalFails, Respond
  <2>2. \A q \in Requests : pc'[q] = "unsent" => pc[q] = "unsent"
    BY <1>6 DEF Step, GetSession, Infer, Join, Create, Load, LoadFails, Publish, EvalFails, Respond
  <2> QED
    BY <1>3, <2>1, <2>2
<1> QED
  BY <1>1, <1>2, <1>4, <1>5, <1>6 DEF Next, Send, AllDone

\* For any number of requests, sessions and evaluations, and across restarts:
\* the tokens of a request get only into answers of its own session.
THEOREM SessionsDoNotMix == Spec => []OnlyOwnSessionMixes
<1>1. Init => MapInv /\ MixInv
  BY InitMap DEF Init, MixInv, UnsentIdle, OnlyOwnSessionMixes
<1>2. MixInv => OnlyOwnSessionMixes
  BY DEF MixInv
<1> QED
  BY <1>1, <1>2, MapKept, MixedKept, PTL DEF Spec

----------------------------------------------------------------------------
(* The service implements SessionStore.                                    *)

\* A request has no answer until it is done.
Unanswered ==
  /\ reply = [r \in Requests |-> reply[r]]
  /\ \A r \in Requests : reply[r] = NoReply <=> pc[r] # "done"

StoreInv == MapInv /\ Unanswered

LEMMA RepliesDiffer ==
  /\ Error # NoReply /\ Lost # NoReply
  /\ \A config, model : Ok(config, model) # NoReply
<1>1. Error.status # NoReply.status /\ Lost.status # NoReply.status
  BY DEF Error, Lost, NoReply
<1>2. ASSUME NEW config, NEW model PROVE Ok(config, model).status # NoReply.status
  BY DEF Ok, NoReply
<1> QED
  BY <1>1, <1>2

LEMMA UnansweredKept == StoreInv /\ [Next]_vars => Unanswered'
<1> SUFFICES ASSUME StoreInv, [Next]_vars PROVE Unanswered'
  OBVIOUS
<1> USE DEF StoreInv, MapInv, TypeOK, Unanswered
<1>1. ASSUME NEW r \in Requests, NEW payload \in Payloads, Accept(r, payload)
      PROVE  Unanswered'
  BY <1>1 DEF Accept
<1>2. ASSUME NEW r \in Requests, NEW payload \in Payloads, Reject(r, payload)
      PROVE  Unanswered'
  BY <1>2, RepliesDiffer DEF Reject
<1>3. ASSUME NEW r \in Requests,
             Join(r) \/ Create(r) \/ Load(r) \/ Publish(r) \/ Eval(r)
      PROVE  Unanswered'
  BY <1>3 DEF Join, Create, Load, Publish, Eval
<1>4. ASSUME NEW r \in Requests, LoadFails(r) \/ EvalFails(r) PROVE Unanswered'
  BY <1>4, RepliesDiffer DEF LoadFails, EvalFails
<1>5. ASSUME NEW r \in Requests, Respond(r) PROVE Unanswered'
  BY <1>5, RepliesDiffer DEF Respond
<1>6. CASE Crash
  BY <1>6, RepliesDiffer DEF Crash
<1>7. CASE UNCHANGED vars
  BY <1>7 DEF vars
<1> QED
  BY <1>1, <1>2, <1>3, <1>4, <1>5, <1>6, <1>7 DEF Next, Send, Step, GetSession, Infer, AllDone

\* The abstract store.
store == [s \in DOMAIN sessions |-> Config(context[sessions[s]])]

LEMMA StoreKept ==
  ASSUME MapInv, UNCHANGED sessions,
         \A c \in Requests : context[c].phase = "ready" => context'[c] = context[c]
  PROVE  UNCHANGED store
<1>1. \A s \in DOMAIN sessions : context'[sessions[s]] = context[sessions[s]]
  BY DEF MapInv, TypeOK, SessionInv, EveryContextHasItsPlace
<1> QED
  BY <1>1 DEF store, Config

LEMMA StepImplements ==
  ASSUME StoreInv, NEW r \in Requests, Step(r)
  PROVE  [Store!Next]_(Store!vars)
<1> USE DEF StoreInv, MapInv, TypeOK
<1>1. pc[r] # "unsent" /\ pc[r] # "done"
  BY DEF Step, GetSession, Infer, Join, Create, Load, LoadFails, Publish, Eval,
         EvalFails, MayEval, Respond
<1>2. Store!Pending(r)
  BY <1>1 DEF Store!Pending, Store!NoReply, NoReply, Unanswered, SessionInv, Received
<1>3. ASSUME UNCHANGED <<req, reply, crashes, store>> PROVE UNCHANGED Store!vars
  BY <1>3 DEF Store!vars, store
<1>4. CASE Join(r) \/ Eval(r)
  <2>1. UNCHANGED store
    BY <1>4, StoreKept DEF Join, Eval
  <2> QED
    BY <1>3, <1>4, <2>1 DEF Join, Eval
<1>5. CASE Create(r) \/ Load(r)
  <2>1. context[r].phase # "ready"
    BY <1>5 DEF Create, Load, SessionInv, NoneCreated, CreatorHoldsLock
  <2>2. \A c \in Requests \ {r} : context'[c] = context[c]
    BY <1>5 DEF Create, Load
  <2>3. UNCHANGED store
    BY <1>5, <2>1, <2>2, StoreKept DEF Create, Load
  <2> QED
    BY <1>3, <1>5, <2>3 DEF Create, Load
<1>6. CASE LoadFails(r)
  <2>1. context[r].phase # "ready"
    BY <1>6 DEF LoadFails, SessionInv, CreatorHoldsLock
  <2>2. \A c \in Requests \ {r} : context'[c] = context[c]
    BY <1>6 DEF LoadFails
  <2>3. UNCHANGED store
    BY <1>6, <2>1, <2>2, StoreKept DEF LoadFails
  <2>4. Store!Refuse(r)
    BY <1>2, <1>6, <2>3 DEF Store!Refuse, Store!Error, Error, LoadFails, store
  <2> QED
    BY <2>4 DEF Store!Next
<1>7. CASE EvalFails(r)
  <2>1. UNCHANGED store
    BY <1>7, StoreKept DEF EvalFails
  <2>2. Store!Refuse(r)
    BY <1>2, <1>7, <2>1 DEF Store!Refuse, Store!Error, Error, EvalFails, store
  <2> QED
    BY <2>2 DEF Store!Next
<1>8. CASE Publish(r)
  <2>1. /\ Id(r) \notin DOMAIN sessions /\ context[r].model = req[r].model
        /\ context[r].phase # "ready"
    BY <1>8 DEF Publish, SessionInv, CreatorHoldsLock
  <2>2. \A c \in Requests \ {r} : context'[c] = context[c]
    BY <1>8 DEF Publish
  <2>3. context'[r].model = req[r].model /\ context'[r].options = req[r].options
    BY <1>8, <2>1 DEF Publish, Contexts
  <2>4. sessions' = [s \in DOMAIN sessions \cup {Id(r)} |->
                       IF s = Id(r) THEN r ELSE sessions[s]]
    BY <1>8 DEF Publish
  <2>5. \A s \in DOMAIN sessions : sessions[s] \in Requests \ {r}
    BY <2>1 DEF SessionInv, EveryContextHasItsPlace
  <2>6. store' = [s \in DOMAIN store \cup {Id(r)} |->
                    IF s = Id(r) THEN Config(req[r]) ELSE store[s]]
    BY <2>2, <2>3, <2>4, <2>5 DEF store, Config
  <2>7. Store!Open(r)
    BY <1>2, <1>8, <2>1, <2>6
    DEF Store!Open, Store!Config, Config, Publish, Id, store
  <2> QED
    BY <2>7 DEF Store!Next
<1>9. CASE Respond(r)
  <2>1. Id(r) \in DOMAIN sessions /\ session[r] = sessions[Id(r)]
    BY <1>9 DEF Respond, SessionInv, InfersOnSession
  <2>2. UNCHANGED store
    BY <1>9, StoreKept DEF Respond
  <2>3. reply' = [reply EXCEPT ![r] = Ok(store[Id(r)], req[r].model)]
    BY <1>9, <2>1 DEF Respond, store
  <2>4. Store!Answer(r)
    BY <1>2, <1>9, <2>1, <2>2, <2>3 DEF Store!Answer, Store!Ok, Ok, Respond, Id, store
  <2> QED
    BY <2>4 DEF Store!Next
<1> QED
  BY <1>4, <1>5, <1>6, <1>7, <1>8, <1>9 DEF Step, GetSession, Infer

LEMMA SendImplements ==
  ASSUME StoreInv, NEW r \in Requests, NEW payload \in Payloads,
         Accept(r, payload) \/ Reject(r, payload)
  PROVE  [Store!Next]_(Store!vars)
<1> USE DEF StoreInv, MapInv, TypeOK
<1>1. req[r] = NoPayload
  BY DEF Accept, Reject, SessionInv, Received
<1>2. UNCHANGED store
  BY StoreKept DEF Accept, Reject
<1>3. CASE Accept(r, payload)
  <2>1. Store!Submit(r, payload)
    BY <1>1, <1>2, <1>3 DEF Store!Submit, Accept, store
  <2> QED
    BY <2>1 DEF Store!Next
<1>4. CASE Reject(r, payload)
  <2>1. Store!SubmitAndRefuse(r, payload)
    BY <1>1, <1>2, <1>4 DEF Store!SubmitAndRefuse, Store!Error, Error, Reject, store
  <2> QED
    BY <2>1 DEF Store!Next
<1> QED
  BY <1>3, <1>4

LEMMA CrashImplements ==
  ASSUME StoreInv, Crash
  PROVE  [Store!Next]_(Store!vars)
<1>1. \A r \in Requests : Store!Pending(r) <=> pc[r] \notin {"unsent", "done"}
  BY DEF StoreInv, MapInv, SessionInv, Received, Unanswered, Store!Pending,
         Store!NoReply, NoReply
<1>2. reply' = [r \in Requests |-> IF Store!Pending(r) THEN Lost ELSE reply[r]]
  BY <1>1 DEF Crash
<1>3. store' = [s \in {} |-> NoPayload]
  BY DEF Crash, store
<1>4. Store!Crash
  BY <1>2, <1>3 DEF Crash, Store!Crash, Store!Lost, Lost, store
<1> QED
  BY <1>4 DEF Store!Next

\* For any number of requests, sessions and restarts, the service is a session
\* store: every answer is made with the model and the options of the request
\* that opened its session.
THEOREM ServiceCorrect == Spec => ImplementsSessionStore
<1>1. Init => Store!Init /\ StoreInv
  <2> SUFFICES ASSUME Init PROVE Store!Init /\ StoreInv
    OBVIOUS
  <2>1. store = [s \in {} |-> NoPayload]
    BY DEF Init, store
  <2>2. Store!Init
    BY <2>1 DEF Init, Store!Init, Store!NoReply, NoReply, store
  <2>3. Unanswered
    BY DEF Init, Unanswered
  <2> QED
    BY <2>2, <2>3, InitMap DEF StoreInv
<1>2. StoreInv /\ [Next]_vars => StoreInv'
  BY MapKept, UnansweredKept DEF StoreInv
<1>3. StoreInv /\ [Next]_vars => [Store!Next]_(Store!vars)
  <2> SUFFICES ASSUME StoreInv, [Next]_vars PROVE [Store!Next]_(Store!vars)
    OBVIOUS
  <2>1. CASE UNCHANGED vars
    BY <2>1 DEF vars, Store!vars
  <2>2. CASE Next
    BY <2>1, <2>2, SendImplements, StepImplements, CrashImplements
    DEF Next, Send, AllDone
  <2> QED
    BY <2>1, <2>2
<1> QED
  BY <1>1, <1>2, <1>3, PTL DEF Spec, ImplementsSessionStore, Store!Spec

=============================================================================
