--------------------------- MODULE HttpServerProofs ---------------------------
(***************************************************************************)
(* Theorems about HttpServer, for any number of clients and every set of   *)
(* requests: the server is put together in an order that works, and no     *)
(* endpoint is hidden by the one for static files.                         *)
(***************************************************************************)
EXTENDS HttpServer, TLAPS

Stages == {"idle", "received", "accepted", "routed", "answered"}

PartNames ==
  {"documentInfo", "resources", "objectMapper", "connectionProvider", "router",
   "connectionHandler", "prompt", "static", "swagger"}

ControllerNames == {"prompt", "static", "swagger"}

ComponentNames == PartNames \ ControllerNames

\* Components come before those that need them, controllers after all of them,
\* and what is made and listed tells what is documented and published.
MadeInv ==
  /\ made \subseteq PartNames
  /\ \A k \in 1 .. 6 : Components[k] \in made =>
       \A j \in 1 .. k - 1 : Components[j] \in made
  /\ made \cap ControllerNames # {} => ComponentNames \subseteq made
  /\ missed = {}
  /\ listed \in 0 .. 2
  /\ listed > 0 => {"prompt", "static"} \subseteq made
  /\ "swagger" \in made => listed = 2
  /\ documented = IF listed > 0 THEN {"prompt"} ELSE {}
  /\ published = IF "swagger" \in made THEN {"prompt"} ELSE {}

\* What is registered is a beginning of Order, and follows the construction.
RegisteredInv ==
  /\ registered \in Seq(ControllerNames)
  /\ Len(registered) <= Len(Order)
  /\ \A k \in 1 .. Len(registered) : registered[k] = Order[k]
  /\ Len(registered) = 0 \/ "swagger" \in made

\* Requests arrive when every controller is registered, and who is to answer one
\* is the first that can.
ServedInv ==
  /\ stage \in [Clients -> Stages]
  /\ handler \in [Clients -> ControllerNames \cup {"nobody"}]
  /\ \A c \in Clients : stage[c] # "idle" => Len(registered) = Len(Order)
  /\ \A c \in Clients :
       handler[c] = "static" =>
         ~Serves("swagger", request[c]) /\ ~Serves("prompt", request[c])

ServerInv == MadeInv /\ RegisteredInv /\ ServedInv

LEMMA ComponentsKnown ==
  /\ DOMAIN Components = 1 .. 6
  /\ Components[1] = "documentInfo" /\ Components[2] = "resources"
  /\ Components[3] = "objectMapper" /\ Components[4] = "connectionProvider"
  /\ Components[5] = "router" /\ Components[6] = "connectionHandler"
  /\ ToSet(Components) = ComponentNames
  /\ ComponentNames = {"documentInfo", "resources", "objectMapper",
                       "connectionProvider", "router", "connectionHandler"}
<1>1. ComponentNames = {"documentInfo", "resources", "objectMapper",
                        "connectionProvider", "router", "connectionHandler"}
  BY DEF ComponentNames, PartNames, ControllerNames
<1>2. /\ DOMAIN Components = 1 .. 6
      /\ Components[1] = "documentInfo" /\ Components[2] = "resources"
      /\ Components[3] = "objectMapper" /\ Components[4] = "connectionProvider"
      /\ Components[5] = "router" /\ Components[6] = "connectionHandler"
  BY DEF Components
<1>3. 1 .. 6 = {1, 2, 3, 4, 5, 6}
  OBVIOUS
<1>4. ToSet(Components) = {Components[k] : k \in {1, 2, 3, 4, 5, 6}}
  BY <1>2, <1>3 DEF ToSet
<1> QED
  BY <1>1, <1>2, <1>4

LEMMA ArgumentsKnown ==
  /\ Len(Arguments) = 2 /\ Arguments[1] = "prompt" /\ Arguments[2] = "static"
  /\ ToSet(Arguments) = {"prompt", "static"}
<1>1. Len(Arguments) = 2 /\ DOMAIN Arguments = {1, 2}
      /\ Arguments[1] = "prompt" /\ Arguments[2] = "static"
  BY DEF Arguments
<1> QED
  BY <1>1 DEF ToSet

LEMMA OrderKnown ==
  /\ Order \in Seq(ControllerNames) /\ Len(Order) = 3
  /\ Order[1] = "swagger" /\ Order[2] = "prompt" /\ Order[3] = "static"
BY DEF Order, ControllerNames

\* Appending the next element of a sequence to a beginning of it.
LEMMA NextOfPrefix ==
  ASSUME NEW T, NEW whole \in Seq(T), NEW s \in Seq(T), Len(s) < Len(whole),
         \A k \in 1 .. Len(s) : s[k] = whole[k]
  PROVE  LET longer == Append(s, whole[Len(s) + 1])
         IN  /\ longer \in Seq(T)
             /\ Len(longer) = Len(s) + 1
             /\ \A k \in 1 .. Len(longer) : longer[k] = whole[k]
OBVIOUS

----------------------------------------------------------------------------
(* Every action keeps the invariant.                                       *)

LEMMA InitServer == Init => ServerInv
<1> SUFFICES ASSUME Init PROVE ServerInv
  OBVIOUS
<1>1. registered = <<>> /\ Len(<<>>) = 0
  BY DEF Init
<1>2. MadeInv
  BY DEF Init, MadeInv, ControllerNames
<1>3. RegisteredInv
  BY <1>1, OrderKnown DEF RegisteredInv
<1>4. ServedInv
  BY DEF Init, ServedInv, Stages, ControllerNames
<1> QED
  BY <1>2, <1>3, <1>4 DEF ServerInv

\* What construction leaves alone.
LEMMA BeforeRequests ==
  ASSUME ServerInv, MadeInv', "swagger" \in made => "swagger" \in made',
         UNCHANGED <<registered, serving>>
  PROVE  ServerInv'
BY DEF ServerInv, RegisteredInv, ServedInv, serving

LEMMA MakeComponentKept ==
  ASSUME ServerInv, MakeComponent
  PROVE  ServerInv'
<1>1. MadeInv /\ UNCHANGED <<listed, documented, published, registered, serving>>
  BY DEF ServerInv, MakeComponent
<1>2. PICK k \in 1 .. 6 :
        /\ \A j \in 1 .. k - 1 : Components[j] \in made
        /\ Make(Components[k])
  BY ComponentsKnown DEF MakeComponent
<1> DEFINE part == Components[k]
<1>3. part \in ComponentNames /\ part \notin ControllerNames
  BY ComponentsKnown DEF ControllerNames
<1>4. Needs(part) \subseteq made
  <2>1. CASE k = 6
    <3>1. {Components[3], Components[5]} \subseteq made
      BY <1>2, <2>1
    <3>2. Needs(part) = {"router", "objectMapper"}
      BY <2>1, ComponentsKnown DEF Needs
    <3> QED
      BY <3>1, <3>2, ComponentsKnown
  <2>2. CASE k # 6
    <3>1. part \notin {"connectionHandler", "prompt", "static", "swagger"}
      BY <2>2, ComponentsKnown
    <3> HIDE DEF part
    <3>2. Needs(part) = {}
      BY <3>1 DEF Needs
    <3> QED
      BY <3>2
  <2> QED
    BY <2>1, <2>2
<1>5. made' = made \cup {part} /\ missed' = {}
  BY <1>1, <1>2, <1>4 DEF Make, MadeInv
<1>6. \A l \in 1 .. 6 : Components[l] \in made' =>
        \A j \in 1 .. l - 1 : Components[j] \in made'
  <2> SUFFICES ASSUME NEW l \in 1 .. 6, Components[l] \in made', NEW j \in 1 .. l - 1
               PROVE  Components[j] \in made'
    OBVIOUS
  <2>1. CASE l = k
    BY <1>2, <1>5, <2>1
  <2>2. CASE l # k
    <3>1. Components[l] # part
      BY <2>2, ComponentsKnown
    <3> HIDE DEF part
    <3>2. Components[l] \in made
      BY <1>5, <3>1
    <3> QED
      BY <1>1, <1>5, <3>2 DEF MadeInv
  <2> QED
    BY <2>1, <2>2
<1> HIDE DEF part
<1>7. "swagger" \in made' <=> "swagger" \in made
  BY <1>3, <1>5 DEF ControllerNames
<1>8. made' \cap ControllerNames = made \cap ControllerNames /\ made \subseteq made'
      /\ made' \subseteq PartNames
  BY <1>1, <1>3, <1>5 DEF MadeInv, ComponentNames
<1>9. MadeInv'
  BY <1>1, <1>5, <1>6, <1>7, <1>8 DEF MadeInv
<1> QED
  BY <1>1, <1>7, <1>9, BeforeRequests

LEMMA MakeArgumentKept ==
  ASSUME ServerInv, MakeArgument
  PROVE  ServerInv'
<1>1. /\ MadeInv /\ ComponentNames \subseteq made
      /\ UNCHANGED <<listed, documented, published, registered, serving>>
  BY ComponentsKnown DEF ServerInv, MakeArgument
<1>2. PICK part \in {"prompt", "static"} : Make(part)
  BY ArgumentsKnown DEF MakeArgument
<1>3. Needs(part) \subseteq made
  BY <1>1, ComponentsKnown DEF Needs
<1>4. made' = made \cup {part} /\ missed' = {}
  BY <1>1, <1>2, <1>3 DEF Make, MadeInv
<1>5. /\ "swagger" \in made' <=> "swagger" \in made
      /\ made' \subseteq PartNames
      /\ ComponentNames \subseteq made'
  BY <1>1, <1>4 DEF MadeInv, PartNames
<1>6. \A k \in 1 .. 6 : Components[k] \in made'
  BY <1>5, ComponentsKnown
<1>7. MadeInv'
  BY <1>1, <1>4, <1>5, <1>6 DEF MadeInv
<1> QED
  BY <1>1, <1>5, <1>7, BeforeRequests

LEMMA AddEndpointsKept ==
  ASSUME ServerInv, AddEndpoints
  PROVE  ServerInv'
<1>1. /\ MadeInv /\ {"prompt", "static"} \subseteq made /\ listed \in 0 .. 1
      /\ UNCHANGED <<made, missed, published, registered, serving>>
  BY ArgumentsKnown DEF ServerInv, MadeInv, AddEndpoints
<1>2. listed' = listed + 1 /\ documented' = {"prompt"}
  <2>1. documented' = documented \cup ({Arguments[listed + 1]} \cap {"prompt"})
    BY DEF AddEndpoints, SwaggerEnabled
  <2>2. listed' = listed + 1
    BY DEF AddEndpoints
  <2>3. CASE listed = 0
    <3>1. Arguments[listed + 1] = "prompt"
      BY <2>3, ArgumentsKnown
    <3>2. documented = {}
      BY <1>1, <2>3 DEF MadeInv
    <3> QED
      BY <2>1, <2>2, <3>1, <3>2
  <2>4. CASE listed = 1
    <3>1. documented = {"prompt"}
      BY <1>1, <2>4 DEF MadeInv
    <3> QED
      BY <2>1, <2>2, <3>1
  <2> QED
    BY <1>1, <2>3, <2>4
<1>3. MadeInv'
  BY <1>1, <1>2 DEF MadeInv
<1> QED
  BY <1>1, <1>3, BeforeRequests

LEMMA MakeSwaggerKept ==
  ASSUME ServerInv, MakeSwagger
  PROVE  ServerInv'
<1>1. /\ MadeInv /\ listed = 2
      /\ Make("swagger") /\ published' = documented
      /\ UNCHANGED <<listed, documented, registered, serving>>
  BY ArgumentsKnown DEF ServerInv, MakeSwagger
<1>2. ComponentNames \subseteq made
  BY <1>1 DEF MadeInv, ControllerNames
<1>3. Needs("swagger") \subseteq made
  BY <1>2, ComponentsKnown DEF Needs
<1>4. made' = made \cup {"swagger"} /\ missed' = {}
  BY <1>1, <1>3 DEF Make, MadeInv
<1>5. \A k \in 1 .. 6 : Components[k] \in made'
  BY <1>2, <1>4, ComponentsKnown
<1>6. MadeInv'
  BY <1>1, <1>2, <1>4, <1>5 DEF MadeInv, PartNames
<1> QED
  BY <1>1, <1>4, <1>6, BeforeRequests

LEMMA AddControllerKept ==
  ASSUME ServerInv, AddController
  PROVE  ServerInv'
<1>1. UNCHANGED <<made, missed, listed, documented, published, stage, request, handler>>
  BY DEF AddController, serving
<1>2. Len(registered) < Len(Order)
  BY DEF AddController
<1>3. /\ registered' \in Seq(ControllerNames)
      /\ Len(registered') = Len(registered) + 1
      /\ \A k \in 1 .. Len(registered') : registered'[k] = Order[k]
  BY <1>2, NextOfPrefix, OrderKnown DEF ServerInv, RegisteredInv, AddController
<1>4. RegisteredInv'
  <2>1. Len(registered) \in Nat /\ Len(registered) < 3
    BY <1>2, OrderKnown DEF ServerInv, RegisteredInv
  <2>2. Len(registered') <= 3
    BY <1>3, <2>1
  <2>3. "swagger" \in made'
    BY <1>1 DEF AddController
  <2> QED
    BY <1>3, <2>2, <2>3, OrderKnown DEF RegisteredInv
<1>5. \A c \in Clients : stage[c] = "idle"
  <2>1. Len(registered) # Len(Order)
    <3>1. Len(registered) \in Nat
      BY DEF ServerInv, RegisteredInv
    <3> QED
      BY <1>2, <3>1, OrderKnown
  <2> QED
    BY <2>1 DEF ServerInv, ServedInv
<1> QED
  BY <1>1, <1>4, <1>5 DEF ServerInv, MadeInv, ServedInv

\* The router takes the endpoint for static files only if there is no other.
LEMMA FirstServes ==
  ASSUME ServerInv, NEW c \in Clients, Route(c)
  PROVE  /\ handler' \in [Clients -> ControllerNames \cup {"nobody"}]
         /\ \A d \in Clients \ {c} : handler'[d] = handler[d]
         /\ handler'[c] = "static" =>
              ~Serves("swagger", request[c]) /\ ~Serves("prompt", request[c])
<1> DEFINE able == {k \in 1 .. Len(registered) : Serves(registered[k], request[c])}
           first == SelectInSeq(registered, LAMBDA k : Serves(k, request[c]))
<1>1. registered[1] = "swagger" /\ registered[2] = "prompt"
      /\ registered[3] = "static" /\ Len(registered) = 3
  BY OrderKnown DEF ServerInv, ServedInv, RegisteredInv, Route, Respond, Move
<1>2. CASE able = {}
  <2>1. first = 0
    BY <1>2 DEF SelectInSeq
  <2> QED
    BY <1>1, <1>2, <2>1 DEF Route, ServerInv, ServedInv
<1>3. CASE able # {}
  <2>1. \E k \in able : \A j \in able : k <= j
    <3>1. able \subseteq {1, 2, 3}
      BY <1>1
    <3> HIDE DEF able
    <3>2. CASE 1 \in able
      BY <3>1, <3>2
    <3>3. CASE 1 \notin able /\ 2 \in able
      BY <3>1, <3>3
    <3>4. CASE 1 \notin able /\ 2 \notin able
      <4>1. able = {3}
        BY <1>3, <3>1, <3>4
      <4> QED
        BY <4>1
    <3> QED
      BY <3>2, <3>3, <3>4
  <2>2. first = CHOOSE k \in able : \A j \in able : k <= j
    BY <1>3 DEF SelectInSeq, Min
  <2>3. first \in able /\ \A j \in able : first <= j
    <3> HIDE DEF able, first
    <3> QED
      BY <2>1, <2>2
  <2>4. first \in 1 .. 3 /\ handler' = [handler EXCEPT ![c] = registered[first]]
    BY <1>1, <2>3 DEF Route
  <2> HIDE DEF first
  <2>5. first = 3 => 1 \notin able /\ 2 \notin able
    BY <2>3
  <2>6. handler'[c] = registered[first] /\ handler' \in [Clients -> ControllerNames \cup {"nobody"}]
        /\ \A d \in Clients \ {c} : handler'[d] = handler[d]
    <3>1. registered[first] \in ControllerNames
      BY <1>1, <2>4 DEF ControllerNames
    <3> QED
      BY <2>4, <3>1 DEF ServerInv, ServedInv
  <2> QED
    BY <1>1, <2>4, <2>5, <2>6
<1> QED
  BY <1>2, <1>3

LEMMA RequestKept ==
  ASSUME ServerInv, NEW c \in Clients,
         Receive(c) \/ Intercept(c) \/ Route(c) \/ Post(c) \/ Get(c) \/ Serve(c)
         \/ Document(c)
  PROVE  ServerInv'
<1>1. UNCHANGED wiring /\ request' = request
  BY DEF Receive, Intercept, Route, Post, Get, Serve, Document
<1>2. \E to \in Stages :
        /\ stage' = [stage EXCEPT ![c] = to]
        /\ stage[c] = "idle" => Len(registered) = Len(Order)
  <2>1. CASE Receive(c)
    BY <2>1 DEF Receive, Move, Stages
  <2>2. CASE Intercept(c) \/ Route(c)
    BY <2>2 DEF Intercept, Route, Respond, Move, Stages
  <2>3. CASE Post(c) \/ Get(c) \/ Serve(c) \/ Document(c)
    BY <2>3 DEF Post, Get, Serve, Document, Respond, Move, Stages
  <2> QED
    BY <2>1, <2>2, <2>3
<1>3. /\ stage' \in [Clients -> Stages]
      /\ \A d \in Clients : stage'[d] # "idle" => Len(registered) = Len(Order)
  BY <1>2 DEF ServerInv, ServedInv
<1>4. CASE Route(c)
  BY <1>1, <1>3, <1>4, FirstServes
  DEF ServerInv, MadeInv, RegisteredInv, ServedInv, wiring
<1>5. CASE ~Route(c)
  <2>1. handler' = handler
    BY <1>5 DEF Receive, Intercept, Post, Get, Serve, Document
  <2> QED
    BY <1>1, <1>3, <2>1 DEF ServerInv, MadeInv, RegisteredInv, ServedInv, wiring
<1> QED
  BY <1>4, <1>5

LEMMA NextServer == ServerInv /\ [Next]_vars => ServerInv'
<1>1. CASE UNCHANGED vars
  BY <1>1 DEF vars, wiring, serving, ServerInv, MadeInv, RegisteredInv, ServedInv
<1> QED
  BY <1>1, MakeComponentKept, MakeArgumentKept, AddEndpointsKept, MakeSwaggerKept,
     AddControllerKept, RequestKept DEF Next

----------------------------------------------------------------------------
(* Theorems.                                                               *)

\* However construction, registration and the requests of any number of clients
\* interleave, nothing is looked up before it is there and, from the first
\* request on, the endpoints of the API are in swagger's copy of the documents.
THEOREM StartOrderWorks == Spec => []ConstructionInOrder
<1>1. ASSUME ServerInv PROVE ConstructionInOrder
  <2>1. LookupsSucceed
    BY <1>1 DEF ServerInv, MadeInv, LookupsSucceed
  <2>2. ASSUME NEW c \in Clients, stage[c] # "idle"
        PROVE  published = SwaggerEnabled
    <3>1. Len(registered) = 3
      BY <1>1, <2>2, OrderKnown DEF ServerInv, ServedInv
    <3>2. "swagger" \in made
      BY <1>1, <3>1 DEF ServerInv, RegisteredInv
    <3> QED
      BY <1>1, <3>2 DEF ServerInv, MadeInv, SwaggerEnabled
  <2> QED
    BY <2>1, <2>2 DEF ConstructionInOrder, ApiIsPublished
<1> QED
  BY <1>1, InitServer, NextServer, PTL DEF Spec

\* Whatever the request, the endpoint for static files answers it only if neither
\* the API nor swagger has an endpoint for it.
THEOREM NoEndpointHidden == Spec => []EndpointsReachable
<1>1. ASSUME ServerInv PROVE EndpointsReachable
  <2>1. ToSet(Order) \ {"static"} = {"swagger", "prompt"}
    BY OrderKnown DEF ToSet
  <2> QED
    BY <1>1, <2>1 DEF ServerInv, ServedInv, EndpointsReachable
<1> QED
  BY <1>1, InitServer, NextServer, PTL DEF Spec

=============================================================================
