----------------------------- MODULE HttpServer -----------------------------
(***************************************************************************)
(* The HTTP server around the chat service: the components it is made of   *)
(* (AppComponent.hpp, SwaggerComponent.hpp), the registration of its       *)
(* controllers (App.cpp) and the way of a request through interceptors,    *)
(* router, controller and error handler.  Every connection has a thread of *)
(* its own.                                                                *)
(*                                                                         *)
(* External (oatpp): requests are intercepted, then routed to the first    *)
(* controller registered for their method and path; whatever an endpoint   *)
(* throws goes to the error handler.                                       *)
(*                                                                         *)
(* Faulty variants of definitions, each with one slip a maintainer could   *)
(* make, stand before the definition they vary.                            *)
(***************************************************************************)
EXTENDS Naturals, Sequences, SequencesExt

CONSTANTS
  Clients,
  Requests  \* records with method, path and body

VARIABLES
  made,        \* components and controllers made so far
  missed,      \* components that were looked up before they were made
  listed,      \* arguments of add_controllers that add_endpoints has seen
  documented,  \* docEndpoints: controllers whose endpoints it contains
  published,   \* what the swagger controller took of it
  registered,  \* controllers of the router, in the order of their registration
  stage,       \* how far the request of each client has come
  request,
  handler,     \* who is to answer it
  response     \* status of the response

wiring  == <<made, missed, listed, documented, published, registered>>
serving == <<stage, request, handler, response>>
vars    == <<wiring, serving>>

Init ==
  /\ made = {} /\ missed = {} /\ listed = 0
  /\ documented = {} /\ published = {}
  /\ registered = <<>>
  /\ stage = [c \in Clients |-> "idle"]
  /\ request \in [Clients -> Requests]
  /\ handler = [c \in Clients |-> "nobody"]
  /\ response = [c \in Clients |-> 0]

----------------------------------------------------------------------------
(* Start.                                                                  *)

ComponentsHandlerFirst ==
  <<"documentInfo", "resources", "objectMapper", "connectionProvider",
    "connectionHandler", "router">>

\* The members of AppComponent, which are made from top to bottom.
Components ==
  <<"documentInfo", "resources", "objectMapper", "connectionProvider",
    "router", "connectionHandler">>

\* The controllers that run() gives to add_controllers.
Arguments == <<"prompt", "static">>

\* What the making of a component or controller looks up.
Needs(part) ==
  CASE part = "connectionHandler"   -> {"router", "objectMapper"}
    [] part \in {"prompt", "static"} -> {"objectMapper"}
    [] part = "swagger"             -> {"objectMapper", "documentInfo", "resources"}
    [] OTHER                        -> {}

\* is_swagger_enabled: the controllers derived from SwaggerApiController.
SwaggerEnabled == {"prompt"}

Make(part) ==
  /\ part \notin made
  /\ made' = made \cup {part}
  /\ missed' = missed \cup (Needs(part) \ made)

\* OATPP_CREATE_COMPONENT.
MakeComponent ==
  /\ \E k \in DOMAIN Components :
       /\ \A j \in 1 .. k - 1 : Components[j] \in made
       /\ Make(Components[k])
  /\ UNCHANGED <<listed, documented, published, registered, serving>>

\* createShared of an argument; which is evaluated first is not specified.
MakeArgument ==
  /\ ToSet(Components) \subseteq made
  /\ \E part \in ToSet(Arguments) : Make(part)
  /\ UNCHANGED <<listed, documented, published, registered, serving>>

\* add_endpoints, from left to right.
AddEndpoints ==
  /\ ToSet(Arguments) \subseteq made
  /\ listed < Len(Arguments)
  /\ listed' = listed + 1
  /\ documented' = documented \cup ({Arguments[listed + 1]} \cap SwaggerEnabled)
  /\ UNCHANGED <<made, missed, published, registered, serving>>

\* The controller of swagger takes a copy of the endpoints.
MakeSwagger ==
  /\ listed = Len(Arguments)
  /\ Make("swagger")
  /\ published' = documented
  /\ UNCHANGED <<listed, documented, registered, serving>>

OrderStaticFirst == <<"swagger", "static", "prompt">>

\* The order in which add_controllers registers.
Order == <<"swagger", "prompt", "static">>

AddController ==
  /\ "swagger" \in made
  /\ Len(registered) < Len(Order)
  /\ registered' = Append(registered, Order[Len(registered) + 1])
  /\ UNCHANGED <<made, missed, listed, documented, published, serving>>

----------------------------------------------------------------------------
(* Requests.                                                               *)

Move(c, from, to) == stage[c] = from /\ stage' = [stage EXCEPT ![c] = to]

Respond(c, from, status) ==
  /\ Move(c, from, "answered")
  /\ response' = [response EXCEPT ![c] = status]

\* server.run(): a client sends its request.
Receive(c) ==
  /\ Len(registered) = Len(Order)
  /\ Move(c, "idle", "received")
  /\ UNCHANGED <<wiring, request, handler, response>>

\* AllowOptionsGlobal answers OPTIONS, whatever the path.
Intercept(c) ==
  /\ IF request[c].method = "OPTIONS" THEN Respond(c, "received", 204)
     ELSE Move(c, "received", "accepted") /\ UNCHANGED response
  /\ UNCHANGED <<wiring, request, handler>>

ApiPaths == {<<"POST", "/api/prompt">>, <<"GET", "/api/prompt">>,
             <<"GET", "/api/prompt/parameters">>}

SwaggerPaths == {<<"GET", "/api-docs/oas-3.0.0.json">>, <<"GET", "/swagger/ui">>,
                 <<"GET", "/swagger/missing">>}

\* Whether a controller has an endpoint for a request.
Serves(controller, r) ==
  CASE controller = "swagger" -> <<r.method, r.path>> \in SwaggerPaths
    [] controller = "prompt"  -> <<r.method, r.path>> \in ApiPaths
    [] controller = "static"  -> r.method = "GET"

Route(c) ==
  /\ LET first == SelectInSeq(registered, LAMBDA k : Serves(k, request[c]))
     IN  IF first = 0
         THEN Respond(c, "accepted", 404) /\ UNCHANGED handler
         ELSE /\ Move(c, "accepted", "routed")
              /\ handler' = [handler EXCEPT ![c] = registered[first]]
              /\ UNCHANGED response
  /\ UNCHANGED <<wiring, request>>

\* postPromptMessage: the body is mapped to a PromptDto or, as with a field it
\* does not know (allowUnknownFields), that throws; then the service answers
\* or throws.
Post(c) ==
  /\ handler[c] = "prompt"
  /\ request[c].method = "POST"
  /\ IF request[c].body = "dto"
     THEN \E status \in {200, 500} : Respond(c, "routed", status)
     ELSE \E status \in {400, 500} : Respond(c, "routed", status)
  /\ UNCHANGED <<wiring, request, handler>>

\* getStaticResponse and getParameters.
Get(c) ==
  /\ handler[c] = "prompt"
  /\ request[c].method = "GET"
  /\ Respond(c, "routed", 200)
  /\ UNCHANGED <<wiring, request, handler>>

\* StaticController::root: exists() is true of a directory, which open() then
\* refuses.
Serve(c) ==
  /\ handler[c] = "static"
  /\ Respond(c, "routed",
       CASE request[c].path \in {"/", "/index.html"} -> 200
         [] request[c].path = "/assets" -> 500
         [] OTHER -> 404)
  /\ UNCHANGED <<wiring, request, handler>>

\* EmbeddedResources::getResource throws for a file that is not there.
Document(c) ==
  /\ handler[c] = "swagger"
  /\ Respond(c, "routed", IF request[c].path = "/swagger/missing" THEN 500 ELSE 200)
  /\ UNCHANGED <<wiring, request, handler>>

Next ==
  \/ MakeComponent \/ MakeArgument \/ AddEndpoints \/ MakeSwagger \/ AddController
  \/ \E c \in Clients :
       Receive(c) \/ Intercept(c) \/ Route(c) \/ Post(c) \/ Get(c) \/ Serve(c) \/ Document(c)

Spec == Init /\ [][Next]_vars

----------------------------------------------------------------------------
(* Properties.                                                             *)

\* The endpoint for every path, that of the static files ("GET *"), never takes a
\* request from the endpoints of the API and of swagger: which of them answers
\* depends on the order of registration alone.
EndpointsReachable ==
  \A c \in Clients :
    handler[c] = "static" =>
      \A controller \in ToSet(Order) \ {"static"} : ~Serves(controller, request[c])

\* Whatever the making of a component or of a controller looks up in the
\* environment is there by then.  A lookup of a component that is not there
\* throws, and the program ends before it serves anything.
LookupsSucceed == missed = {}

\* From the first request on, the document swagger shows contains the
\* endpoints of every controller derived from SwaggerApiController, although
\* the controller took its copy when it was made.
ApiIsPublished ==
  \A c \in Clients : stage[c] # "idle" => published = SwaggerEnabled

\* The order of AppComponent's members and of what add_controllers does with its
\* arguments, in whatever order these were made, respects what each step needs of
\* those before it: nothing is looked up too early, and no endpoint is added too
\* late to be documented.
ConstructionInOrder == LookupsSucceed /\ ApiIsPublished
=============================================================================
