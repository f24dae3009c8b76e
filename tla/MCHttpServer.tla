---------------------------- MODULE MCHttpServer ----------------------------
(* An instance of HttpServer for TLC: requests to every kind of endpoint and *)
(* with every kind of body and outcome.                                      *)
EXTENDS HttpServer

GetOf(path) == [method |-> "GET", path |-> path, body |-> "none"]

MCRequests ==
  {GetOf(path) : path \in {"/", "/index.html", "/assets", "/nothing", "/api/prompt",
                          "/api/prompt/parameters", "/swagger/ui", "/swagger/missing",
                          "/api-docs/oas-3.0.0.json"}}
  \cup
  {[method |-> "POST", path |-> path, body |-> body] :
     path \in {"/api/prompt", "/nothing"}, body \in {"dto", "unknown field", "no JSON"}}
  \cup
  {[method |-> "OPTIONS", path |-> "/api/prompt", body |-> "none"]}
=============================================================================
