---------------------------- MODULE HttpRouting ----------------------------
(***************************************************************************)
(* What HttpApiServer does with one request: handle_request, call_resource *)
(* and the two canned answers of the constructor                           *)
(* (src/http/http_api_server.cpp).  A request is reduced to what the       *)
(* control flow tells apart: whether its target is a well-formed absolute  *)
(* path, what the resource table and its handler do with it, and whether   *)
(* the client asked to keep the connection.                                *)
(***************************************************************************)

Targets == {"absolute", "not_absolute", "unparsable"}

\* "found": a regex and a method match and the handler returns; "throws": the
\* handler throws a std::exception; "none": nothing in m_resource matches.
Resources == {"found", "throws", "none"}

Requests == [target : Targets, resource : Resources, keep_alive : BOOLEAN]

Responses == [status : {"set_by_handler", "not_found", "bad_request"},
              content_length : BOOLEAN, keep_alive : BOOLEAN]

m_default_resource ==
    [status |-> "not_found", content_length |-> TRUE, keep_alive |-> FALSE]

m_bad_resource ==
    [status |-> "bad_request", content_length |-> TRUE, keep_alive |-> FALSE]

\* The answer once call_resource returned true: the handler wrote the body and
\* the status, and the connection is kept exactly when the client asked for it.
FoundResource(req) ==
    [status |-> "set_by_handler", content_length |-> TRUE,
     keep_alive |-> req.keep_alive]

handle_request(req) ==
    IF req.target # "absolute" \/ req.resource = "throws"
    THEN m_bad_resource
    ELSE IF req.resource = "none" THEN m_default_resource ELSE FoundResource(req)

\* boost::beast message::need_eof() of a response.
need_eof(res) == ~res.content_length \/ ~res.keep_alive
=============================================================================
