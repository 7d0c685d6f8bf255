---------------------------- MODULE MCHttpServer ----------------------------
(* HttpServer on small instances.  With three connections two are served    *)
(* while the third is being accepted.                                       *)
EXTENDS HttpServer, UrlCodec

\* Whenever the read callback hands a GET request to a handler, the parameters that
\* PreParseGetParam has made of the request are those the client sent, URL-decoded
\* (docs/logicsystem-interfaces.md:50), a malformed escape in one of them changing no other;
\* but a segment without '=' corrupts the key of the next one (httpconnection.cc:190-195).
\* The parameters decide nothing in HttpServer, so its state does not hold them: this is said
\* of every query.
HandlersGetParameters ==
    [][\A c \in Conns :
          conn[c].phase = "readDone" /\ conn'[c].phase = "handling" => ParametersRead]_vars
=============================================================================
