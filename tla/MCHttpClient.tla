---------------------------- MODULE MCHttpClient ----------------------------
(* Small instances of HttpClient. *)
EXTENDS HttpClient

Shape(lines, doc, trail) == [lines |-> lines, doc |-> doc, trail |-> trail]

Ok(code) == <<"status", code>>
Length(n) == <<"length", n>>
Type  == <<"type", 0>>
Closes == <<"close", 0>>

\* A document that does not fit in the buffer together with its headers; no
\* body, and an empty line behind the headers; responses that close the
\* connection, with and without a body; a body delimited by the end of the
\* stream; a malformed header, and a body where there must be none.
MCShapes ==
    {Shape(<<Ok(200), Length(2), Type>>, 2, 0),
     Shape(<<Ok(204)>>, 0, 1),
     Shape(<<Ok(204), Closes>>, 0, 0),
     Shape(<<Ok(200), Length(1), Closes, Type>>, 1, 0),
     Shape(<<Ok(200), Type>>, 1, 0),
     Shape(<<Ok(204), <<"fold", 0>>>>, 0, 0),
     Shape(<<Ok(204)>>, 1, 0)}

\* Well formed responses of a server that keeps the connection.
PlainShapes == {Shape(<<Ok(200), Length(2), Type>>, 2, 0)}
=============================================================================
