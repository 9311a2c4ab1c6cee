------------------------------ MODULE MCServer ------------------------------
\* Module Server for TLC: pipelined requests of every kind, one that is malformed,
\* a GET with a body and a request with the greatest length there is.
EXTENDS Server

Head1(head, length, chunks) == [head |-> head, length |-> length, chunks |-> chunks]
Get == Head1("get", 0, <<>>)

MCScripts ==
  {<<Get, Head1("length", 2, <<>>), Get>>,
   <<Head1("chunked", 0, <<1, 2>>), Get>>,
   <<Head1("get", 1, <<>>), Get>>,
   <<Head1("post", 0, <<>>), Head1("both", 0, <<>>), Get>>,
   <<Head1("length", 15, <<>>), Get>>}
=============================================================================
