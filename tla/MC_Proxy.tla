------------------------------ MODULE MC_Proxy ------------------------------
(***************************************************************************)
(* Instance of Proxy for TLC: a read without a body, a form with a file, a *)
(* body longer than the cap without a content type, and an upgrade.        *)
(***************************************************************************)
EXTENDS Proxy

CONSTANTS n1, n2, c1, c2

NoBody == [ctype |-> "unknown", units |-> <<>>]
Form == [ctype |-> "multipart", units |-> <<"f">>]
Blob == [ctype |-> "unknown", units |-> <<"b", "t">>]

MCRequests ==
  {[node |-> n1, method |-> "get", headers |-> {"accept", "connection", "keep-alive", "named"}, body |-> NoBody, answer |-> [status |-> "ok", body |-> Blob]],
   [node |-> n1, method |-> "post", headers |-> {"accept"}, body |-> Form, answer |-> [status |-> "ok", body |-> NoBody]],
   [node |-> n2, method |-> "get", headers |-> {"connection", "upgrade", "named"}, body |-> NoBody, answer |-> [status |-> "switching", body |-> NoBody]]}

\* One node records text and the other everything.
TextAndAll == {[n \in Node |-> IF n = n1 THEN "text" ELSE "all"]}

MCSymmetry == Permutations(Client)

=============================================================================
