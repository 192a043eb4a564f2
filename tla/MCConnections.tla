--------------------------- MODULE MCConnections ---------------------------
(***************************************************************************)
(* Connections for TLC: pairs of clients, and clients alone.               *)
(***************************************************************************)
EXTENDS Connections, TLC

CONSTANTS c1, c2  (* two connections *)

R(kind) == [kind |-> kind, parts |-> 1, frag |-> FALSE]
R2(kind) == [kind |-> kind, parts |-> 2, frag |-> FALSE]
Fragments(kind) == [kind |-> kind, parts |-> 2, frag |-> TRUE]

Client(protocol, polite, requests) ==
  [protocol |-> protocol, polite |-> polite, requests |-> requests]

Registrar == Client("ksxdr", TRUE, <<R("register"), R("unregister")>>)
Reader == Client("ksxdr", TRUE, <<R2("service"), Fragments("service"), R("denied"), R("service")>>)
Hurried == Client("ksxdr", FALSE, <<Fragments("service"), R("service"), R2("service")>>)
Outdated == Client("ksxdr", FALSE, <<R2("denied"), R("service"), R2("service")>>)
Confused == Client("ksxdr", FALSE, <<R("service"), R("invalid"), R2("service")>>)
Browser == Client("kshttp", TRUE, <<R2("get"), R2("post"), R("get")>>)
Poster == Client("kshttp", FALSE, <<R("post"), R("get"), R("close")>>)
Viewer == Client("kshttp", FALSE, <<R("stream"), R("get")>>)
Watcher == Client("kshttp", TRUE, <<R("stream")>>)
Closer == Client("kshttp", TRUE, <<R2("get"), R("close")>>)
Once == Client("ksxdr", TRUE, <<R("service")>>)
Mumbler == Client("kshttp", FALSE, <<R("bad"), R("get")>>)
Stammerer == Client("kshttp", FALSE, <<R2("bad"), R("get"), R("get")>>)
Announcer == Client("ksxdr", TRUE, <<R("register")>>)
Withdrawer == Client("ksxdr", TRUE, <<R("unregister")>>)
Stranger == Client("alien", TRUE, <<R("alien")>>)

Pair(a, b) == (c1 :> a) @@ (c2 :> b)

Alone(c) == Pair(c, Client("none", TRUE, <<>>))

MCCases ==
  {Pair(Registrar, Watcher), Pair(Mumbler, Once), Pair(Announcer, Withdrawer)}
  \cup {Alone(c) : c \in {Registrar, Reader, Hurried, Outdated, Confused, Browser, Poster, Viewer,
                          Closer, Stammerer, Stranger}}
=============================================================================
