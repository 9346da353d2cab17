---------------------------- MODULE MCFrontDoor ----------------------------
(***************************************************************************)
(* Instance of FrontDoor for TLC: files of up to three tunnels, and        *)
(* clients that differ in one thing at a time.                             *)
(***************************************************************************)
EXTENDS FrontDoor

Host(n) == [NoHost EXCEPT !.name = n]
Upper(h) == [h EXCEPT !.upper = TRUE]
Port(h) == [h EXCEPT !.port = TRUE]
Br(h) == [h EXCEPT !.br = TRUE]

Addr(ip, p) == [ip |-> ip, port |-> p, bare |-> FALSE]
Bare(p) == [ip |-> "", port |-> p, bare |-> TRUE]

\* Tunnels.

Plain ==
  [name |-> NoName, type |-> "http", public |-> Bare(80), tls |-> FALSE,
   passthrough |-> FALSE, http2 |-> FALSE, local |-> Bare(3000), host |-> NoHost,
   cert |-> "", key |-> ""]
TLS == [Plain EXCEPT !.type = "", !.public = Addr("", 443), !.tls = TRUE]
For(t, h) == [t EXCEPT !.host = h]
At(t, l) == [t EXCEPT !.local = l]
Own(t) == [t EXCEPT !.cert = "c", !.key = "k"]
Pass(t) == [t EXCEPT !.passthrough = TRUE]
H2(t) == [t EXCEPT !.http2 = TRUE]
Called(t, n) == [t EXCEPT !.name = n]

Single ==
  { Plain,
    [For(Plain, Upper(Host("a"))) EXCEPT !.type = ""],
    For(Plain, Port(Host("a"))),
    At(For(Plain, Br(Host("::1"))), Addr("svc", 80)),
    For(Plain, Port(Br(Host("::1")))),
    [Called(Plain, <<"web">>) EXCEPT !.type = "tcp"],
    [Plain EXCEPT !.type = "udp"],
    [Plain EXCEPT !.type = "tcp", !.public = Addr("127.0.0.1", 80)],
    [Plain EXCEPT !.type = "tcp", !.public = Bare(9090)],
    [Plain EXCEPT !.type = "tcp", !.public = NoAddr],
    [Plain EXCEPT !.type = "ftp"],
    H2(Plain), Pass(Plain),
    [TLS EXCEPT !.public = Addr("", 80)],
    [TLS EXCEPT !.public = Addr("", 8443)],
    [TLS EXCEPT !.cert = "c"] }

Mixed ==
  { Own(TLS), At(For(TLS, Host("a")), Addr("8.8.8.8", 80)),
    Own(H2(For(TLS, Port(Host("b"))))), Pass(For(TLS, Host("c"))), Pass(TLS) }

Lists ==
  {<<t>> : t \in Single \cup Mixed}
    \cup (Single \X Single)
    \cup {q \in Mixed \X Mixed \X Mixed : q[1] # q[2] /\ q[2] # q[3] /\ q[1] # q[3]}
    \cup {<<Called(Plain, <<"http", 80, "a", TRUE>>), t>> : t \in Single}
    \cup {<<t, t, t>> : t \in {[Plain EXCEPT !.type = "udp"], For(TLS, Host("a"))}}

Unset == [text |-> "", file |-> <<>>, beside |-> <<>>]

File ==
  [listen |-> NoAddr, token |-> "", secret |-> [Unset EXCEPT !.text = "t"], env |-> "",
   health |-> TRUE, tunnels |-> <<>>,
   admin |-> [enable |-> TRUE, listen |-> NoAddr, token |-> "", secret |-> Unset],
   tls |-> [cert |-> "", key |-> "", auto |-> FALSE]]

MCFiles ==
  {[File EXCEPT !.tunnels = l] : l \in Lists}
    \cup { [File EXCEPT !.secret.text = ""],
           [File EXCEPT !.secret.file = <<"">>, !.env = "t"],
           [File EXCEPT !.secret.text = "", !.env = "t", !.tunnels = <<Plain>>],
           [File EXCEPT !.secret.text = "", !.secret.beside = <<"u">>, !.env = "t",
                        !.tunnels = <<Plain>>],
           [File EXCEPT !.admin.secret.file = <<"">>],
           [File EXCEPT !.tls.cert = "c"],
           [File EXCEPT !.admin.enable = FALSE, !.tunnels = <<Own(TLS)>>],
           [File EXCEPT !.admin.listen = Bare(8443)],
           [File EXCEPT !.admin.listen = Addr("0.0.0.0", 9443),
                        !.admin.secret.text = "weak"],
           [File EXCEPT !.admin.listen = Addr("0.0.0.0", 9443),
                        !.admin.secret.beside = <<"t">>],
           [File EXCEPT !.admin.listen = Addr("0.0.0.0", 9443)],
           [File EXCEPT !.listen = Bare(443), !.health = FALSE,
                        !.tunnels = <<For(Plain, Host("a"))>>] }

\* Clients.

Other == [ext |-> "other", names |-> <<>>]
SNI(hs) == [ext |-> "sni", names |-> [i \in DOMAIN hs |-> [type |-> 0, host |-> hs[i]]]]
OddSNI(h) == [ext |-> "sni", names |-> <<[type |-> 1, host |-> Host("z")],
                                         [type |-> 0, host |-> h]>>]
Hello(exts) == <<[ext |-> "hs", type |-> 1, len |-> Len(exts)]>> \o exts
Rec(f) == [k |-> "rec", typ |-> 22, frag |-> f]
One(exts) == <<Rec(Hello(exts))>>
Cut(exts, n) == <<Rec(SubSeq(Hello(exts), 1, n)), Rec(SubSeq(Hello(exts), n + 1, Len(exts) + 1))>>

Hellos ==
  { One(<<SNI(<<Upper(Host("a"))>>)>>),
    Cut(<<Other, SNI(<<Host("a")>>)>>, 1),
    Cut(<<Other, OddSNI(Host("b"))>>, 2),
    One(<<SNI(<<Host("b")>>), SNI(<<Host("c")>>)>>),
    One(<<SNI(<<Host("c")>>)>>), One(<<SNI(<<Host("z")>>)>>),
    One(<<Other>>), One(<<[Other EXCEPT !.ext = "bad"]>>),
    <<Rec(<<[ext |-> "hs", type |-> 2, len |-> 0]>>)>>,
    SubSeq(Cut(<<Other, SNI(<<Host("a")>>)>>, 1), 1, 1) }

Req(h, health) == <<[k |-> "line", health |-> health], [k |-> "host", host |-> h], [k |-> "end"]>>
Frame(kind, fields, last) == [k |-> kind, fields |-> fields, last |-> last, padOK |-> TRUE]
Settings == Frame("settings", <<>>, FALSE)
Auth(h) == [f |-> ":authority", host |-> h]
Path == [f |-> ":path", host |-> NoHost]
H2Conn(fs) == HTTP2ClientPreface \o fs

HTTPs ==
  { Req(Port(Host("a")), FALSE) \o Req(Upper(Host("b")), FALSE),
    Req(Host("c"), FALSE), Req(Host("a"), TRUE), Req(Port(Br(Host("::1"))), FALSE),
    Req(Port(NoHost), FALSE),
    <<[k |-> "short", health |-> FALSE]>>,
    <<[k |-> "word"], [k |-> "host", host |-> Host("a")], [k |-> "end"]>>,
    <<[k |-> "line", health |-> FALSE], [k |-> "end"]>>,
    <<[k |-> "line", health |-> FALSE], [k |-> "host", host |-> Host("a")]>>,
    [i \in 1 .. 7 |-> [k |-> "line", health |-> FALSE]],
    H2Conn(<<Settings, Frame("headers", <<Path, Auth(Host("a"))>>, TRUE), Settings>>),
    H2Conn(<<Frame("headers", <<Auth(Host("z"))>>, FALSE),
             Frame("continuation", <<Auth(Port(Host("b")))>>, TRUE)>>),
    H2Conn(<<Frame("headers", <<Auth(Host("c"))>>, TRUE)>>),
    H2Conn(<<Frame("headers", <<>>, FALSE), Settings>>),
    H2Conn(<<Frame("headers", <<>>, FALSE), Frame("headers", <<Auth(Host("a"))>>, TRUE)>>),
    H2Conn(<<Frame("continuation", <<>>, TRUE)>>),
    H2Conn(<<[Frame("headers", <<>>, TRUE) EXCEPT !.padOK = FALSE]>>),
    H2Conn(<<Frame("headers", <<[f |-> "bad", host |-> NoHost]>>, TRUE)>>),
    H2Conn(<<Settings>>), H2Conn(<<Settings, Settings, Settings, Settings, Settings>>) }

Sends(hello, offers, http) == [hello |-> hello, offers |-> offers, http |-> http]

MCClients ==
  LET a == One(<<SNI(<<Host("a")>>)>>)
      b == One(<<SNI(<<Host("b")>>)>>)
      request == Req(Host("a"), FALSE)
  IN  {Sends(<<>>, {}, h) : h \in HTTPs}
        \cup {Sends(a, {}, h) : h \in HTTPs}
        \cup {Sends(h, {"http/1.1"}, request) : h \in Hellos}
        \cup {Sends(b, o, request) : o \in {{"h2"}, {"h2", "http/1.1"}}}
        \cup {Sends(<<[Rec(<<>>) EXCEPT !.typ = 21]>>, {}, <<>>)}

AgentFile ==
  [edge |-> Addr("edge", 0), token |-> "", secret |-> [Unset EXCEPT !.file = <<"t">>],
   env |-> "u", private |-> TRUE, tunnels |-> <<>>]

MCAgentFiles ==
  { AgentFile,
    [AgentFile EXCEPT !.edge = Bare(443)],
    [AgentFile EXCEPT !.secret = Unset],
    [AgentFile EXCEPT !.edge = NoAddr],
    [AgentFile EXCEPT !.private = FALSE,
       !.tunnels = <<At(Plain, Addr("10.0.0.1", 80)),
                     Called(At(Plain, NoAddr), <<"http", 443, "b", TRUE>>)>>],
    [AgentFile EXCEPT !.tunnels = <<Called(Plain, <<"web">>), Called(Plain, <<"web">>)>>] }
=============================================================================
