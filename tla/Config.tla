------------------------------- MODULE Config -------------------------------
(***************************************************************************)
(* The configuration of the Edge: what LoadEdge makes of a file, which     *)
(* files it accepts, and how a listener routes by host name.               *)
(*                                                                         *)
(* Texts that the code compares as strings are records here, with one      *)
(* field for each way in which two spellings of the same thing differ:     *)
(*   host     [name, upper, port, br]   "Name:port", "[::1]", ":443"       *)
(*   address  [ip, port, bare]          "ip:port", ":port" or a bare port  *)
(* A tunnel name is a sequence: a given one, or the parts a generated one  *)
(* is made of.                                                             *)
(***************************************************************************)
EXTENDS Integers, Sequences, SequencesExt

NoHost == [name |-> "", upper |-> FALSE, port |-> FALSE, br |-> FALSE]
NoAddr == [ip |-> "", port |-> 0, bare |-> FALSE]
NoName == <<>>

HostName == [name : STRING \cup {""}, upper : BOOLEAN, port : BOOLEAN, br : BOOLEAN]
Address == [ip : STRING, port : Nat, bare : BOOLEAN]
Token == [text : STRING, file : Seq(STRING), beside : Seq(STRING)]

IsTunnel(t) ==
  t \in [name : {t.name}, type : STRING, public : Address, local : Address,
         host : HostName, tls : BOOLEAN, passthrough : BOOLEAN, http2 : BOOLEAN,
         cert : STRING, key : STRING]

IsFile(f) ==
  /\ f \in [listen : Address, token : STRING, secret : Token, env : STRING,
            health : BOOLEAN, tunnels : {f.tunnels},
            admin : [enable : BOOLEAN, listen : Address, token : STRING, secret : Token],
            tls : [cert : STRING, key : STRING, auto : BOOLEAN]]
  /\ f.tunnels \in Seq(Range(f.tunnels))
  /\ \A i \in DOMAIN f.tunnels : IsTunnel(f.tunnels[i])

-----------------------------------------------------------------------------
\* Defaults.

\* A bare port is a port of every interface, or of this host as a target.
ExpandAddr(a, localTarget) ==
  IF ~a.bare THEN a
  ELSE [ip |-> IF localTarget THEN "127.0.0.1" ELSE "", port |-> a.port, bare |-> FALSE]

\* Admin listens on this host unless told otherwise.
ExpandAdminListen(a) ==
  IF a = NoAddr \/ a.ip # "" THEN a ELSE ExpandAddr([a EXCEPT !.bare = TRUE], TRUE)

inferType(t) ==
  CASE t.type # "" -> t.type
    [] t.type = "" /\ (t.host # NoHost \/ t.tls \/ t.passthrough \/ t.http2) -> "http"
    [] OTHER -> "tcp"

\* The port of public, or else of local, and the host without what is neither
\* letter nor digit.
defaultTunnelName(t) ==
  <<t.type,
    IF t.public.port # 0 THEN t.public.port ELSE t.local.port,
    t.host.name,
    t.host.port>>

\* Mutant: a second name is not looked up.
uniqueNameOnce(base, used) == IF base \notin used THEN base ELSE Append(base, 2)

uniqueName(base, used) ==
  IF base \notin used THEN base
  ELSE Append(base, Min({i \in 2 .. Cardinality(used) + 2 : Append(base, i) \notin used}))

Expand(t) ==
  LET e == [t EXCEPT !.public = ExpandAddr(@, FALSE), !.local = ExpandAddr(@, TRUE)]
  IN  [e EXCEPT !.type = inferType(e)]

\* Names are given in order, and a generated name avoids the earlier ones only.
applyCommon(tunnels) ==
  LET named[n \in 0 .. Len(tunnels)] ==
        IF n = 0 THEN <<>>
        ELSE LET t == Expand(tunnels[n])
                 used == {named[n - 1][i].name : i \in 1 .. n - 1}
             IN  Append(named[n - 1],
                        IF t.name # NoName THEN t
                        ELSE [t EXCEPT !.name = uniqueName(defaultTunnelName(t), used)])
  IN  named[Len(tunnels)]

\* A token comes from its file, the named one or the one beside the
\* configuration, or else from the configuration; "" if it cannot be read.
Secret(s, default) ==
  LET file == IF s.text = "" /\ s.file = <<>> THEN s.beside ELSE s.file
  IN  IF file # <<>> THEN file[1] ELSE IF s.text # "" THEN s.text ELSE default

DefaultListen == [ip |-> "", port |-> 8443, bare |-> FALSE]
DefaultAdminListen == [ip |-> "127.0.0.1", port |-> 9090, bare |-> FALSE]

\* A missing certificate is made, a missing admin token is drawn: since there
\* is always the name of a file for it, the environment is never asked.
applyEdgeDefaults(c) ==
  [c EXCEPT
     !.listen = IF @ = NoAddr THEN DefaultListen ELSE ExpandAddr(@, FALSE),
     !.admin = [@ EXCEPT !.listen = IF ~c.admin.enable THEN NoAddr
                                    ELSE IF @ = NoAddr THEN DefaultAdminListen
                                    ELSE ExpandAdminListen(@),
                         !.token = IF c.admin.enable THEN Secret(c.admin.secret, "random")
                                   ELSE ""],
     !.tls = IF c.tls.cert = "" /\ c.tls.key = ""
             THEN [cert |-> "edge", key |-> "edge", auto |-> TRUE] ELSE @]

-----------------------------------------------------------------------------
\* Validation.

\* Only a port takes the brackets off.
normalizeConfigHost(h) ==
  [h EXCEPT !.upper = FALSE, !.port = FALSE, !.br = h.br /\ ~h.port]

Typed(c, types) == {i \in DOMAIN c.tunnels : c.tunnels[i].type \in types}

Validate(c) ==
  /\ c.token # ""
  /\ \A i, j \in DOMAIN c.tunnels : c.tunnels[i].name = c.tunnels[j].name => i = j
  /\ Typed(c, {"http", "tcp", "udp"}) = DOMAIN c.tunnels

ListenHostIsLoopback(a) == a.ip \in {"127.0.0.1", "::1", "localhost"}

\* The example token and a short one are "weak".
validatePublicAdmin(c) ==
  ListenHostIsLoopback(c.admin.listen) \/ c.admin.token \notin {"weak", c.token}

validateListenConflicts(c) ==
  c.listen.port # 0 =>
    /\ c.admin.listen.port # c.listen.port
    /\ \A i \in Typed(c, {"tcp", "http"}) : c.tunnels[i].public.port # c.listen.port

ValidHTTP(c, t) ==
  /\ t.passthrough => t.tls
  /\ t.http2 => t.tls
  /\ t.tls /\ ~t.passthrough =>
       /\ \/ t.cert # "" /\ t.key # ""
          \/ c.tls.cert # "" /\ c.tls.key # ""
          \/ c.tls.auto
       /\ (t.cert = "") = (t.key = "")

\* Mutant: host names are compared as they are written.
SameRouteAsWritten(t, u) == t.public = u.public /\ t.host = u.host

\* The routes of t and u cannot be told apart.
SameRoute(t, u) ==
  t.public = u.public /\ normalizeConfigHost(t.host) = normalizeConfigHost(u.host)

ValidateEdge(c) ==
  /\ Validate(c)
  /\ c.listen # NoAddr
  /\ c.tls.auto \/ (c.tls.cert # "" /\ c.tls.key # "")
  /\ c.admin.listen # NoAddr => c.admin.token # "" /\ validatePublicAdmin(c)
  /\ \A i \in DOMAIN c.tunnels :
       LET t == c.tunnels[i] IN
       /\ t.public # NoAddr /\ t.local # NoAddr
       /\ t.type = "http" => ValidHTTP(c, t)
       /\ \A j \in DOMAIN c.tunnels \ {i} :
            LET u == c.tunnels[j] IN
            /\ t.type = u.type /\ t.type # "http" => t.public # u.public
            /\ t.type = "http" /\ u.type = "tcp" => t.public # u.public
            /\ t.type = "http" /\ u.type = "http" =>
                 /\ t.public = u.public => t.tls = u.tls
                 /\ ~SameRoute(t, u)
  /\ validateListenConflicts(c)

LoadEdge(c) ==
  applyEdgeDefaults([c EXCEPT !.tunnels = applyCommon(@), !.token = Secret(c.secret, c.env)])

\* The agent's address of the Edge: a port of this host, or a host.
ExpandEdgeAddr(a) ==
  IF a = NoAddr THEN a
  ELSE [ip |-> IF a.ip = "" THEN "127.0.0.1" ELSE a.ip,
        port |-> IF a.port = 0 THEN DefaultListen.port ELSE a.port,
        bare |-> FALSE]

LoadAgent(a) ==
  [a EXCEPT !.tunnels = applyCommon(@), !.edge = ExpandEdgeAddr(@),
            !.token = Secret(a.secret, a.env)]

ValidateAgent(a) == Validate(a) /\ a.edge # NoAddr

-----------------------------------------------------------------------------
\* Routing.

\* Without port, brackets and capitals; "" if nothing is left.
NormalizeHost(h) == [h EXCEPT !.upper = FALSE, !.port = FALSE, !.br = FALSE]

Publics(c) == {c.tunnels[i].public : i \in Typed(c, {"http"})}

Group(c, public) == {i \in Typed(c, {"http"}) : c.tunnels[i].public = public}

\* Tunnels by normalized host; of two with the same the later one stays.
byHost(c, public) ==
  LET keys == {NormalizeHost(c.tunnels[i].host) : i \in Group(c, public)} IN
  [k \in keys |->
     LET same == {i \in Group(c, public) : NormalizeHost(c.tunnels[i].host) = k}
     IN  c.tunnels[Max(same)]]

\* The first candidate that names a tunnel, then the catch-all.
\* The result has no element or one.
lookupHTTPTunnel(routes, hosts) ==
  LET keys == [i \in DOMAIN hosts |-> NormalizeHost(hosts[i])]
      hits == {i \in DOMAIN hosts : keys[i] # NoHost /\ keys[i] \in DOMAIN routes}
  IN  IF hits # {} THEN {routes[keys[Min(hits)]]}
      ELSE IF NoHost \in DOMAIN routes THEN {routes[NoHost]} ELSE {}

OwnCert(t) == t.cert # "" /\ t.key # ""

\* Mutant: only tunnels with a certificate of their own get an entry.
hostCertsOwnOnly(routes) ==
  [k \in {k \in DOMAIN routes : k # NoHost /\ ~routes[k].passthrough /\ OwnCert(routes[k])} |->
     routes[k].name]

\* The certificate for each host: of its tunnel, or the Edge's (NoName).
hostCerts(routes) ==
  [k \in {k \in DOMAIN routes : k # NoHost /\ ~routes[k].passthrough} |->
     IF OwnCert(routes[k]) THEN routes[k].name ELSE NoName]

\* The certificate for all other names: of the catch-all, or the Edge's.
fallbackCert(routes) ==
  IF /\ NoHost \in DOMAIN routes
     /\ ~routes[NoHost].passthrough
     /\ OwnCert(routes[NoHost])
  THEN routes[NoHost].name ELSE NoName

GetCertificate(routes, serverName) ==
  LET k == NormalizeHost(serverName)
  IN  IF k \in DOMAIN hostCerts(routes) THEN hostCerts(routes)[k] ELSE fallbackCert(routes)
=============================================================================
