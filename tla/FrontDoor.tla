----------------------------- MODULE FrontDoor -----------------------------
(***************************************************************************)
(* From a configuration file to the local service: the Edge loads the file *)
(* and binds its sockets (LoadEdge, Start); one HTTP connection that was   *)
(* admitted (see Admission) is peeked at, decrypted or not, and routed     *)
(* (handleHTTPConn, http1Handler); the agent picks the local target and    *)
(* dials it (resolveLocal, ValidateLocal).                                 *)
(*                                                                         *)
(* What a client sends is a sequence of units: TLS records, that carry     *)
(* pieces of a ClientHello; lines of HTTP/1 requests; HTTP/2 frames.       *)
(* Reads return one unit or more.                                          *)
(***************************************************************************)
EXTENDS Config

CONSTANTS
  Files,       \* configuration files of the Edge
  Clients,     \* what a client may do, see MCFrontDoor
  AgentFiles,  \* configurations of the agent
  Taken,       \* ports that another program may use
  MaxPeek      \* maxPeekBytes, in units

\* A piece of a handshake message, its header or an extension; what comes in
\* one read; what a client sends, in the clear or inside TLS.
Piece ==
  [ext : {"hs"}, type : Nat, len : Nat]
    \cup [ext : {"other", "sni", "bad"}, names : Seq([type : Nat, host : HostName])]

Unit ==
  [k : {"rec"}, typ : Nat, frag : Seq(Piece)]
    \cup [k : {"line", "short"}, health : BOOLEAN]
    \cup [k : {"host"}, host : HostName]
    \cup [k : {"word", "end", "pri", "sm"}]
    \cup [k : {"settings", "headers", "continuation"}, last : BOOLEAN, padOK : BOOLEAN,
           fields : Seq([f : STRING, host : HostName])]

ASSUME FilesAssumption == \A f \in Files : IsFile(f)
ASSUME ClientsAssumption ==
  Clients \subseteq [hello : Seq(Unit), offers : SUBSET STRING, http : Seq(Unit)]
ASSUME MaxPeekAssumption == MaxPeek \in Nat

VARIABLES
  file,     \* the configuration file
  conf,     \* the configuration
  edge,     \* text, refused, starting, up, failed
  socks,    \* sockets that are bound
  held,     \* those of them that closeListeners knows
  phase,    \* where handleHTTPConn is
  at,       \* the public address the client came to
  client,   \* what the client does
  in,       \* units it sent that were not read
  raw,      \* units read by the current peek
  prefix,   \* units that are read again (PrefixConn)
  used,     \* units of HTTP/1 that net/http has consumed
  sni,      \* the server name
  cert,     \* the certificate shown: <<>>, or one element
  meta,     \* OpenMeta on its way to the agent: <<>>, or one element
  dial      \* what the agent dialled last: <<>>, or one element

srv == <<file, conf, edge, socks, held>>
link == <<at, client, sni, cert>>
vars == <<file, conf, edge, socks, held, phase, at, client, in, raw, prefix, used, sni,
          cert, meta, dial>>

NoClient == [hello |-> <<>>, offers |-> {}, http |-> <<>>]

Init ==
  /\ file \in Files /\ conf = file
  /\ edge = "text" /\ socks = {} /\ held = {}
  /\ phase = "none" /\ at = NoAddr /\ client = NoClient
  /\ in = <<>> /\ raw = <<>> /\ prefix = <<>> /\ used = 0
  /\ sni = NoHost /\ cert = <<>> /\ meta = <<>> /\ dial = <<>>

-----------------------------------------------------------------------------
\* Loading and starting.

conn == <<phase, at, client, in, raw, prefix, used, sni, cert, meta, dial>>

Load ==
  /\ edge = "text"
  /\ conf' = LoadEdge(conf)
  /\ edge' = IF ValidateEdge(conf') THEN "starting" ELSE "refused"
  /\ UNCHANGED <<file, socks, held>> /\ UNCHANGED conn

\* Sockets in the order in which Start binds them; those of one stage in the
\* order of the file, or in no order at all (the groups of startHTTP).
Stage(kind) == CASE kind = "tunnel" -> 1 [] kind = "tcp" -> 2 [] kind = "http" -> 3
                 [] kind = "udp" -> 4 [] kind = "admin" -> 5

Wanted ==
  {[kind |-> "tunnel", addr |-> conf.listen]}
    \cup {[kind |-> conf.tunnels[i].type, addr |-> conf.tunnels[i].public] :
            i \in DOMAIN conf.tunnels}
    \cup {[kind |-> "admin", addr |-> a] : a \in {conf.admin.listen} \ {NoAddr}}

NextToBind == {s \in Wanted \ socks : \A r \in Wanted \ socks : Stage(s.kind) <= Stage(r.kind)}

\* The system refuses a port that is bound on the same interface or on all.
InUse(s) ==
  \E r \in socks :
    /\ (r.kind = "udp") = (s.kind = "udp")
    /\ r.addr.port = s.addr.port /\ s.addr.port # 0
    /\ r.addr.ip = s.addr.ip \/ "" \in {r.addr.ip, s.addr.ip}

\* A listener of HTTP is entered in Server.public after its certificates
\* were read.
Pending == socks \ held

Bind(s) ==
  /\ edge = "starting" /\ Pending = {}
  /\ s \in NextToBind /\ ~InUse(s)
  /\ socks' = socks \cup {s}
  /\ held' = IF s.kind = "http" THEN held ELSE held \cup {s}
  /\ UNCHANGED <<file, conf, edge>> /\ UNCHANGED conn

\* Mutant: the listeners bound so far stay.
BindFailsOpen(s) ==
  /\ edge = "starting" /\ Pending = {}
  /\ s \in NextToBind /\ (InUse(s) \/ s.addr.port \in Taken \/ s.kind = "tunnel")
  /\ edge' = "failed"
  /\ UNCHANGED <<file, conf, socks, held>> /\ UNCHANGED conn

\* The address is in use, or, before the first socket, the certificate of the
\* Edge cannot be read: closeListeners.
BindFails(s) ==
  /\ edge = "starting" /\ Pending = {}
  /\ s \in NextToBind /\ (InUse(s) \/ s.addr.port \in Taken \/ s.kind = "tunnel")
  /\ socks' = socks \ held
  /\ edge' = "failed"
  /\ UNCHANGED <<file, conf, held>> /\ UNCHANGED conn

Routes(public) == byHost(conf, public)
IsTLS(public) == \A i \in Group(conf, public) : conf.tunnels[i].tls

groupNeedsTerminate(public) ==
  \E k \in DOMAIN Routes(public) : Routes(public)[k].tls /\ ~Routes(public)[k].passthrough

CertsLoaded(s) ==
  /\ edge = "starting" /\ s \in Pending
  /\ held' = held \cup {s}
  /\ UNCHANGED <<file, conf, edge, socks>> /\ UNCHANGED conn

\* Mutant: the new listener is left open.
CertsUnreadableLeak(s) ==
  /\ edge = "starting" /\ s \in Pending
  /\ groupNeedsTerminate(s.addr)
  /\ socks' = socks \ held
  /\ edge' = "failed"
  /\ UNCHANGED <<file, conf, held>> /\ UNCHANGED conn

CertsUnreadable(s) ==
  /\ edge = "starting" /\ s \in Pending
  /\ groupNeedsTerminate(s.addr)
  /\ socks' = (socks \ {s}) \ held
  /\ edge' = "failed"
  /\ UNCHANGED <<file, conf, held>> /\ UNCHANGED conn

Started ==
  /\ edge = "starting" /\ Wanted = held
  /\ edge' = "up"
  /\ UNCHANGED <<file, conf, socks, held>> /\ UNCHANGED conn

-----------------------------------------------------------------------------
\* The connection.

\* A client comes once the Edge is up; before, there is no agent to serve it.
Accept(public, c) ==
  /\ edge = "up" /\ phase = "none"
  /\ public \in Publics(conf)
  /\ at' = public /\ client' = c
  /\ in' = c.hello \o c.http
  /\ phase' = IF IsTLS(public) THEN "hello" ELSE "peek"
  /\ UNCHANGED srv /\ UNCHANGED <<raw, prefix, used, sni, cert, meta, dial>>

Close == phase' = "closed" /\ UNCHANGED <<meta, prefix>>

\* spliceHTTP: the whole connection goes to one tunnel.  first is the name it
\* was chosen by.
Splice(t, first, replayed) ==
  /\ phase' = "splice"
  /\ prefix' = replayed
  /\ meta' = <<[name |-> t.name, local |-> t.local, first |-> first]>>

\* parseHelloSNI: the first name of type 0 in the first server_name extension.
parseHelloSNI(exts) ==
  LET odd == {i \in DOMAIN exts : exts[i].ext \in {"sni", "bad"}}
      x == exts[Min(odd)]
      named == {i \in DOMAIN x.names : x.names[i].type = 0}
  IN  CASE odd = {} -> [end |-> "ok", host |-> NoHost]
        [] odd # {} /\ x.ext = "bad" -> [end |-> "error", host |-> NoHost]
        [] OTHER -> [end |-> "ok", host |-> IF named = {} THEN NoHost
                                            ELSE x.names[Min(named)].host]

\* The first byte of a record, and of a message.
IsHandshake(rec) == rec.k = "rec" /\ rec.typ = 22 /\ rec.frag # <<>>
IsClientHello(header) == header.ext = "hs" /\ header.type = 1

Handshakes(recs) == FlattenSeq([i \in DOMAIN recs |-> recs[i].frag])

\* PeekClientHello, after each record: a handshake message of the length it
\* announces, over as many records as it takes, none of them empty.
HelloVerdict(recs) ==
  LET hs == Handshakes(recs)
      more == [end |-> "more", host |-> NoHost]
      error == [end |-> "error", host |-> NoHost]
  IN  CASE recs = <<>> -> more
        [] Len(recs) > MaxPeek -> error
        [] recs # <<>> /\ Len(recs) <= MaxPeek /\ ~IsHandshake(recs[Len(recs)]) -> error
        [] OTHER -> CASE ~IsClientHello(hs[1]) -> error
                      [] IsClientHello(hs[1]) /\ Len(hs) < 1 + hs[1].len -> more
                      [] OTHER -> parseHelloSNI(SubSeq(hs, 2, 1 + hs[1].len))

ReadRecord ==
  /\ phase = "hello" /\ in # <<>>
  /\ HelloVerdict(raw).end = "more"
  /\ raw' = Append(raw, Head(in))
  /\ in' = Tail(in)
  /\ UNCHANGED srv /\ UNCHANGED link /\ UNCHANGED <<phase, prefix, used, meta, dial>>

\* Mutant: the tunnel gets what follows the ClientHello.
HelloPeekedNoReplay ==
  /\ phase = "hello"
  /\ HelloVerdict(raw).end = "ok"
  /\ sni' = HelloVerdict(raw).host
  /\ raw' = <<>>
  /\ LET found == lookupHTTPTunnel(Routes(at), <<sni'>>) IN
       \/ found = {} /\ Close
       \/ \E t \in found : t.passthrough /\ Splice(t, sni', <<>>)
       \/ \E t \in found : ~t.passthrough /\ phase' = "tls" /\ prefix' = raw /\ UNCHANGED meta
  /\ UNCHANGED srv /\ UNCHANGED <<at, client, in, used, cert, dial>>

\* The hello is replayed to the tunnel, or to the TLS stack.
HelloPeeked ==
  /\ phase = "hello"
  /\ HelloVerdict(raw).end = "ok"
  /\ sni' = HelloVerdict(raw).host
  /\ raw' = <<>>
  /\ LET found == lookupHTTPTunnel(Routes(at), <<sni'>>) IN
       \/ found = {} /\ Close
       \/ \E t \in found : t.passthrough /\ Splice(t, sni', raw)
       \/ \E t \in found : ~t.passthrough /\ phase' = "tls" /\ prefix' = raw /\ UNCHANGED meta
  /\ UNCHANGED srv /\ UNCHANGED <<at, client, in, used, cert, dial>>

\* crypto/tls takes the name of type 0, and refuses a hello with two, or with
\* two server_name extensions.
ServerName(hello) ==
  LET hs == Handshakes(hello)
      exts == SubSeq(hs, 2, 1 + hs[1].len)
      found == {i \in DOMAIN exts : exts[i].ext = "sni"}
      names == exts[Min(found)].names
      named == {j \in DOMAIN names : names[j].type = 0}
  IN  CASE found = {} -> {NoHost}
        [] found # {} /\ (\E i, j \in found : i # j) -> {}
        [] OTHER -> CASE named = {} -> {NoHost}
                      [] named # {} /\ (\E i, j \in named : i # j) -> {}
                      [] OTHER -> {names[Min(named)].host}

NextProtos(t) == IF t.http2 THEN <<"h2", "http/1.1">> ELSE <<"http/1.1">>

\* What crypto/tls negotiates: the first of the server's that the client
\* offers; nothing if it offers nothing; an h2 server takes http/1.1 anyway.
Negotiated(t) ==
  LET both == {i \in DOMAIN NextProtos(t) : NextProtos(t)[i] \in client.offers}
  IN  IF client.offers = {} THEN {""}
      ELSE {NextProtos(t)[i] : i \in {j \in both : j = Min(both)}}

\* tls.Server reads the replayed hello.  h2 is spliced at once.
Handshake ==
  /\ phase = "tls" /\ prefix = client.hello
  /\ \E t \in lookupHTTPTunnel(Routes(at), <<sni>>), name \in ServerName(prefix) :
     \E p \in Negotiated(t) :
       LET s == IF name # NoHost THEN name ELSE sni
           found == lookupHTTPTunnel(Routes(at), <<s>>)
       IN  /\ sni' = s
           /\ cert' = <<GetCertificate(Routes(at), name)>>
           /\ \/ p = "h2" /\ IF found = {} THEN Close
                             ELSE \E u \in found : Splice(u, s, <<>>)
              \/ p # "h2" /\ phase' = "peek" /\ prefix' = <<>> /\ UNCHANGED meta
  /\ UNCHANGED srv /\ UNCHANGED <<at, client, in, raw, used, dial>>

\* The client rejects the certificate or the two cannot agree.
HandshakeFails ==
  /\ phase = "tls"
  /\ Close
  /\ UNCHANGED srv /\ UNCHANGED link /\ UNCHANGED <<in, raw, used, dial>>
-----------------------------------------------------------------------------
\* PeekHTTP.

PrefaceLen == 2
HTTP2ClientPreface == <<[k |-> "pri"], [k |-> "sm"]>>

Authority(fields) ==
  LET a == {i \in DOMAIN fields : fields[i].f = ":authority"}
  IN  IF a = {} THEN NoHost
      ELSE fields[Max(a)].host

\* Mutant: END_HEADERS counts in a HEADERS frame only.
HTTP2VerdictOneFrame(units) ==
  LET ends == {i \in PrefaceLen + 1 .. Len(units) : units[i].k = "headers" /\ units[i].last}
  IN  IF ends = {} THEN [end |-> "more", host |-> NoHost]
      ELSE [end |-> "h2", host |-> Authority(units[Min(ends)].fields)]

\* peekHTTP2: the first header block, a HEADERS frame and the CONTINUATIONs
\* that must follow it up to END_HEADERS.
HTTP2Verdict(units) ==
  LET frames == PrefaceLen + 1 .. Len(units)
      heads == {i \in frames : units[i].k \in {"headers", "continuation"}}
      first == Min(heads)
      odd == {i \in frames : i > first /\ units[i].k # "continuation"}
      ends == {i \in frames : i >= first /\ units[i].k \in {"headers", "continuation"}
                                         /\ units[i].last}
      last == Min(ends)
      fields == FlattenSeq([i \in 1 .. last - first + 1 |-> units[first + i - 1].fields])
      more == [end |-> "more", host |-> NoHost]
      error == [end |-> "error", host |-> NoHost]
  IN  CASE heads = {} -> IF Len(units) > MaxPeek THEN error ELSE more
        [] heads # {} /\ (units[first].k = "continuation" \/ ~units[first].padOK) -> error
        [] OTHER ->
             CASE odd # {} /\ (ends = {} \/ Min(odd) <= last) -> error
               [] ends = {} /\ odd = {} -> IF Len(units) > MaxPeek THEN error ELSE more
               [] OTHER -> IF \E i \in DOMAIN fields : fields[i].f = "bad" THEN error
                           ELSE [end |-> "h2", host |-> Authority(fields)]

Complete(units) == \E i \in DOMAIN units : units[i].k \in {"end", "short"}

\* peekHTTP1: the head of a request up to its empty line; the request line has
\* more than one word.
HTTP1Verdict(units) ==
  LET end == CASE Complete(units) -> IF units[1].k = "word" THEN "error" ELSE "h1"
               [] ~Complete(units) -> IF Len(units) > MaxPeek THEN "error" ELSE "more"
  IN  [end |-> end, host |-> NoHost]

\* PeekHTTP waits for as many bytes as the preface has.
HTTPVerdict(units) ==
  CASE Len(units) < PrefaceLen -> [end |-> "more", host |-> NoHost]
    [] Len(units) >= PrefaceLen /\ SubSeq(units, 1, PrefaceLen) = HTTP2ClientPreface ->
         HTTP2Verdict(units)
    [] OTHER -> HTTP1Verdict(units)

ReadHead(n) ==
  /\ phase = "peek" /\ n \in 1 .. Len(in)
  /\ HTTPVerdict(raw).end = "more"
  /\ raw' = raw \o SubSeq(in, 1, n)
  /\ in' = SubSeq(in, n + 1, Len(in))
  /\ UNCHANGED srv /\ UNCHANGED link /\ UNCHANGED <<phase, prefix, used, meta, dial>>

ServeHTTP1 ==
  /\ phase' = "http1" /\ prefix' = raw /\ raw' = <<>>
  /\ UNCHANGED meta

HeadPeeked ==
  /\ phase = "peek"
  /\ LET v == HTTPVerdict(raw)
         found == lookupHTTPTunnel(Routes(at), <<v.host, sni>>)
     IN  \/ v.end = "h1" /\ ServeHTTP1
         \/ v.end = "h2" /\ found = {} /\ Close /\ raw' = <<>>
         \/ v.end = "h2" /\ raw' = <<>>
              /\ \E t \in found : Splice(t, v.host, raw)
  /\ UNCHANGED srv /\ UNCHANGED link /\ UNCHANGED <<in, used, dial>>

\* A peek finds something else, or is too long.
PeekRefuses ==
  /\ \/ phase = "hello" /\ HelloVerdict(raw).end = "error"
     \/ phase = "peek" /\ HTTPVerdict(raw).end = "error"
  /\ Close
  /\ UNCHANGED srv /\ UNCHANGED link /\ UNCHANGED <<in, raw, used, dial>>

\* A read fails: the client has closed, or the deadline that was set when the
\* connection was accepted passes.  A short request is served even then.
Waits ==
  /\ in = <<>>
  /\ \/ phase = "hello" /\ HelloVerdict(raw).end = "more"
     \/ phase = "peek" /\ HTTPVerdict(raw).end = "more"

ReadFails ==
  /\ Waits
  /\ IF phase = "peek" /\ HTTP1Verdict(raw).end = "h1" THEN ServeHTTP1 ELSE Close /\ UNCHANGED raw
  /\ UNCHANGED srv /\ UNCHANGED link /\ UNCHANGED <<in, used, dial>>

-----------------------------------------------------------------------------
\* http1Handler: each request is routed by itself.

Stream == prefix \o in

\* Up to the end of the first request.
Request ==
  SubSeq(Stream, 1, Min({i \in DOMAIN Stream : Stream[i].k \in {"end", "short"}}))

Hosts(req) == {i \in DOMAIN req : req[i].k = "host"}
RequestHost(req) == IF Hosts(req) = {} THEN NoHost ELSE req[Min(Hosts(req))].host

\* net/http: one Host line in HTTP/1.1; HTTP/1.0 may go without.
WellFormed(req) == req[1].k = "short" \/ (req[1].k = "line" /\ Cardinality(Hosts(req)) = 1)

Consume ==
  /\ used' = used + Len(Request)
  /\ prefix' = <<>>
  /\ in' = SubSeq(Stream, Len(Request) + 1, Len(Stream))

\* Mutant: the tunnel of the server name has precedence.
HandleBySNI ==
  /\ phase = "http1" /\ meta = <<>>
  /\ Complete(Stream)
  /\ WellFormed(Request) /\ ~(conf.health /\ Request[1].health)
  /\ LET host == RequestHost(Request) IN
     \E t \in lookupHTTPTunnel(Routes(at), <<sni, host>>) :
       meta' = <<[name |-> t.name, local |-> t.local, first |-> host]>>
  /\ Consume
  /\ UNCHANGED srv /\ UNCHANGED link /\ UNCHANGED <<phase, raw, dial>>

\* By Host or the catch-all; only if there is neither by the server name.
Handle ==
  /\ phase = "http1" /\ meta = <<>>
  /\ Complete(Stream)
  /\ WellFormed(Request) /\ ~(conf.health /\ Request[1].health)
  /\ LET host == RequestHost(Request)
         byName == lookupHTTPTunnel(Routes(at), <<host>>)
         found == IF byName = {} /\ IsTLS(at) THEN lookupHTTPTunnel(Routes(at), <<sni>>)
                  ELSE byName
     IN  \E t \in found :
           meta' = <<[name |-> t.name, local |-> t.local, first |-> host]>>
  /\ Consume
  /\ UNCHANGED srv /\ UNCHANGED link /\ UNCHANGED <<phase, raw, dial>>

\* The Edge answers by itself: health_path, or no tunnel.
AnswerHere ==
  /\ phase = "http1" /\ meta = <<>>
  /\ Complete(Stream)
  /\ WellFormed(Request)
  /\ \/ conf.health /\ Request[1].health
     \/ lookupHTTPTunnel(Routes(at), <<RequestHost(Request), sni>>) = {}
  /\ Consume
  /\ UNCHANGED srv /\ UNCHANGED link /\ UNCHANGED <<phase, raw, meta, dial>>

\* net/http refuses the request, finds the end, or has waited too long.
HTTP1Ends ==
  /\ phase = "http1" /\ meta = <<>>
  /\ Complete(Stream) => ~WellFormed(Request)
  /\ Close
  /\ UNCHANGED srv /\ UNCHANGED link /\ UNCHANGED <<in, raw, used, dial>>

-----------------------------------------------------------------------------
\* The agent.

\* The target for meta, if the agent serves that tunnel: its own, or else
\* the one the Edge sent.
resolveLocal(a, m) ==
  LET own == {i \in DOMAIN a.tunnels : a.tunnels[i].name = m.name} IN
  IF a.tunnels = <<>> THEN {m.local} \ {NoAddr}
  ELSE {IF a.tunnels[i].local # NoAddr THEN a.tunnels[i].local ELSE m.local :
          i \in {j \in own : j = Min(own)}} \ {NoAddr}

\* An agent runs if its file is accepted, and is connected if it has the
\* address of the tunnel listener and the token.
Agents ==
  {a \in {LoadAgent(f) : f \in AgentFiles} :
     ValidateAgent(a) /\ a.edge.port = conf.listen.port /\ a.token = conf.token}

Private == {"127.0.0.1", "10.0.0.1"}
Literal == Private \cup {"8.8.8.8", "0.0.0.0"}

\* The addresses a name may have: a literal only itself.
Lookups(host) ==
  IF host \in Literal THEN {{host}} ELSE SUBSET {"10.0.0.1", "8.8.8.8"}

checkIP(ip, privateOnly) == ip # "0.0.0.0" /\ (privateOnly => ip \in Private)

\* Mutant: one permitted address is enough.
ValidateLocalAny(local, ips, privateOnly) ==
  local.ip # "" /\ local.port # 0 /\ \E ip \in ips : checkIP(ip, privateOnly)

ValidateLocal(local, ips, privateOnly) ==
  /\ local.ip # "" /\ local.port # 0
  /\ ips # {} /\ \A ip \in ips : checkIP(ip, privateOnly)

Answered ==
  /\ meta' = <<>>
  /\ phase' = IF phase = "splice" THEN "relay" ELSE phase

\* The name is looked up by ValidateLocal and again by the dial.
Dial(a) ==
  /\ meta # <<>>
  /\ \E local \in resolveLocal(a, meta[1]) :
     \E ips, now \in Lookups(local.ip) :
       /\ ValidateLocal(local, ips, a.private)
       /\ \E ip \in now :
            dial' = <<[local |-> local, ip |-> ip, moved |-> ips # now,
                       agent |-> a, meta |-> meta[1]]>>
  /\ Answered
  /\ UNCHANGED srv /\ UNCHANGED link /\ UNCHANGED <<in, raw, prefix, used>>

\* Unknown tunnel, target not permitted, or the dial fails.
Refuse ==
  /\ meta # <<>>
  /\ meta' = <<>> /\ dial' = <<>>
  /\ phase' = IF phase = "splice" THEN "closed" ELSE phase
  /\ UNCHANGED srv /\ UNCHANGED link /\ UNCHANGED <<in, raw, prefix, used>>

-----------------------------------------------------------------------------
Next ==
  \/ Load \/ Started
  \/ \E s \in Wanted : Bind(s) \/ BindFails(s)
  \/ \E s \in socks : CertsLoaded(s) \/ CertsUnreadable(s)
  \/ \E p \in Publics(conf), c \in Clients : Accept(p, c)
  \/ ReadRecord \/ HelloPeeked \/ Handshake \/ HandshakeFails
  \/ \E n \in 1 .. MaxPeek + 2 : ReadHead(n)
  \/ HeadPeeked \/ PeekRefuses \/ ReadFails
  \/ Handle \/ AnswerHere \/ HTTP1Ends
  \/ Refuse \/ \E a \in Agents : Dial(a)

Spec == Init /\ [][Next]_vars

-----------------------------------------------------------------------------
\* Properties.

\* Types, and where a value is there at all.
TypeOK ==
  /\ edge \in {"text", "refused", "starting", "up", "failed"}
  /\ held \cap socks # {} => edge \in {"starting", "up"}
  /\ phase \in {"none", "hello", "tls", "peek", "http1", "splice", "relay", "closed"}
  /\ Len(cert) <= 1 /\ Len(meta) <= 1 /\ Len(dial) <= 1
  /\ meta # <<>> => phase \in {"http1", "splice"}
  /\ prefix # <<>> => phase \in {"tls", "http1", "splice", "relay", "closed"}

\* The tunnels of this listener for a name, however it is spelled.
Named(h) == {i \in Group(conf, at) : h.name # "" /\ conf.tunnels[i].host.name = h.name}
CatchAll == {i \in Group(conf, at) : conf.tunnels[i].host.name = ""}

\* A request goes to the tunnel whose host it names (Host, :authority, or the
\* server name of a connection that is spliced as a whole), and only without
\* one to the catch-all or to the tunnel of the server name.
RoutedAsNamed ==
  meta # <<>> =>
    LET m == meta[1]
        mine == {i \in Group(conf, at) : conf.tunnels[i].name = m.name}
    IN  /\ mine # {}
        /\ mine \subseteq IF Named(m.first) # {} THEN Named(m.first)
                          ELSE CatchAll \cup Named(sni)

\* What the agent dials is its own target for that tunnel or the one the Edge
\* has for it, and a private address if the agent insists on one, unless the
\* name changed its addresses between the check and the dial.
TargetPermitted ==
  dial # <<>> =>
    LET d == dial[1] IN
    /\ \/ d.local = d.meta.local
       \/ \E i \in DOMAIN d.agent.tunnels :
            d.agent.tunnels[i].name = d.meta.name /\ d.agent.tunnels[i].local = d.local
    /\ d.agent.private /\ ~d.moved => d.ip \in Private

\* A request ends up at the service that the two configurations have for the
\* name in it (lookupHTTPTunnel, resolveLocal, ValidateLocal).
RightService == RoutedAsNamed /\ TargetPermitted

\* The certificate shown is the one of the tunnel that the server name stands
\* for, the Edge's if it has none: loadHTTPCerts and the lookup that chose the
\* tunnel agree, catch-all and passthrough tunnels included.
RightCertificate ==
  cert # <<>> =>
    \E i \in IF Named(sni) # {} THEN Named(sni) ELSE CatchAll :
      LET t == conf.tunnels[i] IN
      ~t.passthrough /\ cert[1] = IF OwnCert(t) THEN t.name ELSE NoName

\* Everything the client sent, or what was in it if TLS ended here.
Sent == IF cert # <<>> THEN client.http ELSE client.hello \o client.http

\* Peeking takes nothing away: the tunnel, and net/http, get the bytes of the
\* client from the first one on, in order (WithPrefix).
NothingSwallowed ==
  /\ phase \in {"splice", "relay"} => Stream = Sent
  /\ phase = "http1" => Stream = SubSeq(Sent, used + 1, Len(Sent))

\* What has been read is all a peek needs of a client that speaks HTTP.
HeadSent ==
  \/ /\ phase = "peek" /\ Len(raw) >= PrefaceLen
     /\ raw[1].k = "line" /\ raw[Len(raw)].k = "end"
  \/ /\ phase = "peek" /\ Len(raw) > PrefaceLen
     /\ raw[1].k = "pri" /\ raw[2].k = "sm"
     /\ \E i \in DOMAIN raw : raw[i].k \in {"headers", "continuation"} /\ raw[i].last
  \/ /\ phase = "hello" /\ raw # <<>>
     /\ LET hs == Handshakes(raw) IN hs # <<>> /\ Len(hs) > hs[1].len

\* A client that sent its first request, or its ClientHello, and waits for the
\* answer is not kept until the deadline, however it cut it into records,
\* frames and packets.  (A request shorter than the HTTP/2 preface is.)
NoNeedlessWait == [][ReadFails => ~HeadSent]_vars

\* Two hosts that validation tells apart and routing does not: "[::1]" and
\* "[::1]:80".
Twins(i) ==
  \E j \in Group(conf, conf.tunnels[i].public) \ {i} :
    /\ NormalizeHost(conf.tunnels[j].host) = NormalizeHost(conf.tunnels[i].host)
    /\ normalizeConfigHost(conf.tunnels[j].host) # normalizeConfigHost(conf.tunnels[i].host)

\* The Edge starts as a whole or not at all.  If it is up, a client reaches
\* every HTTP tunnel of the file under each spelling of its host; if Start
\* failed no socket stays bound; and a name that LoadEdge made up is new.
StartWhole ==
  /\ edge = "failed" => socks = {}
  /\ edge = "up" =>
       /\ held = Wanted
       /\ \A i \in Typed(conf, {"http"}), port, upper \in BOOLEAN :
            Twins(i) \/
              LET t == conf.tunnels[i] IN
              lookupHTTPTunnel(Routes(t.public),
                <<[t.host EXCEPT !.port = port, !.upper = upper]>>) = {t}
  /\ edge # "text" =>
       \A j \in DOMAIN conf.tunnels : \A i \in 1 .. j - 1 :
         file.tunnels[j].name = NoName => conf.tunnels[i].name # conf.tunnels[j].name
=============================================================================
