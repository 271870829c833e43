----------------------------- MODULE TunnelDial -----------------------------
(***************************************************************************)
(* One dial through a proxy with this repository's client and server at    *)
(* the two ends: SOCKS4, SOCKS4A and SOCKS5, the last also over TLS        *)
(* (SOCKSProxy), and HTTP CONNECT (HTTPProxy with Serve's Handler, which   *)
(* has no Auth). The server answers before it dials the target, and the    *)
(* client reads the answer through a buffered reader it then drops: what   *)
(* arrived behind the answer is lost. A packet is one message; the data    *)
(* of a tunnel are numbered.                                               *)
(***************************************************************************)
EXTENDS Naturals, Sequences, SequencesExt

CONSTANTS
    Schemes,    \* a subset of AllSchemes
    Users,      \* {"none", "password"}: what the proxy URL of the client has
    Auths,      \* whether the server has an Auth function
    Targets,    \* "up", "refused" (an OpError), "timeout" or "other"
    MaxData     \* bound: data messages per direction

AllSchemes == {"socks4", "socks4a", "socks5", "socks5+tls", "http"}

VARIABLES
    conf,       \* the settings of this dial
    cpc, spc,   \* client and server
    c2s, s2c,   \* messages under way
    open,       \* the server's end of the connection is open
    dialled,    \* the address the server dialled: "none" yet, "asked" or a wrong one
    csent, tsent,   \* numbers of data messages of the client and of the target
    app, tgot,  \* what the client's application and the target have read
    fault       \* history: the client's dial failed or the connection broke

vars == <<conf, cpc, spc, c2s, s2c, open, dialled, csent, tsent, app, tgot, fault>>
data == <<csent, tsent, app, tgot, fault>>

\* A packet of a handshake and a piece of data, as messages.
Packet(t) == <<t, 0>>
Data(n) == <<"data", n>>

Five(s) == s \in {"socks5", "socks5+tls"}

Init ==
    /\ conf \in [scheme : Schemes, user : Users, auth : Auths, target : Targets]
    /\ conf.scheme # "socks5" => conf.user = "none"
    /\ conf.scheme = "http" => ~conf.auth
    /\ cpc = "start" /\ spc = "accept" /\ c2s = <<>> /\ s2c = <<>> /\ open = TRUE
    /\ dialled = "none" /\ csent = 0 /\ tsent = 0 /\ app = <<>> /\ tgot = <<>> /\ fault = FALSE

-----------------------------------------------------------------------------
(* The client. *)

\* The first packet: a greeting, a TLS hello, or the whole request.
Greeting(s) ==
    CASE s = "socks5" -> "methods" [] s = "socks5+tls" -> "hello" [] OTHER -> "request"

\* Dial up to the first write; the proxy or a lookup may fail before.
ClientStart ==
    /\ cpc = "start"
    /\ \/ cpc' = "failed" /\ fault' = TRUE /\ UNCHANGED c2s
       \/ /\ c2s' = Append(c2s, Packet(Greeting(conf.scheme)))
          /\ cpc' = IF Five(conf.scheme) THEN Greeting(conf.scheme) ELSE "reply"
          /\ UNCHANGED fault
    /\ UNCHANGED <<conf, spc, s2c, open, dialled, csent, tsent, app, tgot>>

\* handshake: the password is sent only when the server chose method 1, which
\* is not the number of a method; with a password any other choice passes.
ClientMethod ==
    /\ cpc = "methods" /\ s2c # <<>>
    /\ s2c' = Tail(s2c)
    /\ IF conf.user = "none" /\ s2c[1] # Packet("method0")
       THEN cpc' = "failed" /\ UNCHANGED c2s
       ELSE cpc' = "reply" /\ c2s' = Append(c2s, Packet("request"))
    /\ UNCHANGED <<conf, spc, open, dialled, data>>

\* handleConnect: the buffered reader is dropped with n messages of the tunnel
\* in it; an HTTP answer other than 200 would be a success as well.
ClientReply ==
    /\ cpc = "reply" /\ s2c # <<>>
    /\ cpc' = IF s2c[1] = Packet("granted") THEN "open" ELSE "failed"
    /\ \E n \in 1 .. Len(s2c) : s2c' = SubSeq(s2c, n + 1, Len(s2c))
    /\ UNCHANGED <<conf, spc, c2s, open, dialled, data>>

\* A read on a connection the server closed.
ClientEof ==
    /\ cpc \in {"methods", "hello", "reply", "open"} /\ s2c = <<>> /\ ~open
    /\ cpc' = IF cpc = "open" THEN "eof" ELSE "failed"
    /\ UNCHANGED <<conf, spc, c2s, s2c, open, dialled, data>>

ClientWrite ==
    /\ cpc = "open" /\ csent < MaxData
    /\ csent' = csent + 1 /\ c2s' = Append(c2s, Data(csent'))
    /\ UNCHANGED <<conf, cpc, spc, s2c, open, dialled, tsent, app, tgot, fault>>

\* Mutant of ClientRead: a buffered reader per read.
ClientReadDropping ==
    /\ cpc = "open" /\ s2c # <<>>
    /\ \E n \in 1 .. Len(s2c) : s2c' = SubSeq(s2c, n + 1, Len(s2c))
    /\ app' = Append(app, s2c[1])
    /\ UNCHANGED <<conf, cpc, spc, c2s, open, dialled, csent, tsent, tgot, fault>>

ClientRead ==
    /\ cpc = "open" /\ s2c # <<>>
    /\ app' = Append(app, s2c[1]) /\ s2c' = Tail(s2c)
    /\ UNCHANGED <<conf, cpc, spc, c2s, open, dialled, csent, tsent, tgot, fault>>

-----------------------------------------------------------------------------
(* The server. *)

\* handleConn looks at the first byte. A byte that is no version, and SOCKS4 on
\* a server with Auth, end the handler; the connection stays open.
Accept ==
    /\ spc = "accept" /\ c2s # <<>>
    /\ spc' = CASE c2s[1] = Packet("hello") -> "gone"
                [] c2s[1] = Packet("methods") -> "methods"
                [] OTHER -> IF conf.auth THEN "gone" ELSE "request"
    /\ UNCHANGED <<conf, cpc, c2s, s2c, open, dialled, data>>

\* Mutant of Methods: no answer to a client without the right method.
MethodsSilent ==
    /\ spc = "methods"
    /\ c2s' = Tail(c2s)
    /\ IF ~conf.auth THEN s2c' = Append(s2c, Packet("method0")) /\ spc' = "request" /\ UNCHANGED open
       ELSE IF conf.user = "password"
            THEN s2c' = Append(s2c, Packet("method2")) /\ spc' = "password" /\ UNCHANGED open
            ELSE spc' = "gone" /\ UNCHANGED <<s2c, open>>
    /\ UNCHANGED <<conf, cpc, dialled, data>>

\* handshake and authBasedPassword up to the answer.
Methods ==
    /\ spc = "methods"
    /\ c2s' = Tail(c2s)
    /\ IF ~conf.auth THEN s2c' = Append(s2c, Packet("method0")) /\ spc' = "request" /\ UNCHANGED open
       ELSE IF conf.user = "password"
            THEN s2c' = Append(s2c, Packet("method2")) /\ spc' = "password" /\ UNCHANGED open
            ELSE s2c' = Append(s2c, Packet("method255")) /\ spc' = "gone" /\ open' = FALSE
    /\ UNCHANGED <<conf, cpc, dialled, data>>

\* authBasedPassword after the answer: the next packet must start with 1. The
\* client's is a request, which starts with 5.
Password ==
    /\ spc = "password" /\ c2s # <<>>
    /\ c2s' = Tail(c2s) /\ open' = FALSE /\ spc' = "gone"
    /\ UNCHANGED <<conf, cpc, s2c, dialled, data>>

\* The request is read and granted. The name of a SOCKS4A request is read with
\* the zero byte that ends it. The request line of an HTTP CONNECT has the host
\* newRequest made the URL of, without the port: net/http puts URL.Host there
\* only when the URL has no path.
Request ==
    /\ spc = "request" /\ c2s # <<>>
    /\ c2s' = Tail(c2s) /\ s2c' = Append(s2c, Packet("granted")) /\ spc' = "dial"
    /\ dialled' = CASE conf.scheme = "socks4a" -> "asked and 0"
                    [] conf.scheme = "http" -> "no port"
                    [] OTHER -> "asked"
    /\ UNCHANGED <<conf, cpc, open, data>>

\* What the dial of the target gives: a name with a zero byte or an address
\* without a port is never reached.
Outcome == IF dialled = "asked" THEN conf.target ELSE "other"

\* Dial. Only SOCKS sends a second answer when it fails: SOCKS4 always, SOCKS5
\* not for an OpError that is no timeout, which is a net.Error as well.
DialTarget ==
    /\ spc = "dial"
    /\ IF Outcome = "up" THEN spc' = "pipe" /\ UNCHANGED <<s2c, open>>
       ELSE /\ spc' = "gone"
            /\ s2c' = IF conf.scheme = "http" \/ (Five(conf.scheme) /\ Outcome = "refused")
                      THEN s2c ELSE Append(s2c, Packet("rejected"))
            /\ open' = ~(Five(conf.scheme) /\ Outcome # "refused")
    /\ UNCHANGED <<conf, cpc, c2s, dialled, data>>

\* io.Copy from the target to the client.
CopyBack ==
    /\ spc = "pipe" /\ tsent < MaxData
    /\ tsent' = tsent + 1 /\ s2c' = Append(s2c, Data(tsent'))
    /\ UNCHANGED <<conf, cpc, spc, c2s, open, dialled, csent, app, tgot, fault>>

\* io.Copy from the client to the target.
CopyForth ==
    /\ spc = "pipe" /\ c2s # <<>>
    /\ tgot' = Append(tgot, c2s[1]) /\ c2s' = Tail(c2s)
    /\ UNCHANGED <<conf, cpc, spc, s2c, open, dialled, csent, tsent, app, fault>>

-----------------------------------------------------------------------------
\* The connection breaks: reads fail on both ends.
Break ==
    /\ open /\ cpc # "start"
    /\ open' = FALSE /\ c2s' = <<>> /\ s2c' = <<>> /\ spc' = "gone" /\ fault' = TRUE
    /\ UNCHANGED <<conf, cpc, dialled, csent, tsent, app, tgot>>

Client == ClientStart \/ ClientMethod \/ ClientReply \/ ClientEof \/ ClientRead
Server == Accept \/ Methods \/ Password \/ Request \/ DialTarget \/ CopyForth

Next == Client \/ Server \/ ClientWrite \/ CopyBack \/ Break

Spec == Init /\ [][Next]_vars

\* Both programs run; a dial of the target ends.
Fairness == WF_vars(Client) /\ WF_vars(Server)

FairSpec == Spec /\ Fairness

-----------------------------------------------------------------------------
Message ==
    {Packet(t) : t \in {"methods", "hello", "request", "method0", "method2", "method255", "granted", "rejected"}}
        \cup {Data(n) : n \in 1 .. MaxData}

\* The two ends of the handshake and what is on its way between them.
TypeOK ==
    /\ cpc \in {"start", "methods", "hello", "reply", "open", "eof", "failed"}
    /\ spc \in {"accept", "methods", "password", "request", "dial", "pipe", "gone"}
    /\ c2s \in Seq(Message) /\ s2c \in Seq(Message) /\ open \in BOOLEAN
    /\ app \in Seq(Message) /\ tgot \in Seq(Message)
    /\ csent \in 0 .. MaxData /\ tsent \in 0 .. MaxData

\* A tunnel to a target that could be reached gives the client's application
\* what the target sent, in order, from some message on: only messages that
\* came with the answer are lost, and no packet of the handshake is among them.
\* (bufio.NewReader in both handleConnect and in the HTTP client's Dial)
ReadsTarget ==
    spc = "pipe" /\ cpc = "open" =>
        \E n \in 0 .. tsent : app \o s2c = [i \in 1 .. tsent - n |-> Data(n + i)]

\* The target gets all that the client sent, in order: the packets of the
\* handshake are used up when the copying starts.
WritesAll ==
    spc = "pipe" => /\ IsPrefix(tgot, [i \in 1 .. csent |-> Data(i)])
                    /\ cpc = "open" => tgot \o c2s = [i \in 1 .. csent |-> Data(i)]

Ended == cpc \in {"open", "eof", "failed"}

\* A handler that returns without an answer and without closing.
Unanswered == conf.scheme = "socks5+tls" \/ (conf.auth /\ ~Five(conf.scheme))

\* A dial fails only when the network did or when the server demands a
\* password; a target that cannot be reached never makes it fail, since the
\* request is granted before the target is dialled.
FailsForAReason == cpc = "failed" => fault \/ conf.auth

\* Every dial ends, with a tunnel or an error, unless the server's handler just
\* returns (SOCKS4 where Auth is set, and TLS), and with an error for a reason.
EveryDialEnds == (~Unanswered ~> Ended) /\ []FailsForAReason

\* The README lists SOCKS5 with TLS: such a dial ends too.
TlsDialEnds == conf.scheme = "socks5+tls" ~> Ended

\* A tunnel carries what either side sent, in order and without packets of the
\* handshake, but for what came with the answer.
TunnelFaithful == ReadsTarget /\ WritesAll
=============================================================================
