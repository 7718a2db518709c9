-------------------------------- MODULE Smtp --------------------------------
(***************************************************************************)
(* The email target: one SendResult (targets/email/email.go, proxy.go),    *)
(* from the checks of the configuration through an optional CONNECT tunnel *)
(* and the SMTP session to the classified error, while the context may be  *)
(* canceled and the attempt's deadline may pass at any moment.  The server *)
(* and the proxy answer as they like, or not at all.                       *)
(***************************************************************************)
EXTENDS Integers, Sequences, Header

CONSTANTS
    Configs,    \* the configurations of the target
    Codes       \* the codes of replies, of servers and of proxies

\* Three digits is all that net/http asks of a status; a reply has no leading zero.
ASSUME CodesAssumption == Codes \subseteq 0..999

\* Addresses: classes of strings that parseMailbox tells apart.
Addresses == {"mailbox", "newline", "blank", "list"}
Schemes   == {"none", "http", "https", "socks", "socks:port", "broken"}
Config == [mode    : {"", "starttls", "implicit", "plaintext", "bogus"},
           format  : {"", "html", "text", "bogus"},
           creds   : BOOLEAN,
           host    : {"name", "blank"},
           port    : Int,
           from    : Addresses,
           to      : Seq(Addresses), cc : Seq(Addresses), bcc : Seq(Addresses),
           headers : SUBSET Headers,
           render  : {"ok", "fails", "newline"},   \* of the subject and the body
           optIn   : BOOLEAN,                      \* ProxyFromEnvironment
           env     : [http : Schemes, https : Schemes]]
ASSUME ConfigsAssumption == Configs \subseteq Config

VARIABLES
    cfg,        \* the target
    pc,         \* the stage of SendResult
    rcpt,       \* loop variable of smtpSend
    ctxDone,    \* the caller's context has ended
    expired,    \* the deadline of the attempt has passed
    conn,       \* "none", "open" or "closed"
    secure,     \* the bytes to the server are encrypted
    watcher,    \* the goroutine of closeConnOnContextDone
    failure,    \* the error of sendSMTP
    verdict,    \* what SendResult returned
    server      \* what the server has seen and done

ctxVars == <<ctxDone, expired>>
vars == <<cfg, pc, rcpt, ctxVars, conn, secure, watcher, failure, verdict, server>>

Err(kind)  == [kind |-> kind, code |-> 0]
Nil        == Err("nil")
Reply(c)   == [kind |-> "reply", code |-> c]
Proxied(c) == [kind |-> "proxy", code |-> c]
\* "marked" is an error already marked Permanent, "local" any error none of the
\* tests of classifySMTPError recognises.
Errors == {Err(k) : k \in {"nil", "marked", "local", "cert", "net", "timeout", "ctx"}}
            \union {Reply(c) : c \in Codes} \union {Proxied(c) : c \in Codes}

-----------------------------------------------------------------------------
(* Configuration *)

applyDefaults(c) ==
    LET mode == IF c.mode = "" THEN "starttls" ELSE c.mode IN
    [c EXCEPT !.mode = mode,
              !.format = IF @ = "" THEN "html" ELSE @,
              !.port = IF @ # 0 THEN @ ELSE IF mode = "implicit" THEN 465 ELSE 587]

parseMailbox(a) == a = "mailbox"

\* Mutant: those who are not shown are not sent the message either.
envelopeRecipientsShown(c) == c.to \o c.cc

envelopeRecipients(c) == c.to \o c.cc \o c.bcc

validateHeaders(hs) ==
    \A h \in hs : ValidFieldName(h.name) /\ h.name # "reserved" /\ ~ContainsNewline(h.value)

Ports == 1..65535

validateSMTPConfig(c) ==
    /\ c.mode # "bogus" /\ c.format # "bogus"
    /\ ~(c.mode = "plaintext" /\ c.creds)
    /\ c.host # "blank" /\ c.port \in Ports
    /\ envelopeRecipients(c) # << >>
    /\ parseMailbox(c.from)
    /\ \A i \in DOMAIN envelopeRecipients(c) : parseMailbox(envelopeRecipients(c)[i])
    /\ validateHeaders(c.headers)

\* SendResult renders, then validates.
Valid(c) == c.render = "ok" /\ validateSMTPConfig(c)

\* HTTPS_PROXY first for implicit TLS, HTTP_PROXY first otherwise; an error on
\* the way ends the search.
resolveProxy(c) ==
    LET first  == IF c.mode = "implicit" THEN c.env.https ELSE c.env.http
        second == IF c.mode = "implicit" THEN c.env.http ELSE c.env.https
    IN  IF ~c.optIn THEN "none" ELSE IF first # "none" THEN first ELSE second

\* The stage that follows a connection to the server, direct or by tunnel.
Connected(c) == IF c.mode = "implicit" THEN "implicitTLS" ELSE "greeting"

-----------------------------------------------------------------------------
(* Errors *)

\* Mutant: every reply of the server is worth a retry.
classifyRepliesAlike(e) ==
    CASE e.kind = "nil" -> "ok"
      [] e.kind = "marked" -> "permanent"
      [] e.kind = "proxy" ->
           IF e.code \in {408, 429} \/ e.code >= 500 THEN "transport" ELSE "permanent"
      [] e.kind \in {"reply", "net", "timeout", "ctx"} -> "transport"
      [] OTHER -> "permanent"

classifySMTPError(e) ==
    CASE e.kind = "nil" -> "ok"
      [] e.kind = "marked" -> "permanent"
      [] e.kind = "proxy" ->
           IF e.code \in {408, 429} \/ e.code >= 500 THEN "transport" ELSE "permanent"
      [] e.kind = "reply" -> IF e.code \in 400..499 THEN "transport" ELSE "permanent"
      [] e.kind \in {"net", "timeout", "ctx"} -> "transport"
      [] OTHER -> "permanent"

-----------------------------------------------------------------------------
(* The session *)

Init ==
    /\ cfg \in Configs
    /\ pc = "begin" /\ rcpt = 1
    /\ ctxDone \in BOOLEAN /\ expired = FALSE
    /\ conn = "none" /\ secure = FALSE /\ watcher = "none"
    /\ failure = Nil /\ verdict = "none"
    /\ server = [auth |-> "no", mail |-> "no", rcpts |-> 0, sent |-> FALSE, stored |-> FALSE]

\* The context of the caller is canceled ...
CtxEnds ==
    /\ ~ctxDone /\ ctxDone' = TRUE
    /\ UNCHANGED <<cfg, pc, rcpt, expired, conn, secure, watcher, failure, verdict, server>>

\* ... or the deadline passes: that of WithTimeout or an earlier one of the caller.
Expire ==
    /\ pc \notin {"begin", "done"} /\ ~expired /\ expired' = TRUE
    /\ ctxDone' \in {ctxDone, TRUE}
    /\ UNCHANGED <<cfg, pc, rcpt, conn, secure, watcher, failure, verdict, server>>

\* What ctx.Err() may say: the timer of a deadline that has passed may be late.
CtxErr == IF ctxDone THEN {TRUE} ELSE IF expired THEN BOOLEAN ELSE {FALSE}

\* SendResult before sendSMTP.
Begin ==
    /\ pc = "begin"
    /\ cfg' = applyDefaults(cfg)
    /\ IF ctxDone THEN pc' = "done" /\ verdict' = "unclassified"
       ELSE IF ~Valid(cfg') THEN pc' = "done" /\ verdict' = "permanent"
       ELSE pc' = "dial" /\ UNCHANGED verdict
    /\ UNCHANGED <<rcpt, ctxVars, conn, secure, watcher, failure, server>>

\* sendSMTP goes on to a stage; the watcher starts before the greeting is read.
Enter(stage) ==
    /\ pc' = stage
    /\ watcher' = IF stage = "greeting" THEN "waiting" ELSE watcher
    /\ UNCHANGED <<cfg, ctxVars, failure, verdict>>

\* sendSMTP or dialProxy returns an error; dialProxy closes the connection itself, and
\* smtpSend closes the writer after a failed Write, too.
Fail(e) ==
    /\ pc' = (IF pc = "write" THEN "giveUp" ELSE "closing") /\ failure' = e
    /\ conn' = IF pc \in {"proxyTLS", "connect"} THEN "closed" ELSE conn
    /\ UNCHANGED <<cfg, rcpt, ctxVars, secure, watcher, verdict, server>>

Dial ==
    /\ pc = "dial"
    /\ LET proxy == resolveProxy(cfg) IN
       CASE proxy \in {"broken", "socks"} -> Fail(Err("local"))
         [] proxy = "socks:port" -> pc' = "closing" /\ failure' = Err("local") /\ conn' = "closed"
              /\ UNCHANGED <<cfg, rcpt, ctxVars, secure, watcher, verdict, server>>
         [] OTHER ->
              /\ Enter(CASE proxy = "https" -> "proxyTLS"
                         [] proxy = "http" -> "connect"
                         [] OTHER -> Connected(cfg))
              /\ conn' = "open" /\ UNCHANGED <<rcpt, secure, server>>

DialFails == pc = "dial" /\ \E k \in {"net", "timeout"} : Fail(Err(k))

\* DialContext and HandshakeContext heed the context.
CtxInterrupts ==
    /\ pc \in {"dial", "proxyTLS", "implicitTLS"} /\ (ctxDone \/ expired)
    /\ Fail(Err("ctx"))

\* Stages that wait for the peer on an open connection, all under its deadline.
Handshakes == {"proxyTLS", "implicitTLS"}
Commands   == {"greeting", "hello", "starttls", "auth", "mail", "rcpt", "data", "write", "accept"}
Waiting    == Handshakes \union {"connect"} \union Commands

\* An answer that cannot be read, as HTTP, SMTP or TLS, is a local error.
Refusals ==
    {Err("net")}
      \union (IF pc \in Handshakes \union {"starttls"} THEN {Err("cert")} ELSE {})
      \union (IF pc # "write" THEN {Err("local")} ELSE {})
      \union (IF pc \in Commands \ {"write"} THEN {Reply(c) : c \in Codes \ (0..99)}
              ELSE IF pc = "connect" THEN {Proxied(c) : c \in Codes \ (200..299)} ELSE {})

\* Mutant: the error of writer.Close is dropped.
PeerRefusesUnheard ==
    /\ pc \in Waiting /\ conn = "open"
    /\ \E e \in Refusals :
         (server.stored => e.kind \in {"net", "local"}) /\ Fail(IF pc = "accept" THEN Nil ELSE e)

\* The peer refuses, talks nonsense or hangs up.  A server that has the message
\* does not refuse it.
PeerRefuses ==
    /\ pc \in Waiting /\ conn = "open"
    /\ \E e \in Refusals : (server.stored => e.kind \in {"net", "local"}) /\ Fail(e)

\* The deadline of the connection.
TimesOut ==
    /\ pc \in Waiting /\ expired
    /\ Fail(Err("timeout"))

\* The watcher has closed the connection under the session.
FindsClosed ==
    /\ pc \in Commands /\ conn = "closed"
    /\ Fail(Err("net"))

Stage(from, to) == pc = from /\ conn = "open" /\ Enter(to)

ProxySecured   == Stage("proxyTLS", "connect") /\ UNCHANGED <<rcpt, conn, secure, server>>
TunnelOpen     == Stage("connect", Connected(cfg)) /\ UNCHANGED <<rcpt, conn, secure, server>>
ImplicitSecure ==
    /\ Stage("implicitTLS", "greeting")
    /\ secure' = TRUE /\ UNCHANGED <<rcpt, conn, server>>
Greeted        == Stage("greeting", "checkHello") /\ UNCHANGED <<rcpt, conn, secure, server>>

\* The three tests of ctx.Err() between the commands.
Checks  == {"checkHello", "checkAuth", "checkMail"}
Channel == IF secure THEN "secure" ELSE "clear"
CheckCtx ==
    /\ pc \in Checks
    /\ \E ended \in CtxErr :
         IF ended THEN Fail(Err("ctx"))
         ELSE /\ Enter(CASE pc = "checkHello" -> "hello"
                         [] pc = "checkAuth" -> IF cfg.creds THEN "auth" ELSE "checkMail"
                         [] OTHER -> "mail")
              /\ server' = CASE pc' = "auth" -> [server EXCEPT !.auth = Channel]
                             [] pc' = "mail" -> [server EXCEPT !.mail = Channel]
                             [] OTHER -> server
              /\ UNCHANGED <<rcpt, conn, secure>>

\* Mutant: STARTTLS where the server offers it.
HelloOptional ==
    /\ \E offered \in BOOLEAN :
         Stage("hello", IF cfg.mode = "starttls" /\ offered THEN "starttls" ELSE "checkAuth")
    /\ UNCHANGED <<rcpt, conn, secure, server>>

\* EHLO, or HELO, which offers nothing.
Hello ==
    \E offered \in BOOLEAN :
        IF cfg.mode = "starttls" /\ ~offered
        THEN pc = "hello" /\ conn = "open" /\ Fail(Err("marked"))
        ELSE /\ Stage("hello", IF cfg.mode = "starttls" THEN "starttls" ELSE "checkAuth")
             /\ UNCHANGED <<rcpt, conn, secure, server>>

\* The command, the handshake and the second EHLO.
StartTLS ==
    /\ Stage("starttls", "checkAuth")
    /\ secure' = TRUE /\ UNCHANGED <<rcpt, conn, server>>

Auth == Stage("auth", "checkMail") /\ UNCHANGED <<rcpt, conn, secure, server>>

Mail == Stage("mail", "rcpt") /\ UNCHANGED <<rcpt, conn, secure, server>>

\* Mutant: the last recipient is forgotten.
RcptOneShort ==
    /\ IF rcpt + 1 < Len(envelopeRecipients(cfg)) THEN Stage("rcpt", "rcpt") ELSE Stage("rcpt", "data")
    /\ rcpt' = rcpt + 1 /\ server' = [server EXCEPT !.rcpts = @ + 1]
    /\ UNCHANGED <<conn, secure>>

\* The loop over the recipients.
Rcpt ==
    /\ IF rcpt < Len(envelopeRecipients(cfg)) THEN Stage("rcpt", "rcpt") ELSE Stage("rcpt", "data")
    /\ rcpt' = rcpt + 1 /\ server' = [server EXCEPT !.rcpts = @ + 1]
    /\ UNCHANGED <<conn, secure>>

Data == Stage("data", "write") /\ UNCHANGED <<rcpt, conn, secure, server>>

\* The message and its final dot are on their way.
Write ==
    /\ Stage("write", "accept")
    /\ server' = [server EXCEPT !.sent = TRUE] /\ UNCHANGED <<rcpt, conn, secure>>

\* The Close after a failed Write waits for a reply; its result is ignored.
GiveUp ==
    /\ pc = "giveUp" /\ pc' = "closing"
    /\ UNCHANGED <<cfg, rcpt, ctxVars, conn, secure, watcher, failure, verdict, server>>

GivesUpAnswered == conn = "open" /\ GiveUp
GivesUpAlone    == (expired \/ conn = "closed") /\ GiveUp

\* The server takes the message, unless it has refused it; perhaps after the
\* client has given up.
ServerStores ==
    /\ server.sent /\ ~server.stored /\ failure.kind # "reply"
    /\ server' = [server EXCEPT !.stored = TRUE]
    /\ UNCHANGED <<cfg, pc, rcpt, ctxVars, conn, secure, watcher, failure, verdict>>

\* The acknowledgement arrives; smtpSend returns nil.
Acknowledged ==
    /\ server.stored
    /\ Stage("accept", "closing") /\ UNCHANGED <<rcpt, conn, secure, server>>

\* Mutant: the connection is left to the garbage collector.
CloseNothing ==
    /\ pc = "closing" /\ pc' = "settle"
    /\ UNCHANGED <<cfg, rcpt, ctxVars, conn, secure, watcher, failure, verdict, server>>

\* The deferred calls: client.Close, stopContextClose, conn.Close ...
Close ==
    /\ pc = "closing" /\ pc' = "settle"
    /\ conn' = IF conn = "open" THEN "closed" ELSE conn
    /\ UNCHANGED <<cfg, rcpt, ctxVars, secure, watcher, failure, verdict, server>>

\* Mutant: the context's error takes the place of success, too.
SettleAlways ==
    /\ pc = "settle" /\ pc' = "done"
    /\ \E ended \in CtxErr :
         verdict' = classifySMTPError(IF ended THEN Err("ctx") ELSE failure)
    /\ UNCHANGED <<cfg, rcpt, ctxVars, conn, secure, watcher, failure, server>>

\* ... and the one that puts the context's error in the place of any other;
\* SendResult classifies what is left.
Settle ==
    /\ pc = "settle" /\ pc' = "done"
    /\ \E ended \in CtxErr :
         verdict' = classifySMTPError(IF failure # Nil /\ ended THEN Err("ctx") ELSE failure)
    /\ UNCHANGED <<cfg, rcpt, ctxVars, conn, secure, watcher, failure, server>>

\* Mutant: the goroutine goes without having closed the connection.
WatchLetsGo ==
    /\ watcher = "waiting" /\ watcher' = "gone"
    /\ ctxDone \/ expired \/ pc \in {"settle", "done"}
    /\ UNCHANGED <<cfg, pc, rcpt, ctxVars, conn, secure, failure, verdict, server>>

\* closeConnOnContextDone: the goroutine
Watch ==
    /\ watcher = "waiting" /\ watcher' = "gone"
    /\ \/ (ctxDone \/ expired) /\ conn' = "closed"
       \/ pc \in {"settle", "done"} /\ UNCHANGED conn
    /\ UNCHANGED <<cfg, pc, rcpt, ctxVars, secure, failure, verdict, server>>

Peer ==
    \/ Dial \/ DialFails \/ PeerRefuses \/ ProxySecured \/ TunnelOpen \/ ImplicitSecure
    \/ Greeted \/ Hello \/ StartTLS \/ Auth \/ Mail \/ Rcpt \/ Data \/ Write
    \/ GivesUpAnswered \/ ServerStores \/ Acknowledged

\* What happens without the peer.
Program ==
    \/ Begin \/ CtxInterrupts \/ TimesOut \/ FindsClosed \/ CheckCtx
    \/ GivesUpAlone \/ Close \/ Settle

Terminated == pc = "done" /\ watcher # "waiting" /\ UNCHANGED vars

Next == CtxEnds \/ Expire \/ Peer \/ Program \/ Watch \/ Terminated

Spec == Init /\ [][Next]_vars

\* Goroutines run.  Nothing is asked of the peer, ...
SpecRuns == Spec /\ WF_vars(Program) /\ WF_vars(Watch)

\* ... but the deadline of an attempt passes.
DeadlinePasses == WF_vars(Expire)

-----------------------------------------------------------------------------
(***************************************************************************)
(* Properties                                                              *)
(***************************************************************************)
Stages == {"begin", "dial", "giveUp", "closing", "settle", "done"} \union Waiting \union Checks

\* Types; the loop over the recipients does not leave them.
TypeOK ==
    /\ cfg \in Configs \union {applyDefaults(c) : c \in Configs}
    /\ pc \in Stages
    /\ rcpt \in 1..Len(envelopeRecipients(cfg)) + 1
    /\ ctxDone \in BOOLEAN /\ expired \in BOOLEAN
    /\ conn \in {"none", "open", "closed"}
    /\ secure \in BOOLEAN
    /\ watcher \in {"none", "waiting", "gone"}
    /\ failure \in Errors
    /\ verdict \in {"none", "ok", "transport", "permanent", "unclassified"}
    /\ server \in [auth : {"no", "clear", "secure"}, mail : {"no", "clear", "secure"},
                   rcpts : 0..Len(envelopeRecipients(cfg)), sent : BOOLEAN, stored : BOOLEAN]

\* email.go:539-541, 408-414, 431-438.  Credentials for the SMTP server are never sent
\* in clear (those of a proxy URL are another matter: proxy.go:137-142), and without the
\* explicit plaintext mode nothing of a message is, whatever the server offers and
\* whichever way it is reached.
NothingInClear ==
    /\ server.auth # "clear"
    /\ server.mail = "clear" => cfg.mode = "plaintext"

\* email.go:387-393, 664-667.  Success is exactly an acknowledged message: the
\* end of the context cannot undo an acknowledgement that was read.
AckDecides == pc = "done" => (verdict = "ok" <=> failure = Nil /\ server.sent)

\* email.go:646-654, 671-674.  A server never gets a message unless it has accepted every
\* recipient of To, of CC and of BCC, who is in no header.
WholeEnvelope ==
    server.sent => server.rcpts = Len(cfg.to) + Len(cfg.cc) + Len(cfg.bcc)

\* What is worth another attempt: docs/content/email.md:71-77 of replies, certificates
\* and connections; of a proxy's status only email.go:792 says.
Transient(e) ==
    \/ e.kind \in {"net", "timeout", "ctx"}
    \/ e.kind = "reply" /\ e.code \in 400..499
    \/ e.kind = "proxy" /\ (e.code \in {408, 429} \/ e.code >= 500)

\* email.go:311-323, 387-393, 786-817.  A failure is a transport one or a permanent
\* one, and by its cause alone as long as no context has ended; a transient cause is
\* never made permanent, whatever has ended; and an invalid configuration is permanent
\* before anything is dialed.  (PermanentStaysPermanent asks the rest.)
ClassifiedByCause ==
    /\ pc = "done" /\ failure # Nil =>
         /\ verdict \in {"permanent", "transport"}
         /\ Transient(failure) => verdict = "transport"
         /\ ~ctxDone /\ ~expired => (verdict = "transport" <=> Transient(failure))
    /\ pc # "begin" /\ ~Valid(cfg) => conn = "none" /\ verdict \in {"permanent", "unclassified"}

\* docs/content/email.md:74-76: "permanent `5xx` replies and certificate verification
\* failures are not" retryable, nor then when the attempt's own deadline passes after
\* they were read, while the caller goes on.
PermanentStaysPermanent ==
    pc = "done" /\ ~ctxDone
      /\ (failure = Err("cert") \/ (failure.kind = "reply" /\ failure.code \in 500..599))
      => verdict = "permanent"

\* email.go:402, 423; proxy.go:76-105.  However SendResult returns, it leaves no
\* open connection, neither to the proxy nor to the server.
NoConnectionLeft == pc \in {"settle", "done"} => conn # "open"

\* A session keeps the promise of a target.
Attempt == INSTANCE TargetAttempt WITH accepted <- server.stored
ImplementsAttempt == Attempt!Spec

(***************************************************************************)
(* Coming to rest: what is behind SessionEnds below, as safety.            *)
(***************************************************************************)
\* The stages in an order in which no session goes back.
Rank(stage) ==
    CASE stage = "begin" -> 0
      [] stage = "dial" -> 1
      [] stage = "proxyTLS" -> 2
      [] stage = "connect" -> 3
      [] stage = "implicitTLS" -> 4
      [] stage = "greeting" -> 5
      [] stage = "checkHello" -> 6
      [] stage = "hello" -> 7
      [] stage = "starttls" -> 8
      [] stage = "checkAuth" -> 9
      [] stage = "auth" -> 10
      [] stage = "checkMail" -> 11
      [] stage = "mail" -> 12
      [] stage = "rcpt" -> 13
      [] stage = "data" -> 14
      [] stage = "write" -> 15
      [] stage = "giveUp" -> 16
      [] stage = "accept" -> 17
      [] stage = "closing" -> 18
      [] stage = "settle" -> 19
      [] OTHER -> 20

One(b) == IF b THEN 1 ELSE 0

\* The stage, the recipients, and what can happen only once.
Progress ==
    Rank(pc) + rcpt + One(ctxDone) + One(expired) + One(server.stored)
      + One(watcher # "none") + One(watcher = "gone")

MostSteps == 26 + Len(envelopeRecipients(cfg))

\* A step of Program or of Watch is possible: their guards.
Runnable ==
    \/ pc \in {"begin", "closing", "settle"} \union Checks
    \/ pc \in {"dial", "proxyTLS", "implicitTLS"} /\ (ctxDone \/ expired)
    \/ pc \in Waiting /\ expired
    \/ pc \in Commands /\ conn = "closed"
    \/ pc = "giveUp" /\ (expired \/ conn = "closed")
    \/ watcher = "waiting" /\ (ctxDone \/ expired \/ pc \in {"settle", "done"})

\* Where neither the session nor its watcher can run, both are over, or the session waits for
\* the peer under a deadline that has not passed and, once it has a watcher, under a
\* context that has not ended.
RestIsExplained ==
    ~Runnable =>
        \/ pc = "done" /\ watcher # "waiting"
        \/ pc \in {"dial", "giveUp"} \union Waiting /\ ~expired /\ (ctxDone => watcher = "none")

\* email.go:383-386, 403-416, 515-525.  No session goes round in circles: whatever the
\* peer and the context do, it has a bounded number of steps, it stops nowhere else
\* than where it should, and with its connection closed.
SessionComesToRest ==
    [](RestIsExplained /\ NoConnectionLeft) /\ [][Progress < Progress' /\ Progress' <= MostSteps']_vars

\* pc, the context and the watcher never go back, so what these properties say
\* stays true: a state comes from which on it holds.

\* What counts as able to run is what fairness will run.
RunnableIsRun == Runnable <=> ENABLED (Program \/ Watch)

\* email.go:383-386, 403-416, 515-525; proxy.go:85-89.  Silent peers or not, the
\* deadline ends every attempt and its watcher; and once the session has begun, a
\* canceled context ends it without waiting for the deadline.
SessionEnds ==
    /\ []RunnableIsRun
    /\ DeadlinePasses => <>[](pc = "done" /\ watcher # "waiting")
    /\ <>[](ctxDone /\ watcher # "none" => pc = "done")

\* docs/content/custom-targets.md: "Honor `ctx` throughout network operations so
\* cancellation and shutdown can complete", at every stage.
CancellationEnds == <>[](ctxDone => pc = "done")
=============================================================================
