---------------------------- MODULE EmailProofs ----------------------------
(***************************************************************************)
(* Proofs about Smtp and MailMessage, for every set of configurations, of  *)
(* reply codes and of letters.  The invariant of the session says for each *)
(* stage what has been agreed with the peer when it is reached: the        *)
(* encryption of the channel, the recipients, the connection and the       *)
(* error.  The second part is about the message: what the three passes     *)
(* over a body make of it, place by place, and whom the headers show.      *)
(***************************************************************************)
EXTENDS MailMessage, DataLemmas

N == Len(envelopeRecipients(cfg))

\* Stages after an error or the acknowledgement.
Over == {"giveUp", "closing", "settle", "done"}
\* Stages after the recipients have been announced.
Enveloped == {"data", "write", "accept"}
\* Stages of the session proper, and those in which STARTTLS is behind.
Session == Commands \union Checks
Agreed  == {"checkAuth", "auth", "checkMail", "mail", "rcpt"} \union Enveloped

-----------------------------------------------------------------------------
(* The invariant *)

\* Only a valid, defaulted configuration is dialed.
ConfigInv ==
    /\ pc = "begin" => cfg \in Configs
    /\ pc \notin {"begin", "done"} =>
         /\ Valid(cfg) /\ N >= 1
         /\ cfg.mode \in {"starttls", "implicit", "plaintext"}
         /\ cfg.mode = "plaintext" => cfg.creds = FALSE

\* The loop over the recipients, and what the server has been told.
EnvelopeInv ==
    /\ server.rcpts = rcpt - 1
    /\ pc \notin {"rcpt"} \union Enveloped \union Over => rcpt = 1
    /\ pc = "rcpt" => rcpt <= N
    /\ pc \in Enveloped => rcpt = N + 1
    /\ server.sent = TRUE => rcpt = N + 1 /\ pc \in {"accept"} \union Over
    /\ server.stored = TRUE => server.sent = TRUE

\* The channel is encrypted before anything of the message is sent.
SecureInv ==
    /\ cfg.mode = "implicit" /\ pc \in Session => secure = TRUE
    /\ cfg.mode = "starttls" /\ pc \in Agreed => secure = TRUE
    /\ server.auth # "clear"
    /\ server.mail = "clear" => cfg.mode = "plaintext"

\* The error and the verdict of each stage.
ErrorInv ==
    /\ pc \notin Over => failure = Nil
    /\ pc # "done" => verdict = "none"
    /\ pc \in {"giveUp", "closing", "settle"} /\ failure = Nil => server.sent = TRUE /\ server.stored = TRUE

\* How SendResult has returned: it never started, or the session was settled.
NotStarted ==
    /\ conn = "none" /\ watcher = "none" /\ failure = Nil /\ server.sent = FALSE
    /\ verdict \in {"permanent", "unclassified"}
Settled ==
    /\ Valid(cfg)
    /\ failure = Nil => server.sent = TRUE /\ verdict = "ok"
    /\ failure # Nil => \/ verdict = classifySMTPError(failure)
                        \/ verdict = "transport" /\ (ctxDone = TRUE \/ expired = TRUE)
DoneInv == pc = "done" => NotStarted \/ Settled

ConnInv ==
    /\ pc \in {"begin", "dial"} => conn = "none" /\ watcher = "none"
    /\ pc = "begin" => server.auth = "no" /\ server.mail = "no"
    /\ NoConnectionLeft

IInv == TypeOK /\ ConfigInv /\ EnvelopeInv /\ SecureInv /\ ErrorInv /\ DoneInv /\ ConnInv

-----------------------------------------------------------------------------
(* Facts about the operators *)

LEMMA ErrorFacts ==
    /\ Nil \in Errors
    /\ \A k \in {"marked", "local", "cert", "net", "timeout", "ctx"} :
         Err(k) \in Errors /\ Err(k) # Nil
    /\ \A c \in Codes : /\ Reply(c) \in Errors /\ Reply(c) # Nil
                        /\ Proxied(c) \in Errors /\ Proxied(c) # Nil
BY DEF Errors, Nil, Err, Reply, Proxied

\* No error but nil is a success, and the context's error is worth a retry.
LEMMA ClassifyFacts ==
    /\ classifySMTPError(Nil) = "ok"
    /\ classifySMTPError(Err("ctx")) = "transport"
    /\ \A e \in Errors : e # Nil => classifySMTPError(e) \in {"transport", "permanent"}
<1>1. \A e \in Errors : e.kind = "nil" => e = Nil
  BY DEF Errors, Nil, Err, Reply, Proxied
<1> QED BY <1>1 DEF classifySMTPError, Nil, Err

LEMMA RefusalFacts == Refusals \subseteq Errors \ {Nil}
BY ErrorFacts DEF Refusals

LEMMA ValidFacts ==
    ASSUME NEW c, validateSMTPConfig(c)
    PROVE  /\ c.mode # "bogus" /\ ~(c.mode = "plaintext" /\ c.creds)
           /\ envelopeRecipients(c) # << >>
BY DEF validateSMTPConfig

\* Defaults change neither the recipients nor the credentials.
LEMMA DefaultsFacts ==
    ASSUME NEW c \in Configs
    PROVE  /\ envelopeRecipients(applyDefaults(c)) = envelopeRecipients(c)
           /\ Len(envelopeRecipients(c)) \in Nat
           /\ applyDefaults(c).creds = c.creds /\ c.creds \in BOOLEAN
           /\ Valid(applyDefaults(c)) =>
                /\ Len(envelopeRecipients(c)) >= 1
                /\ applyDefaults(c).mode \in {"starttls", "implicit", "plaintext"}
                /\ applyDefaults(c).mode = "plaintext" => c.creds = FALSE
<1>1. c \in Config BY ConfigsAssumption
<1>2. /\ applyDefaults(c).to = c.to /\ applyDefaults(c).cc = c.cc /\ applyDefaults(c).bcc = c.bcc
      /\ applyDefaults(c).creds = c.creds
      /\ applyDefaults(c).mode = IF c.mode = "" THEN "starttls" ELSE c.mode
  BY <1>1 DEF applyDefaults, Config
<1>3. envelopeRecipients(applyDefaults(c)) = envelopeRecipients(c)
  BY <1>2 DEF envelopeRecipients
<1>4. envelopeRecipients(c) \in Seq(Addresses)
  <2>1. c.to \in Seq(Addresses) /\ c.cc \in Seq(Addresses) /\ c.bcc \in Seq(Addresses)
    BY <1>1, Zenon DEF Config
  <2> HIDE DEF Addresses
  <2> QED BY <2>1 DEF envelopeRecipients
<1>5. c.mode \in {"", "starttls", "implicit", "plaintext", "bogus"} /\ c.creds \in BOOLEAN
  BY <1>1 DEF Config
<1>6. ASSUME Valid(applyDefaults(c))
      PROVE  /\ envelopeRecipients(c) # << >>
             /\ applyDefaults(c).mode # "bogus"
             /\ ~(applyDefaults(c).mode = "plaintext" /\ c.creds)
  <2>1. validateSMTPConfig(applyDefaults(c)) BY <1>6 DEF Valid
  <2>2. /\ applyDefaults(c).mode # "bogus" /\ envelopeRecipients(applyDefaults(c)) # << >>
        /\ ~(applyDefaults(c).mode = "plaintext" /\ applyDefaults(c).creds)
    BY <2>1, ValidFacts
  <2> QED BY <1>2, <1>3, <2>2
<1>7. Len(envelopeRecipients(c)) \in Nat
      /\ (envelopeRecipients(c) # << >> => Len(envelopeRecipients(c)) >= 1)
  <2> HIDE DEF Addresses
  <2> QED BY <1>4
<1>8. applyDefaults(c).mode \in {"starttls", "implicit", "plaintext", "bogus"}
  BY <1>2, <1>5
<1>9. applyDefaults(c).mode = "plaintext" /\ Valid(applyDefaults(c)) => c.creds = FALSE
  BY <1>5, <1>6
<1> QED BY <1>2, <1>3, <1>5, <1>6, <1>7, <1>8, <1>9

\* What is said of the configuration stays true as long as it is the same.
LEMMA SameConfig ==
    ASSUME cfg' = cfg
    PROVE  /\ N' = N
           /\ Len(envelopeRecipients(cfg))' = Len(envelopeRecipients(cfg))
           /\ Valid(cfg)' <=> Valid(cfg)
BY DEF N, envelopeRecipients, Valid, validateSMTPConfig, validateHeaders, parseMailbox

LEMMA InitIInv == Init => IInv
<1> SUFFICES ASSUME Init PROVE IInv OBVIOUS
<1>1. N \in Nat BY DefaultsFacts DEF Init, N
<1>2. TypeOK
  <2>1. rcpt \in 1..Len(envelopeRecipients(cfg)) + 1 BY <1>1 DEF Init, N
  <2>2. server.rcpts \in 0..Len(envelopeRecipients(cfg)) BY <1>1 DEF Init, N
  <2>3. server \in [auth : {"no", "clear", "secure"}, mail : {"no", "clear", "secure"},
                   rcpts : 0..Len(envelopeRecipients(cfg)), sent : BOOLEAN, stored : BOOLEAN]
    BY <2>2 DEF Init
  <2> QED BY <2>1, <2>3, ErrorFacts, Zenon DEF TypeOK, Init, Stages
<1>3. ConfigInv /\ EnvelopeInv
  BY DEF ConfigInv, EnvelopeInv, Init, Over, Enveloped
<1>4. SecureInv /\ ErrorInv /\ DoneInv /\ ConnInv
  BY DEF SecureInv, ErrorInv, DoneInv, ConnInv, NoConnectionLeft, Init, Over, Session, Agreed,
         Commands, Checks, Enveloped
<1> QED BY <1>2, <1>3, <1>4 DEF IInv

-----------------------------------------------------------------------------
(* The steps *)

\* Type facts in the form the steps use.
LEMMA TypeFacts ==
    ASSUME TypeOK
    PROVE  /\ N \in Nat /\ rcpt \in 1..(N + 1) /\ server.rcpts \in 0..N
           /\ server.auth \in {"no", "clear", "secure"} /\ server.mail \in {"no", "clear", "secure"}
           /\ server.sent \in BOOLEAN /\ server.stored \in BOOLEAN
           /\ server = [auth |-> server.auth, mail |-> server.mail, rcpts |-> server.rcpts,
                        sent |-> server.sent, stored |-> server.stored]
<1>1. cfg \in Configs \union {applyDefaults(c) : c \in Configs} BY DEF TypeOK
<1>2. N \in Nat BY <1>1, DefaultsFacts DEF N
<1>3. server \in [auth : {"no", "clear", "secure"}, mail : {"no", "clear", "secure"},
                   rcpts : 0..N, sent : BOOLEAN, stored : BOOLEAN]
  BY Zenon DEF TypeOK, N
<1>4. rcpt \in 1..(N + 1) BY Zenon DEF TypeOK, N
<1> QED BY <1>2, <1>3, <1>4

\* TypeOK after a step that keeps the configuration.
LEMMA TypeKept ==
    ASSUME TypeOK, cfg' = cfg,
           pc' \in Stages, rcpt' \in 1..(N + 1), ctxDone' \in BOOLEAN, expired' \in BOOLEAN,
           conn' \in {"none", "open", "closed"}, secure' \in BOOLEAN,
           watcher' \in {"none", "waiting", "gone"}, failure' \in Errors,
           verdict' \in {"none", "ok", "transport", "permanent", "unclassified"},
           server' \in [auth : {"no", "clear", "secure"}, mail : {"no", "clear", "secure"},
                        rcpts : 0..N, sent : BOOLEAN, stored : BOOLEAN]
    PROVE  TypeOK'
<1>1. Len(envelopeRecipients(cfg))' = N BY SameConfig DEF N
<1> QED BY <1>1, Zenon DEF TypeOK

\* The session, or dialProxy, fails at any stage.
LEMMA FailKeeps ==
    ASSUME IInv, NEW e \in Errors, e # Nil, pc \notin {"begin"} \union Over, Fail(e)
    PROVE  IInv'
<1> USE DEF Fail, Over
<1>1. TypeOK' 
  <2>1. rcpt' \in 1..(N + 1) /\ server' \in [auth : {"no", "clear", "secure"}, mail : {"no", "clear", "secure"},
                   rcpts : 0..N, sent : BOOLEAN, stored : BOOLEAN]
    BY TypeFacts DEF IInv
  <2>2. pc' \in Stages BY DEF Stages
  <2>3. conn' \in {"none", "open", "closed"} BY DEF IInv, TypeOK
  <2> QED BY <2>1, <2>2, <2>3, TypeKept, Zenon DEF IInv, TypeOK, ctxVars
<1>2. ConfigInv' BY SameConfig DEF IInv, ConfigInv
<1>3. EnvelopeInv' BY SameConfig DEF IInv, EnvelopeInv, Enveloped
<1>4. SecureInv' BY DEF IInv, SecureInv, Session, Agreed, Commands, Checks, Enveloped
<1>5. ErrorInv' /\ DoneInv' BY DEF IInv, ErrorInv, DoneInv
<1>6. ConnInv' BY DEF IInv, ConnInv, NoConnectionLeft
<1> QED BY <1>1, <1>2, <1>3, <1>4, <1>5, <1>6 DEF IInv

Servers == [auth : {"no", "clear", "secure"}, mail : {"no", "clear", "secure"},
            rcpts : 0..N, sent : BOOLEAN, stored : BOOLEAN]

\* The session goes on: what is left to show is what the stage is entered with.
LEMMA EnterKeeps ==
    ASSUME IInv, pc \in {"dial"} \union Waiting \union Checks,
           NEW to \in {"closing"} \union Waiting \union Checks, Enter(to),
           conn' \in {"none", "open", "closed"}, secure' \in BOOLEAN, rcpt' \in 1..(N + 1),
           server' \in Servers, EnvelopeInv', SecureInv',
           to = "closing" => server'.sent = TRUE /\ server'.stored = TRUE
    PROVE  IInv'
<1> USE DEF Enter, Waiting, Handshakes, Commands, Checks
<1>1. TypeOK'
  <2>1. watcher' \in {"none", "waiting", "gone"} BY DEF IInv, TypeOK
  <2>2. pc' \in Stages BY DEF Stages
  <2> QED BY <2>1, <2>2, TypeKept, Zenon DEF IInv, TypeOK, ctxVars, Servers
<1>2. ConfigInv' BY SameConfig DEF IInv, ConfigInv
<1>3. ErrorInv' BY DEF IInv, ErrorInv, Over
<1>4. DoneInv' BY DEF DoneInv
<1>5. ConnInv' BY DEF ConnInv, NoConnectionLeft
<1> QED BY <1>1, <1>2, <1>3, <1>4, <1>5 DEF IInv

\* ... if nothing has been told to the server meanwhile.
LEMMA StageKeeps ==
    ASSUME IInv, NEW to \in Waiting \union Checks, pc \in {"dial"} \union Waiting \union Checks, Enter(to),
           conn' \in {"none", "open", "closed"}, secure' \in BOOLEAN,
           UNCHANGED <<rcpt, server>>,
           pc \notin {"rcpt"} \union Enveloped,
           to \notin {"rcpt"} \union Enveloped,
           cfg.mode = "implicit" /\ to \in Session => secure' = TRUE,
           cfg.mode = "starttls" /\ to \in Agreed => secure' = TRUE
    PROVE  IInv'
<1>1. pc' = to /\ cfg' = cfg BY DEF Enter
<1>2. pc \notin Over BY DEF Over, Waiting, Handshakes, Commands, Checks
<1>3. EnvelopeInv'
  BY <1>1, <1>2, SameConfig DEF IInv, EnvelopeInv, Enveloped, Over, Waiting, Handshakes, Commands, Checks
<1>4. SecureInv' BY <1>1 DEF IInv, SecureInv
<1>5. rcpt' \in 1..(N + 1) /\ server' \in Servers BY TypeFacts DEF IInv, Servers
<1>6. to # "closing" BY DEF Waiting, Handshakes, Commands, Checks
<1> QED BY <1>3, <1>4, <1>5, <1>6, EnterKeeps

\* SendResult before sendSMTP.
LEMMA BeginKeeps == IInv /\ Begin => IInv'
<1> SUFFICES ASSUME IInv, Begin PROVE IInv' OBVIOUS
<1> USE DEF Begin, Over
<1>1. cfg \in Configs BY DEF IInv, ConfigInv
<1>2. N' = N /\ Len(envelopeRecipients(cfg))' = N
  BY <1>1, DefaultsFacts DEF N
<1>3. rcpt = 1 /\ server.rcpts = 0 /\ server.sent = FALSE /\ server.stored = FALSE
      /\ server.auth = "no" /\ server.mail = "no"
      /\ failure = Nil /\ verdict = "none" /\ conn = "none" /\ watcher = "none"
  BY TypeFacts DEF IInv, EnvelopeInv, ErrorInv, ConnInv, Enveloped
<1>4. pc' \in {"done", "dial"} /\ UNCHANGED <<rcpt, conn, watcher, failure, server>> OBVIOUS
<1>5. TypeOK'
  <2>1. rcpt' \in 1..(N + 1) /\ server' \in Servers BY TypeFacts DEF IInv, Servers
  <2>2. cfg' \in Configs \union {applyDefaults(c) : c \in Configs} BY <1>1
  <2>3. verdict' \in {"none", "ok", "transport", "permanent", "unclassified"} BY <1>3
  <2>4. pc' \in Stages BY <1>4 DEF Stages
  <2> QED BY <1>2, <2>1, <2>2, <2>3, <2>4, Zenon DEF IInv, TypeOK, ctxVars, Servers
<1>6. ConfigInv'
  <2>1. CASE pc' = "done" BY <2>1 DEF ConfigInv
  <2>2. CASE pc' = "dial"
    <3>1. Valid(cfg)' BY <2>2
    <3>2. cfg' = applyDefaults(cfg) OBVIOUS
    <3>3. Valid(applyDefaults(cfg)) BY <2>2
    <3>4. /\ N >= 1 /\ applyDefaults(cfg).mode \in {"starttls", "implicit", "plaintext"}
          /\ applyDefaults(cfg).mode = "plaintext" => applyDefaults(cfg).creds = FALSE
      BY <1>1, <3>3, DefaultsFacts DEF N
    <3> QED BY <1>2, <2>2, <3>1, <3>2, <3>4 DEF ConfigInv
  <2> QED BY <1>4, <2>1, <2>2
<1>7. EnvelopeInv' BY <1>3, <1>4 DEF EnvelopeInv, Enveloped
<1>8. SecureInv' BY <1>3, <1>4 DEF SecureInv, Session, Agreed, Commands, Checks, Enveloped
<1>9. ErrorInv' BY <1>3, <1>4 DEF ErrorInv
<1>10. DoneInv' BY <1>3, <1>4 DEF DoneInv, NotStarted
<1>11. ConnInv' BY <1>3, <1>4 DEF ConnInv, NoConnectionLeft
<1> QED BY <1>5, <1>6, <1>7, <1>8, <1>9, <1>10, <1>11 DEF IInv

\* Only time passes: the context ends, a deadline passes.
LEMMA ContextKeeps == IInv /\ (CtxEnds \/ Expire) => IInv'
<1> SUFFICES ASSUME IInv, CtxEnds \/ Expire PROVE IInv' OBVIOUS
<1>1. UNCHANGED <<cfg, pc, rcpt, conn, secure, watcher, failure, verdict, server>>
      /\ ctxDone' \in BOOLEAN /\ expired' \in BOOLEAN
      /\ (ctxDone = TRUE \/ expired = TRUE => ctxDone' = TRUE \/ expired' = TRUE)
  BY DEF CtxEnds, Expire, IInv, TypeOK
<1>2. TypeOK'
  <2>1. rcpt' \in 1..(N + 1) /\ server' \in Servers BY <1>1, TypeFacts DEF IInv, Servers
  <2>2. /\ pc' \in Stages /\ conn' \in {"none", "open", "closed"} /\ secure' \in BOOLEAN
        /\ watcher' \in {"none", "waiting", "gone"}
    BY <1>1 DEF IInv, TypeOK
  <2>3. failure' \in Errors /\ verdict' \in {"none", "ok", "transport", "permanent", "unclassified"}
    BY <1>1 DEF IInv, TypeOK
  <2>4. TypeOK /\ cfg' = cfg BY <1>1 DEF IInv
  <2> QED BY <1>1, <2>1, <2>2, <2>3, <2>4, TypeKept DEF Servers
<1>3. ConfigInv' /\ EnvelopeInv' BY <1>1, SameConfig DEF IInv, ConfigInv, EnvelopeInv
<1>4. SecureInv' /\ ErrorInv' BY <1>1 DEF IInv, SecureInv, ErrorInv
<1>5. DoneInv'
  <2>1. classifySMTPError(failure)' = classifySMTPError(failure)
    BY <1>1 DEF classifySMTPError
  <2> QED BY <1>1, <2>1, SameConfig, Zenon DEF IInv, DoneInv, NotStarted, Settled
<1>6. ConnInv' BY <1>1 DEF IInv, ConnInv, NoConnectionLeft
<1> QED BY <1>2, <1>3, <1>4, <1>5, <1>6 DEF IInv

\* The deferred calls.
LEMMA CloseKeeps == IInv /\ (Close \/ GiveUp) => IInv'
<1> SUFFICES ASSUME IInv, Close \/ GiveUp PROVE IInv' OBVIOUS
<1> USE DEF Close, GiveUp, Over
<1>1. TypeOK'
  <2>1. rcpt' \in 1..(N + 1) /\ server' \in Servers BY TypeFacts DEF IInv, Servers
  <2>2. pc' \in Stages BY DEF Stages
  <2>3. conn' \in {"none", "open", "closed"} BY DEF IInv, TypeOK
  <2> QED BY <2>1, <2>2, <2>3, TypeKept, Zenon DEF IInv, TypeOK, ctxVars, Servers
<1>2. ConfigInv' BY SameConfig DEF IInv, ConfigInv
<1>3. EnvelopeInv' BY SameConfig DEF IInv, EnvelopeInv, Enveloped
<1>4. SecureInv' BY DEF IInv, SecureInv, Session, Agreed, Commands, Checks, Enveloped
<1>5. ErrorInv' /\ DoneInv' BY DEF IInv, ErrorInv, DoneInv
<1>6. ConnInv' BY DEF IInv, ConnInv, NoConnectionLeft, TypeOK
<1> QED BY <1>1, <1>2, <1>3, <1>4, <1>5, <1>6 DEF IInv

LEMMA SettleKeeps == IInv /\ Settle => IInv'
<1> SUFFICES ASSUME IInv, Settle PROVE IInv' OBVIOUS
<1> USE DEF Settle, Over
<1>1. PICK ended \in CtxErr :
        verdict' = classifySMTPError(IF failure # Nil /\ ended THEN Err("ctx") ELSE failure)
  OBVIOUS
<1>2. ended = TRUE => ctxDone = TRUE \/ expired = TRUE
  BY DEF CtxErr, IInv, TypeOK
<1>3. ended \in BOOLEAN BY DEF CtxErr
<1>4. failure \in Errors BY DEF IInv, TypeOK
<1>5. \/ verdict' = classifySMTPError(failure)
      \/ failure # Nil /\ verdict' = "transport" /\ (ctxDone = TRUE \/ expired = TRUE)
  BY <1>1, <1>2, <1>3, ClassifyFacts
<1>6. failure = Nil => verdict' = "ok" /\ server.sent = TRUE
  BY <1>5, ClassifyFacts DEF IInv, ErrorInv
<1>7. Valid(cfg) BY DEF IInv, ConfigInv
<1>8. UNCHANGED <<cfg, failure, server, ctxDone, expired, conn, watcher>> /\ pc' = "done"
  BY DEF ctxVars
<1>9. TypeOK'
  <2>1. rcpt' \in 1..(N + 1) /\ server' \in Servers BY TypeFacts DEF IInv, Servers
  <2>2. pc' \in Stages BY DEF Stages
  <2>3. verdict' \in {"none", "ok", "transport", "permanent", "unclassified"}
    BY <1>4, <1>5, ClassifyFacts
  <2> QED BY <2>1, <2>2, <2>3, TypeKept, Zenon DEF IInv, TypeOK, ctxVars, Servers
<1>10. ConfigInv' BY DEF ConfigInv
<1>11. EnvelopeInv' BY SameConfig DEF IInv, EnvelopeInv, Enveloped
<1>12. SecureInv' BY DEF IInv, SecureInv, Session, Agreed, Commands, Checks, Enveloped
<1>13. ErrorInv' BY DEF ErrorInv
<1>14. Settled'
  <2>1. classifySMTPError(failure)' = classifySMTPError(failure) BY <1>8 DEF classifySMTPError
  <2> QED BY <1>5, <1>6, <1>7, <1>8, <2>1, SameConfig, Zenon DEF Settled
<1>15. ConnInv' BY <1>8 DEF IInv, ConnInv, NoConnectionLeft
<1> QED BY <1>9, <1>10, <1>11, <1>12, <1>13, <1>14, <1>15 DEF IInv, DoneInv

\* The other goroutine, and the server when the client has gone on.
LEMMA WatchKeeps == IInv /\ Watch => IInv'
<1> SUFFICES ASSUME IInv, Watch PROVE IInv' OBVIOUS
<1>1. UNCHANGED <<cfg, pc, rcpt, ctxVars, secure, failure, verdict, server>>
      /\ conn' \in {conn, "closed"} /\ watcher = "waiting" /\ watcher' = "gone"
  BY DEF Watch
<1>2. TypeOK'
  <2>1. rcpt' \in 1..(N + 1) /\ server' \in Servers BY <1>1, TypeFacts DEF IInv, Servers
  <2>2. conn' \in {"none", "open", "closed"} BY <1>1 DEF IInv, TypeOK
  <2> QED BY <1>1, <2>1, <2>2, TypeKept, Zenon DEF IInv, TypeOK, ctxVars, Servers
<1>3. ConfigInv' /\ EnvelopeInv' BY <1>1, SameConfig DEF IInv, ConfigInv, EnvelopeInv
<1>4. SecureInv' /\ ErrorInv' BY <1>1 DEF IInv, SecureInv, ErrorInv
<1>5. DoneInv'
  <2>1. classifySMTPError(failure)' = classifySMTPError(failure)
    BY <1>1 DEF classifySMTPError
  <2>2. ~NotStarted BY <1>1 DEF NotStarted
  <2> QED BY <1>1, <2>1, <2>2, SameConfig, Zenon DEF IInv, DoneInv, Settled, ctxVars
<1>6. ConnInv' BY <1>1 DEF IInv, ConnInv, NoConnectionLeft
<1> QED BY <1>2, <1>3, <1>4, <1>5, <1>6 DEF IInv

LEMMA ServerStoresKeeps == IInv /\ ServerStores => IInv'
<1> SUFFICES ASSUME IInv, ServerStores PROVE IInv' OBVIOUS
<1>1. UNCHANGED <<cfg, pc, rcpt, ctxVars, conn, secure, watcher, failure, verdict>>
  BY DEF ServerStores
<1>2. /\ server'.auth = server.auth /\ server'.mail = server.mail
      /\ server'.rcpts = server.rcpts /\ server'.sent = TRUE /\ server.sent = TRUE
      /\ server'.stored = TRUE
      /\ server' \in Servers
  BY TypeFacts DEF ServerStores, IInv, Servers
<1>3. TypeOK'
  <2>1. rcpt' \in 1..(N + 1) BY <1>1, TypeFacts DEF IInv
  <2> QED BY <1>1, <1>2, <2>1, TypeKept, Zenon DEF IInv, TypeOK, ctxVars, Servers
<1>4. ConfigInv' BY <1>1, SameConfig DEF IInv, ConfigInv
<1>5. EnvelopeInv' BY <1>1, <1>2, SameConfig DEF IInv, EnvelopeInv
<1>6. SecureInv' /\ ErrorInv' BY <1>1, <1>2 DEF IInv, SecureInv, ErrorInv
<1>7. DoneInv'
  <2>1. classifySMTPError(failure)' = classifySMTPError(failure)
    BY <1>1 DEF classifySMTPError
  <2>2. ~NotStarted BY <1>2 DEF NotStarted
  <2> QED BY <1>1, <1>2, <2>1, <2>2, SameConfig, Zenon DEF IInv, DoneInv, Settled, ctxVars
<1>8. ConnInv'
  <2>1. server.auth = "no" /\ server.mail = "no" => server'.auth = "no" /\ server'.mail = "no"
    BY <1>2
  <2> QED BY <1>1, <2>1 DEF IInv, ConnInv, NoConnectionLeft
<1> QED BY <1>3, <1>4, <1>5, <1>6, <1>7, <1>8 DEF IInv

\* The connection, direct or to the proxy.
LEMMA DialKeeps == IInv /\ Dial => IInv'
<1> SUFFICES ASSUME IInv, Dial PROVE IInv' OBVIOUS
<1> DEFINE proxy == resolveProxy(cfg)
<1>1. pc = "dial" BY DEF Dial
<1>2. pc \notin {"begin"} \union Over BY <1>1 DEF Over
<1>3. CASE proxy \in {"broken", "socks"}
  <2>1. Fail(Err("local")) BY <1>3 DEF Dial
  <2> QED BY <1>2, <2>1, FailKeeps, ErrorFacts
<1>4. CASE proxy = "socks:port"
  <2>1. /\ pc' = "closing" /\ failure' = Err("local") /\ conn' = "closed"
        /\ UNCHANGED <<cfg, rcpt, ctxVars, secure, watcher, verdict, server>>
    BY <1>4 DEF Dial
  <2> USE DEF Over
  <2>2. TypeOK'
    <3>1. rcpt' \in 1..(N + 1) /\ server' \in Servers BY <2>1, TypeFacts DEF IInv, Servers
    <3>2. pc' \in Stages BY <2>1 DEF Stages
    <3> QED BY <2>1, <3>1, <3>2, TypeKept, ErrorFacts, Zenon DEF IInv, TypeOK, ctxVars, Servers
  <2>3. ConfigInv' BY <1>1, <2>1, SameConfig DEF IInv, ConfigInv
  <2>4. EnvelopeInv' BY <1>1, <2>1, SameConfig DEF IInv, EnvelopeInv, Enveloped
  <2>5. SecureInv' BY <2>1 DEF IInv, SecureInv, Session, Agreed, Commands, Checks, Enveloped
  <2>6. ErrorInv' BY <1>1, <2>1, ErrorFacts DEF IInv, ErrorInv
  <2>7. DoneInv' /\ ConnInv' BY <2>1 DEF DoneInv, ConnInv, NoConnectionLeft
  <2> QED BY <2>2, <2>3, <2>4, <2>5, <2>6, <2>7 DEF IInv
<1>5. CASE proxy \notin {"broken", "socks", "socks:port"}
  <2> DEFINE to == CASE proxy = "https" -> "proxyTLS"
                     [] proxy = "http" -> "connect"
                     [] OTHER -> Connected(cfg)
  <2>1. Enter(to) /\ conn' = "open" /\ UNCHANGED <<rcpt, secure, server>>
    BY <1>5 DEF Dial
  <2>2. /\ to \in {"proxyTLS", "connect", "implicitTLS", "greeting"}
        /\ to = "greeting" => cfg.mode # "implicit"
    BY DEF Connected
  <2>3. to \notin Agreed /\ to \in Waiting /\ to \notin {"rcpt"} \union Enveloped
    BY <2>2 DEF Agreed, Enveloped, Waiting, Handshakes, Commands
  <2>4. to \in Session => cfg.mode # "implicit"
    BY <2>2 DEF Session, Commands, Checks
  <2>5. secure' \in BOOLEAN BY <2>1 DEF IInv, TypeOK
  <2>6. pc \notin {"rcpt"} \union Enveloped BY <1>1 DEF Enveloped
  <2> HIDE DEF to
  <2> QED BY <1>1, <2>1, <2>3, <2>4, <2>5, <2>6, StageKeeps
<1> QED BY <1>3, <1>4, <1>5

\* The stages before the transaction: each is entered with the encryption it needs.
LEMMA SetupKeeps ==
    IInv /\ (ProxySecured \/ TunnelOpen \/ ImplicitSecure \/ Greeted \/ Hello \/ StartTLS \/ Auth)
      => IInv'
<1> SUFFICES ASSUME IInv,
                    ProxySecured \/ TunnelOpen \/ ImplicitSecure \/ Greeted \/ Hello \/ StartTLS \/ Auth
             PROVE  IInv'
  OBVIOUS
<1>1. secure \in BOOLEAN /\ conn \in {"none", "open", "closed"} BY DEF IInv, TypeOK
<1>2. ASSUME NEW to \in {"connect", "implicitTLS", "greeting", "checkHello", "starttls", "checkAuth", "checkMail"},
             NEW from \in {"proxyTLS", "connect", "implicitTLS", "greeting", "hello", "starttls", "auth"},
             Stage(from, to), UNCHANGED <<rcpt, conn, server>>, secure' \in {secure, TRUE},
             cfg.mode = "implicit" /\ to \in Session => secure' = TRUE,
             cfg.mode = "starttls" /\ to \in Agreed => secure' = TRUE
      PROVE  IInv'
  <2>1. pc = from /\ Enter(to) BY <1>2 DEF Stage
  <2>2. to \in Waiting \union Checks /\ pc \in Waiting
    BY <1>2, <2>1 DEF Waiting, Handshakes, Commands, Checks
  <2>3. pc \notin {"rcpt"} \union Enveloped /\ to \notin {"rcpt"} \union Enveloped
    BY <1>2, <2>1 DEF Enveloped
  <2>4. secure' \in BOOLEAN /\ conn' \in {"none", "open", "closed"} BY <1>1, <1>2
  <2> QED BY <1>2, <2>1, <2>2, <2>3, <2>4, StageKeeps
<1>3. SecureInv BY DEF IInv
<1> USE DEF Session, Agreed, Enveloped, Commands, Checks
<1>4. CASE ProxySecured
  <2>1. Stage("proxyTLS", "connect") /\ UNCHANGED <<rcpt, conn, secure, server>>
    BY <1>4 DEF ProxySecured
  <2> QED BY <1>2, <2>1
<1>5. CASE TunnelOpen
  <2>1. Stage("connect", Connected(cfg)) /\ UNCHANGED <<rcpt, conn, secure, server>>
    BY <1>5 DEF TunnelOpen
  <2>2. Connected(cfg) = IF cfg.mode = "implicit" THEN "implicitTLS" ELSE "greeting"
    BY DEF Connected
  <2> QED BY <1>2, <2>1, <2>2
<1>6. CASE ImplicitSecure
  <2>1. Stage("implicitTLS", "greeting") /\ secure' = TRUE /\ UNCHANGED <<rcpt, conn, server>>
    BY <1>6 DEF ImplicitSecure
  <2> QED BY <1>2, <2>1
<1>7. CASE Greeted
  <2>1. Stage("greeting", "checkHello") /\ UNCHANGED <<rcpt, conn, secure, server>>
    BY <1>7 DEF Greeted
  <2>2. cfg.mode = "implicit" => secure = TRUE BY <1>3, <2>1 DEF SecureInv, Stage
  <2> QED BY <1>2, <2>1, <2>2
<1>8. CASE Hello
  <2>1. PICK offered \in BOOLEAN :
          IF cfg.mode = "starttls" /\ ~offered
          THEN pc = "hello" /\ conn = "open" /\ Fail(Err("marked"))
          ELSE /\ Stage("hello", IF cfg.mode = "starttls" THEN "starttls" ELSE "checkAuth")
               /\ UNCHANGED <<rcpt, conn, secure, server>>
    BY <1>8 DEF Hello
  <2>2. CASE cfg.mode = "starttls" /\ ~offered
    <3>1. pc = "hello" /\ Fail(Err("marked")) BY <2>1, <2>2
    <3> QED BY <3>1, FailKeeps, ErrorFacts DEF Over
  <2>3. CASE ~(cfg.mode = "starttls" /\ ~offered)
    <3>1. Stage("hello", IF cfg.mode = "starttls" THEN "starttls" ELSE "checkAuth")
          /\ UNCHANGED <<rcpt, conn, secure, server>>
      BY <2>1, <2>3
    <3>2. cfg.mode = "implicit" => secure = TRUE BY <1>3, <3>1 DEF SecureInv, Stage
    <3>3. CASE cfg.mode = "starttls" BY <1>2, <3>1, <3>2, <3>3
    <3>4. CASE cfg.mode # "starttls" BY <1>2, <3>1, <3>2, <3>4
    <3> QED BY <3>3, <3>4
  <2> QED BY <2>2, <2>3
<1>9. CASE StartTLS
  <2>1. Stage("starttls", "checkAuth") /\ secure' = TRUE /\ UNCHANGED <<rcpt, conn, server>>
    BY <1>9 DEF StartTLS
  <2> QED BY <1>2, <2>1
<1>10. CASE Auth
  <2>1. Stage("auth", "checkMail") /\ UNCHANGED <<rcpt, conn, secure, server>>
    BY <1>10 DEF Auth
  <2>2. /\ cfg.mode = "implicit" => secure = TRUE
        /\ cfg.mode = "starttls" => secure = TRUE
    BY <1>3, <2>1 DEF SecureInv, Stage
  <2> QED BY <1>2, <2>1, <2>2
<1> QED BY <1>4, <1>5, <1>6, <1>7, <1>8, <1>9, <1>10

\* The context is tested, then the next command says something to the server.
LEMMA CheckCtxKeeps == IInv /\ CheckCtx => IInv'
<1> SUFFICES ASSUME IInv, CheckCtx PROVE IInv' OBVIOUS
<1> DEFINE to == CASE pc = "checkHello" -> "hello"
                   [] pc = "checkAuth" -> IF cfg.creds THEN "auth" ELSE "checkMail"
                   [] OTHER -> "mail"
<1>1. pc \in Checks BY DEF CheckCtx, Checks
<1>2. pc \notin {"begin"} \union Over BY <1>1 DEF Checks, Over
<1>3. CASE Fail(Err("ctx")) BY <1>2, <1>3, FailKeeps, ErrorFacts
<1>4. CASE /\ Enter(to)
           /\ server' = CASE pc' = "auth" -> [server EXCEPT !.auth = Channel]
                          [] pc' = "mail" -> [server EXCEPT !.mail = Channel]
                          [] OTHER -> server
           /\ UNCHANGED <<rcpt, conn, secure>>
  <2>1. to \in {"hello", "auth", "checkMail", "mail"} OBVIOUS
  <2>2. pc' = to /\ cfg' = cfg BY <1>4 DEF Enter
  <2>3. Channel \in {"clear", "secure"} /\ (secure = TRUE => Channel = "secure")
    BY DEF Channel
  <2>4. /\ server'.rcpts = server.rcpts /\ server'.sent = server.sent
        /\ server'.stored = server.stored /\ server' \in Servers
        /\ server'.auth \in {server.auth, Channel} /\ server'.mail \in {server.mail, Channel}
        /\ server'.auth # server.auth => to = "auth"
        /\ server'.mail # server.mail => to = "mail"
    BY <1>4, <2>2, <2>3, TypeFacts DEF IInv, Servers
  <2>5. EnvelopeInv'
    BY <1>1, <1>4, <2>1, <2>2, <2>4, SameConfig
       DEF IInv, EnvelopeInv, Enveloped, Over, Checks
  <2>6. /\ cfg.mode \in {"starttls", "implicit", "plaintext"}
        /\ cfg.mode = "plaintext" => cfg.creds = FALSE
    BY <1>2 DEF IInv, ConfigInv, Over
  <2>7. /\ cfg.mode = "implicit" => secure = TRUE
        /\ cfg.mode = "starttls" /\ pc # "checkHello" => secure = TRUE
    BY <1>1 DEF IInv, SecureInv, Session, Agreed, Checks
  <2>8. /\ to = "auth" => cfg.creds = TRUE /\ pc = "checkAuth"
        /\ to = "mail" => pc = "checkMail"
        /\ to = "hello" => pc = "checkHello"
    <3>1. cfg.creds \in BOOLEAN BY DefaultsFacts DEF IInv, TypeOK
    <3> QED BY <1>1, <3>1 DEF Checks
  <2>9. to \in Agreed => pc # "checkHello"
    BY <1>1 DEF Agreed, Enveloped, Checks
  <2>10. /\ to = "auth" => secure = TRUE
         /\ to = "mail" => secure = TRUE \/ cfg.mode = "plaintext"
    BY <2>6, <2>7, <2>8
  <2>11. secure' = secure BY <1>4
  <2> HIDE DEF to
  <2>12. SecureInv'
    <3>1. server.auth # "clear" /\ (server.mail = "clear" => cfg.mode = "plaintext")
      BY DEF IInv, SecureInv
    <3>2. server'.auth # "clear" /\ (server'.mail = "clear" => cfg.mode = "plaintext")
      BY <2>3, <2>4, <2>10, <3>1
    <3>3. /\ cfg.mode = "implicit" => secure' = TRUE
          /\ cfg.mode = "starttls" /\ to \in Agreed => secure' = TRUE
      BY <2>7, <2>9, <2>11
    <3> QED BY <2>2, <3>2, <3>3 DEF SecureInv
  <2>13. conn' \in {"none", "open", "closed"} /\ secure' \in BOOLEAN /\ rcpt' \in 1..(N + 1)
    BY <1>4, TypeFacts DEF IInv, TypeOK
  <2>14. to \in Waiting \union Checks /\ to # "closing"
    BY <2>1 DEF Waiting, Commands, Checks
  <2> QED BY <1>1, <1>4, <2>4, <2>5, <2>12, <2>13, <2>14, EnterKeeps
<1> QED BY <1>3, <1>4 DEF CheckCtx

\* The envelope and the message.
LEMMA TransactionKeeps ==
    IInv /\ (Mail \/ Rcpt \/ Data \/ Write \/ Acknowledged) => IInv'
<1> SUFFICES ASSUME IInv, Mail \/ Rcpt \/ Data \/ Write \/ Acknowledged PROVE IInv' OBVIOUS
<1>1. ASSUME NEW from \in {"mail", "rcpt"} \union Enveloped,
             NEW to \in {"rcpt", "closing"} \union Enveloped,
             Stage(from, to), UNCHANGED <<conn, secure>>,
             rcpt' \in 1..(N + 1), server' \in Servers,
             server'.auth = server.auth, server'.mail = server.mail,
             server'.rcpts = rcpt' - 1, server'.stored = TRUE => server'.sent = TRUE,
             to = "rcpt" => rcpt' <= N, to \in Enveloped => rcpt' = N + 1,
             server'.sent = TRUE => rcpt' = N + 1 /\ to \in {"accept", "closing"},
             to = "closing" => server'.sent = TRUE /\ server'.stored = TRUE
      PROVE  IInv'
  <2>1. pc = from /\ Enter(to) /\ pc' = to /\ cfg' = cfg BY <1>1 DEF Stage, Enter
  <2>2. EnvelopeInv' BY <1>1, <2>1, SameConfig DEF EnvelopeInv, Enveloped, Over
  <2>3. from \in Session /\ from \in Agreed
    BY <1>1 DEF Session, Agreed, Commands, Enveloped
  <2>4. /\ cfg.mode = "implicit" => secure = TRUE
        /\ cfg.mode = "starttls" => secure = TRUE
    BY <2>1, <2>3 DEF IInv, SecureInv
  <2>5. SecureInv' BY <1>1, <2>1, <2>4 DEF IInv, SecureInv
  <2>6. conn' \in {"none", "open", "closed"} /\ secure' \in BOOLEAN BY <1>1 DEF IInv, TypeOK
  <2>7. pc \in Waiting /\ to \in {"closing"} \union Waiting
    BY <1>1, <2>1 DEF Waiting, Commands, Enveloped
  <2> QED BY <1>1, <2>1, <2>2, <2>5, <2>6, <2>7, EnterKeeps
<1>2. EnvelopeInv /\ N \in Nat /\ rcpt \in 1..(N + 1) /\ server.rcpts \in 0..N
  BY TypeFacts DEF IInv
<1>3. pc \notin {"begin", "done"} => N >= 1 BY DEF IInv, ConfigInv
<1>4. server \in Servers BY TypeFacts DEF IInv, Servers
<1> USE DEF Enveloped
<1>5. CASE Mail
  <2>1. Stage("mail", "rcpt") /\ pc = "mail" /\ UNCHANGED <<rcpt, conn, secure, server>>
    BY <1>5 DEF Mail, Stage
  <2>2. rcpt = 1 /\ server.sent # TRUE BY <1>2, <2>1 DEF EnvelopeInv, Over
  <2> QED BY <1>1, <1>2, <1>3, <1>4, <2>1, <2>2 DEF EnvelopeInv
<1>6. CASE Rcpt
  <2>1. /\ IF rcpt < N THEN Stage("rcpt", "rcpt") ELSE Stage("rcpt", "data")
        /\ rcpt' = rcpt + 1 /\ server' = [server EXCEPT !.rcpts = @ + 1]
        /\ UNCHANGED <<conn, secure>>
    BY <1>6 DEF Rcpt, N
  <2>2. pc = "rcpt" BY <2>1 DEF Stage
  <2>3. rcpt <= N /\ server.sent # TRUE /\ server.rcpts = rcpt - 1
        /\ (server.stored = TRUE => server.sent = TRUE)
    BY <1>2, <2>2 DEF EnvelopeInv, Over
  <2>4. /\ server' \in Servers /\ server'.auth = server.auth /\ server'.mail = server.mail
        /\ server'.rcpts = server.rcpts + 1
        /\ server'.sent = server.sent /\ server'.stored = server.stored
    BY <1>2, <1>4, <2>1, <2>3 DEF Servers
  <2>5. rcpt' \in 1..(N + 1) BY <1>2, <2>1, <2>3
  <2>6. server'.rcpts = rcpt' - 1 BY <1>2, <2>1, <2>3, <2>4
  <2>7. CASE rcpt < N
    <3>1. Stage("rcpt", "rcpt") /\ rcpt' <= N BY <1>2, <2>1, <2>7
    <3> QED BY <1>1, <2>1, <2>3, <2>4, <2>5, <2>6, <3>1
  <2>8. CASE ~(rcpt < N)
    <3>1. rcpt' = N + 1 BY <1>2, <2>1, <2>3, <2>8
    <3> QED BY <1>1, <2>1, <2>3, <2>4, <2>5, <2>6, <2>8, <3>1
  <2> QED BY <2>7, <2>8
<1>7. CASE Data
  <2>1. Stage("data", "write") /\ pc = "data" /\ UNCHANGED <<rcpt, conn, secure, server>>
    BY <1>7 DEF Data, Stage
  <2>2. rcpt = N + 1 /\ server.sent # TRUE BY <1>2, <2>1 DEF EnvelopeInv, Over
  <2> QED BY <1>1, <1>2, <1>4, <2>1, <2>2 DEF EnvelopeInv
<1>8. CASE Write
  <2>1. /\ Stage("write", "accept") /\ pc = "write" /\ UNCHANGED <<rcpt, conn, secure>>
        /\ server' = [server EXCEPT !.sent = TRUE]
    BY <1>8 DEF Write, Stage
  <2>2. rcpt = N + 1 /\ server.rcpts = rcpt - 1 BY <1>2, <2>1 DEF EnvelopeInv
  <2>3. /\ server' \in Servers /\ server'.auth = server.auth /\ server'.mail = server.mail
        /\ server'.rcpts = server.rcpts /\ server'.sent = TRUE
    BY <1>4, <2>1 DEF Servers
  <2> QED BY <1>1, <1>2, <2>1, <2>2, <2>3
<1>9. CASE Acknowledged
  <2>1. /\ Stage("accept", "closing") /\ pc = "accept" /\ server.stored
        /\ UNCHANGED <<rcpt, conn, secure, server>>
    BY <1>9 DEF Acknowledged, Stage
  <2>2. server.stored = TRUE BY <1>4, <2>1 DEF Servers
  <2>3. rcpt = N + 1 /\ server.sent = TRUE BY <1>2, <2>1, <2>2 DEF EnvelopeInv
  <2> QED BY <1>1, <1>2, <1>4, <2>1, <2>2, <2>3 DEF EnvelopeInv
<1> QED BY <1>5, <1>6, <1>7, <1>8, <1>9

\* What a session ends with before its message is accepted.
LEMMA FailuresKeep ==
    IInv /\ (DialFails \/ CtxInterrupts \/ PeerRefuses \/ TimesOut \/ FindsClosed) => IInv'
<1> SUFFICES ASSUME IInv, DialFails \/ CtxInterrupts \/ PeerRefuses \/ TimesOut \/ FindsClosed
             PROVE  IInv'
  OBVIOUS
<1> USE DEF Waiting, Handshakes, Commands, Over
<1>1. CASE DialFails
  <2>1. pc = "dial" /\ \E k \in {"net", "timeout"} : Fail(Err(k)) BY <1>1 DEF DialFails
  <2> QED BY <2>1, FailKeeps, ErrorFacts
<1>2. CASE CtxInterrupts
  <2>1. pc \in {"dial", "proxyTLS", "implicitTLS"} /\ Fail(Err("ctx")) BY <1>2 DEF CtxInterrupts
  <2> QED BY <2>1, FailKeeps, ErrorFacts
<1>3. CASE PeerRefuses
  <2>1. pc \in Waiting /\ \E e \in Refusals : Fail(e) BY <1>3 DEF PeerRefuses
  <2>2. PICK e \in Refusals : Fail(e) BY <2>1
  <2>3. e \in Errors /\ e # Nil BY RefusalFacts
  <2> QED BY <2>1, <2>2, <2>3, FailKeeps
<1>4. CASE TimesOut
  <2>1. pc \in Waiting /\ Fail(Err("timeout")) BY <1>4 DEF TimesOut
  <2> QED BY <2>1, FailKeeps, ErrorFacts
<1>5. CASE FindsClosed
  <2>1. pc \in Commands /\ Fail(Err("net")) BY <1>5 DEF FindsClosed
  <2> QED BY <2>1, FailKeeps, ErrorFacts
<1> QED BY <1>1, <1>2, <1>3, <1>4, <1>5

LEMMA StutterKeeps == IInv /\ UNCHANGED vars => IInv'
<1> SUFFICES ASSUME IInv, UNCHANGED vars PROVE IInv' OBVIOUS
<1>1. UNCHANGED <<cfg, pc, rcpt, ctxDone, expired, conn, secure, watcher, failure, verdict, server>>
  BY DEF vars, ctxVars
<1>2. TypeOK'
  <2>1. rcpt' \in 1..(N + 1) /\ server' \in Servers BY <1>1, TypeFacts DEF IInv, Servers
  <2>2. ctxDone' \in BOOLEAN /\ expired' \in BOOLEAN /\ secure' \in BOOLEAN
    BY <1>1 DEF IInv, TypeOK
  <2> QED BY <1>1, <2>1, <2>2, TypeKept, Zenon DEF IInv, TypeOK, Servers
<1>3. ConfigInv' /\ EnvelopeInv' BY <1>1, SameConfig DEF IInv, ConfigInv, EnvelopeInv
<1>4. SecureInv' /\ ErrorInv' /\ ConnInv'
  BY <1>1 DEF IInv, SecureInv, ErrorInv, ConnInv, NoConnectionLeft
<1>5. DoneInv'
  <2>1. classifySMTPError(failure)' = classifySMTPError(failure)
    BY <1>1 DEF classifySMTPError
  <2> QED BY <1>1, <2>1, SameConfig, Zenon DEF IInv, DoneInv, NotStarted, Settled
<1> QED BY <1>2, <1>3, <1>4, <1>5 DEF IInv

LEMMA NextKeeps == IInv /\ [Next]_vars => IInv'
<1> SUFFICES ASSUME IInv, [Next]_vars PROVE IInv' OBVIOUS
<1>1. CASE CtxEnds \/ Expire BY <1>1, ContextKeeps
<1>2. CASE Peer
  BY <1>2, DialKeeps, SetupKeeps, TransactionKeeps, FailuresKeep, ServerStoresKeeps, CloseKeeps
     DEF Peer, GivesUpAnswered
<1>3. CASE Program
  BY <1>3, BeginKeeps, FailuresKeep, CheckCtxKeeps, CloseKeeps, SettleKeeps DEF Program, GivesUpAlone
<1>4. CASE Watch BY <1>4, WatchKeeps
<1>5. CASE Terminated \/ UNCHANGED vars BY <1>5, StutterKeeps DEF Terminated
<1> QED BY <1>1, <1>2, <1>3, <1>4, <1>5 DEF Next

LEMMA Invariance == Spec => []IInv
<1>1. Init => IInv BY InitIInv
<1>2. IInv /\ [Next]_vars => IInv' BY NextKeeps
<1> QED BY <1>1, <1>2, PTL DEF Spec

-----------------------------------------------------------------------------
(* What follows *)

\* The session goes through its stages only, with one of the known errors and
\* verdicts, and its loop over the recipients stays among them.
THEOREM SmtpTypeCorrect == Spec => []TypeOK
<1>1. IInv => TypeOK BY DEF IInv
<1> QED BY <1>1, Invariance, PTL

\* No credentials, and without the plaintext mode no part of a message, are sent
\* over a channel that is not encrypted.
THEOREM NeverInClear == Spec => []NothingInClear
<1>1. IInv => NothingInClear BY DEF IInv, SecureInv, NothingInClear
<1> QED BY <1>1, Invariance, PTL

\* The envelope is as long as the three lists together.
LEMMA EnvelopeLength == TypeOK => N = Len(cfg.to) + Len(cfg.cc) + Len(cfg.bcc)
<1>1. ASSUME NEW c \in Configs
      PROVE  /\ c.to \in Seq(Addresses) /\ c.cc \in Seq(Addresses) /\ c.bcc \in Seq(Addresses)
             /\ applyDefaults(c).to = c.to /\ applyDefaults(c).cc = c.cc /\ applyDefaults(c).bcc = c.bcc
  <2>1. c \in Config BY ConfigsAssumption
  <2> QED BY <2>1, Zenon DEF Config, applyDefaults
<1>2. ASSUME TypeOK
      PROVE  cfg.to \in Seq(Addresses) /\ cfg.cc \in Seq(Addresses) /\ cfg.bcc \in Seq(Addresses)
  BY <1>1, <1>2 DEF TypeOK
<1> HIDE DEF Addresses
<1> QED BY <1>2 DEF N, envelopeRecipients

\* A message follows only an envelope that was accepted for every recipient, shown or
\* not.
THEOREM EnvelopesAreWhole == Spec => []WholeEnvelope
<1>1. IInv => WholeEnvelope
  <2> SUFFICES ASSUME IInv, server.sent PROVE server.rcpts = N
    BY EnvelopeLength DEF WholeEnvelope, IInv
  <2>1. server.sent = TRUE BY TypeFacts DEF IInv
  <2>2. N \in Nat /\ rcpt = N + 1 /\ server.rcpts = rcpt - 1
    BY <2>1, TypeFacts DEF IInv, EnvelopeInv
  <2> QED BY <2>2
<1> QED BY <1>1, Invariance, PTL

\* SendResult reports success exactly when the message was handed over whole and
\* no error was met, whatever the context does meanwhile.
THEOREM SuccessIsAcknowledged == Spec => []AckDecides
<1>1. IInv => AckDecides
  <2> SUFFICES ASSUME IInv, pc = "done"
               PROVE  verdict = "ok" <=> failure = Nil /\ server.sent
    BY DEF AckDecides
  <2>1. server.sent \in BOOLEAN BY TypeFacts DEF IInv
  <2>2. failure # Nil => classifySMTPError(failure) # "ok"
    BY ClassifyFacts DEF IInv, TypeOK
  <2> QED BY <2>1, <2>2 DEF IInv, DoneInv, NotStarted, Settled
<1> QED BY <1>1, Invariance, PTL

\* SendResult returns with no connection open.
THEOREM ConnectionsAreClosed == Spec => []NoConnectionLeft
<1>1. IInv => NoConnectionLeft BY DEF IInv, ConnInv
<1> QED BY <1>1, Invariance, PTL

\* A transient cause is always worth another attempt, and every other one is not as
\* long as no context has ended, for all replies and statuses that can be read; an
\* invalid configuration ends the attempt before anything is dialed.
THEOREM ErrorsKeepTheirCause == Spec => []ClassifiedByCause
<1>1. ASSUME NEW e \in Errors, e # Nil
      PROVE  classifySMTPError(e) = IF Transient(e) THEN "transport" ELSE "permanent"
  <2>1. CASE \E k \in {"marked", "local", "cert", "net", "timeout", "ctx"} : e = Err(k)
    BY <2>1 DEF classifySMTPError, Transient, Err
  <2>2. CASE \E c \in Codes : e = Reply(c)
    BY <2>2 DEF classifySMTPError, Transient, Reply
  <2>3. CASE \E c \in Codes : e = Proxied(c)
    BY <2>3 DEF classifySMTPError, Transient, Proxied
  <2> QED BY <1>1, <2>1, <2>2, <2>3 DEF Errors, Nil
<1>2. IInv => ClassifiedByCause
  <2> SUFFICES ASSUME IInv PROVE ClassifiedByCause OBVIOUS
  <2>1. failure \in Errors /\ ctxDone \in BOOLEAN /\ expired \in BOOLEAN BY DEF IInv, TypeOK
  <2>2. ASSUME pc = "done", failure # Nil
        PROVE  /\ verdict \in {"permanent", "transport"}
               /\ Transient(failure) => verdict = "transport"
               /\ ~ctxDone /\ ~expired => (verdict = "transport" <=> Transient(failure))
    <3>1. \/ verdict = classifySMTPError(failure)
          \/ verdict = "transport" /\ (ctxDone = TRUE \/ expired = TRUE)
      BY <2>2 DEF IInv, DoneInv, NotStarted, Settled
    <3>2. classifySMTPError(failure) = IF Transient(failure) THEN "transport" ELSE "permanent"
      BY <1>1, <2>1, <2>2
    <3> QED BY <3>1, <3>2
  <2>3. ASSUME pc # "begin", ~Valid(cfg)
        PROVE  conn = "none" /\ verdict \in {"permanent", "unclassified"}
    BY <2>3 DEF IInv, ConfigInv, DoneInv, NotStarted, Settled
  <2> QED BY <2>2, <2>3 DEF ClassifiedByCause
<1> QED BY <1>2, Invariance, PTL

\* A session is what a delivery takes a target's Send to be: it returns once, the
\* message is accepted at most once, and success means that it was accepted.
THEOREM SessionIsAnAttempt == Spec => ImplementsAttempt
<1>1. Init => Attempt!Init BY DEF Init, Attempt!Init
<1>2. IInv /\ [Next]_vars => [Attempt!Next]_(Attempt!vars)
  <2> SUFFICES ASSUME IInv, [Next]_vars PROVE [Attempt!Next]_(Attempt!vars) OBVIOUS
  <2>1. ASSUME UNCHANGED <<verdict, server>> PROVE UNCHANGED Attempt!vars
    BY <2>1 DEF Attempt!vars
  <2>2. ASSUME UNCHANGED verdict, server'.stored = server.stored PROVE UNCHANGED Attempt!vars
    BY <2>2 DEF Attempt!vars
  <2>3. server \in Servers BY TypeFacts DEF IInv, Servers
  <2>4. CASE Begin
    <3>1. UNCHANGED server BY <2>4 DEF Begin
    <3>2. verdict = "none" BY <2>4 DEF Begin, IInv, ErrorInv
    <3>3. verdict' \in {verdict, "unclassified", "permanent"} BY <2>4 DEF Begin
    <3> QED BY <2>1, <3>1, <3>2, <3>3 DEF Attempt!Next, Attempt!Return, Attempt!Verdicts
  <2>5. CASE Settle
    <3>1. UNCHANGED server /\ verdict = "none" BY <2>5 DEF Settle, IInv, ErrorInv
    <3>2. PICK ended \in CtxErr :
            verdict' = classifySMTPError(IF failure # Nil /\ ended THEN Err("ctx") ELSE failure)
      BY <2>5 DEF Settle
    <3>3. failure \in Errors BY DEF IInv, TypeOK
    <3>4. /\ verdict' \in {"ok", "transport", "permanent"}
          /\ verdict' = "ok" => failure = Nil
      BY <3>2, <3>3, ClassifyFacts
    <3>5. verdict' = "ok" => server.stored = TRUE BY <2>5, <3>4 DEF Settle, IInv, ErrorInv
    <3> QED BY <3>1, <3>4, <3>5 DEF Attempt!Next, Attempt!Return, Attempt!Verdicts
  <2>6. CASE ServerStores
    <3>1. server.stored = FALSE /\ server'.stored = TRUE /\ UNCHANGED verdict
      BY <2>3, <2>6 DEF ServerStores, Servers
    <3> QED BY <3>1 DEF Attempt!Next, Attempt!Accept
  <2>7. CASE \/ CtxEnds \/ Expire \/ GivesUpAnswered \/ GivesUpAlone \/ Close \/ Watch
             \/ Terminated \/ UNCHANGED vars
    BY <2>1, <2>7
       DEF CtxEnds, Expire, GivesUpAnswered, GivesUpAlone, GiveUp, Close, Watch, Terminated, vars
  <2>8. CASE Dial \/ DialFails \/ CtxInterrupts \/ PeerRefuses \/ TimesOut \/ FindsClosed
    BY <2>1, <2>8 DEF Dial, DialFails, CtxInterrupts, PeerRefuses, TimesOut, FindsClosed, Fail, Enter
  <2>9. CASE \/ ProxySecured \/ TunnelOpen \/ ImplicitSecure \/ Greeted \/ Hello \/ StartTLS \/ Auth
             \/ Mail \/ Data \/ Acknowledged
    BY <2>1, <2>9 DEF ProxySecured, TunnelOpen, ImplicitSecure, Greeted, Hello, StartTLS, Auth,
                      Mail, Data, Acknowledged, Stage, Enter, Fail
  <2>10. CASE CheckCtx
    <3>1. UNCHANGED verdict BY <2>10 DEF CheckCtx, Fail, Enter
    <3>2. server' \in {server, [server EXCEPT !.auth = Channel], [server EXCEPT !.mail = Channel]}
      BY <2>10 DEF CheckCtx, Fail
    <3>3. server'.stored = server.stored BY <2>3, <3>2 DEF Servers
    <3> QED BY <2>2, <3>1, <3>3
  <2>11. CASE Rcpt
    <3>1. UNCHANGED verdict BY <2>11 DEF Rcpt, Stage, Enter
    <3>2. server' = [server EXCEPT !.rcpts = server.rcpts + 1] BY <2>11 DEF Rcpt
    <3>3. server'.stored = server.stored BY <2>3, <3>2 DEF Servers
    <3> QED BY <2>2, <3>1, <3>3
  <2>12. CASE Write
    <3>1. UNCHANGED verdict BY <2>12 DEF Write, Stage, Enter
    <3>2. server' = [server EXCEPT !.sent = TRUE] BY <2>12 DEF Write
    <3>3. server'.stored = server.stored BY <2>3, <3>2 DEF Servers
    <3> QED BY <2>2, <3>1, <3>3
  <2> QED BY <2>4, <2>5, <2>6, <2>7, <2>8, <2>9, <2>10, <2>11, <2>12 DEF Next, Peer, Program
<1> QED BY <1>1, <1>2, Invariance, PTL DEF Spec, ImplementsAttempt, Attempt!Spec

-----------------------------------------------------------------------------
(***************************************************************************)
(* Coming to rest                                                          *)
(***************************************************************************)
\* The watcher is started with the session, and goes before its end only by closing
\* the connection.
WatchInv ==
    /\ watcher # "none" => pc \in Session \union Over
    /\ watcher = "gone" /\ pc \in Session \union {"giveUp"} => conn = "closed"

\* How a step leaves the watcher alone.
LEMMA WatchKept ==
    ASSUME WatchInv, watcher' = watcher, conn' = conn \/ pc' \notin Session \union {"giveUp"},
           \/ pc' = pc \/ pc' \in Over \ {"giveUp"} \/ (pc \in Session /\ pc' = "giveUp")
           \/ (pc \in Session /\ pc' \in Session) \/ watcher = "none"
    PROVE  WatchInv'
BY DEF WatchInv, Session, Over, Commands, Checks

LEMMA WatchFail == ASSUME WatchInv, NEW e, Fail(e) PROVE WatchInv'
BY WatchKept DEF Fail, Session, Over, Commands, Checks

\* The stages of an open connection.
LEMMA WatchStage ==
    ASSUME WatchInv, NEW from, NEW to, Stage(from, to), UNCHANGED conn,
           \/ from \in {"proxyTLS", "connect", "implicitTLS"}
                /\ to \in {"connect", "implicitTLS", "greeting"}
           \/ from \in Session /\ to \in (Session \union {"closing"}) \ {"greeting"}
    PROVE  WatchInv'
<1>1. pc = from /\ conn = "open" /\ pc' = to /\ watcher' = IF to = "greeting" THEN "waiting" ELSE watcher
  BY DEF Stage, Enter
<1>2. CASE to = "greeting" BY <1>1, <1>2 DEF WatchInv, Session, Commands
<1>3. CASE to # "greeting"
  BY <1>1, <1>3, WatchKept DEF WatchInv, Session, Over, Commands, Checks
<1> QED BY <1>2, <1>3

LEMMA NextWatch == IInv /\ WatchInv /\ [Next]_vars => WatchInv'
<1> SUFFICES ASSUME IInv, WatchInv, [Next]_vars PROVE WatchInv' OBVIOUS
<1>1. CASE CtxEnds \/ Expire \/ ServerStores \/ Terminated \/ UNCHANGED vars
  BY <1>1, WatchKept DEF CtxEnds, Expire, ServerStores, Terminated, vars
<1>2. CASE Begin \/ GiveUp \/ Close \/ Settle
  BY <1>2, WatchKept DEF Begin, GiveUp, Close, Settle, IInv, ConnInv, Over, Session, Commands, Checks
<1>3. CASE Dial
  <2>1. watcher = "none" /\ watcher' \in {"none", "waiting"}
          /\ (watcher' = "waiting" => pc' = "greeting")
    <3>1. ASSUME NEW e, Fail(e) PROVE watcher' = watcher BY <3>1 DEF Fail
    <3>2. ASSUME NEW stage, Enter(stage)
          PROVE  watcher' = watcher \/ (watcher' = "waiting" /\ pc' = "greeting")
      BY <3>2 DEF Enter
    <3>3. watcher = "none" BY <1>3 DEF Dial, IInv, ConnInv
    <3>4. watcher' = watcher \/ (watcher' = "waiting" /\ pc' = "greeting")
      BY <1>3, <3>1, <3>2 DEF Dial
    <3> QED BY <3>3, <3>4
  <2> QED BY <2>1 DEF WatchInv, Session, Commands
<1>4. CASE DialFails \/ CtxInterrupts \/ PeerRefuses \/ TimesOut \/ FindsClosed
  BY <1>4, WatchFail DEF DialFails, CtxInterrupts, PeerRefuses, TimesOut, FindsClosed
<1>5. CASE \/ ProxySecured \/ TunnelOpen \/ ImplicitSecure \/ Greeted \/ StartTLS \/ Auth
           \/ Mail \/ Rcpt \/ Data \/ Write \/ Acknowledged
  BY <1>5, WatchStage
     DEF ProxySecured, TunnelOpen, ImplicitSecure, Greeted, StartTLS, Auth, Mail, Rcpt, Data,
         Write, Acknowledged, Connected, Session, Over, Commands, Checks
<1>6. CASE Hello
  BY <1>6, WatchStage, WatchFail DEF Hello, Session, Commands, Checks
<1>7. CASE CheckCtx
  <2>1. pc \in Session BY <1>7 DEF CheckCtx, Session
  <2>2. CASE \E e : Fail(e) BY <2>2, WatchFail
  <2>3. CASE \E stage \in {"hello", "auth", "checkMail", "mail"} : Enter(stage) /\ UNCHANGED conn
    BY <2>1, <2>3, WatchKept DEF Enter, Session, Commands, Checks
  <2> QED BY <1>7, <2>2, <2>3 DEF CheckCtx
<1>8. CASE Watch BY <1>8 DEF Watch, WatchInv, Session, Commands, Checks
<1> QED BY <1>1, <1>2, <1>3, <1>4, <1>5, <1>6, <1>7, <1>8
   DEF Next, Peer, Program, GivesUpAnswered, GivesUpAlone

LEMMA WatchInvariance == Spec => []WatchInv
<1>1. Init => WatchInv BY DEF Init, WatchInv
<1> QED BY <1>1, NextWatch, Invariance, PTL DEF Spec

LEMMA SessionRests == IInv /\ WatchInv => RestIsExplained
<1> SUFFICES ASSUME IInv, WatchInv, ~Runnable
             PROVE  \/ pc = "done" /\ watcher # "waiting"
                    \/ pc \in {"dial", "giveUp"} \union Waiting /\ ~expired /\ (ctxDone => watcher = "none")
  BY DEF RestIsExplained
<1>1. pc \in {"dial", "giveUp", "done"} \union Waiting BY DEF IInv, TypeOK, Stages, Runnable
<1>2. CASE pc = "done" BY <1>2 DEF Runnable
<1>3. CASE pc = "dial" BY <1>3 DEF Runnable, IInv, ConnInv
<1>4. CASE pc \in Handshakes \union {"connect"}
  BY <1>4 DEF Runnable, WatchInv, Waiting, Handshakes, Session, Over, Commands, Checks
<1>5. CASE pc \in Commands
  <2>1. ~expired BY <1>5 DEF Runnable, Waiting
  <2>2. conn # "closed" BY <1>5 DEF Runnable
  <2>3. watcher \in {"none", "waiting"} BY <1>5, <2>2 DEF WatchInv, Session, IInv, TypeOK
  <2> QED BY <1>5, <2>1, <2>3 DEF Runnable, Waiting
<1>6. CASE pc = "giveUp"
  <2>1. ~expired /\ conn # "closed" BY <1>6 DEF Runnable
  <2>2. watcher \in {"none", "waiting"} BY <1>6, <2>1 DEF WatchInv, IInv, TypeOK
  <2> QED BY <1>6, <2>1, <2>2 DEF Runnable
<1> QED BY <1>1, <1>2, <1>3, <1>4, <1>5, <1>6 DEF Waiting

LEMMA RankFacts ==
    /\ \A stage : Rank(stage) \in 0..20
    /\ Rank("begin") = 0 /\ Rank("dial") = 1 /\ Rank("proxyTLS") = 2 /\ Rank("connect") = 3
    /\ Rank("implicitTLS") = 4 /\ Rank("greeting") = 5 /\ Rank("checkHello") = 6
    /\ Rank("hello") = 7 /\ Rank("starttls") = 8 /\ Rank("checkAuth") = 9 /\ Rank("auth") = 10
    /\ Rank("checkMail") = 11 /\ Rank("mail") = 12 /\ Rank("rcpt") = 13 /\ Rank("data") = 14
    /\ Rank("write") = 15 /\ Rank("giveUp") = 16 /\ Rank("accept") = 17
    /\ Rank("closing") = 18 /\ Rank("settle") = 19 /\ Rank("done") = 20
BY DEF Rank

\* What a bounded session has behind it is within its bound.
LEMMA ProgressBounded == IInv => Progress \in Nat /\ Progress <= MostSteps
<1> SUFFICES ASSUME IInv PROVE Progress \in Nat /\ Progress <= MostSteps OBVIOUS
<1>1. N \in Nat /\ rcpt \in 1..(N + 1) BY TypeFacts DEF IInv
<1>2. Rank(pc) \in 0..20 BY RankFacts
<1>3. \A b : One(b) \in {0, 1} BY DEF One
<1>4. MostSteps = 26 + N BY DEF MostSteps, N
<1> QED BY <1>1, <1>2, <1>3, <1>4 DEF Progress

\* A step forward to another stage or recipient; the watcher at most starts.
LEMMA Onward ==
    ASSUME rcpt \in Nat, UNCHANGED <<ctxDone, expired>>, server'.stored = server.stored,
           \/ Rank(pc) < Rank(pc') /\ rcpt' \in {rcpt, rcpt + 1}
           \/ pc' = pc /\ rcpt' = rcpt + 1,
           watcher' = watcher \/ watcher = "none"
    PROVE  Progress < Progress'
<1>1. Rank(pc) \in 0..20 /\ Rank(pc') \in 0..20 BY RankFacts
<1>2. \A b : One(b) \in {0, 1} BY DEF One
<1>3. /\ One(watcher # "none") <= One(watcher' # "none")
      /\ One(watcher = "gone") <= One(watcher' = "gone")
  BY DEF One
<1>4. Progress' = Rank(pc') + rcpt' + One(ctxDone') + One(expired') + One(server'.stored)
                    + One(watcher' # "none") + One(watcher' = "gone")
  BY DEF Progress
<1> QED BY <1>1, <1>2, <1>3, <1>4 DEF Progress

\* A step that only ends the context, passes the deadline or stores the message.
LEMMA Onwards ==
    ASSUME rcpt \in Nat, UNCHANGED <<pc, rcpt, watcher>>,
           ctxDone => ctxDone', expired => expired', server.stored => server'.stored,
           (ctxDone' /\ ~ctxDone) \/ (expired' /\ ~expired) \/ (server'.stored /\ ~server.stored)
    PROVE  Progress < Progress'
<1>1. Rank(pc) \in 0..20 BY RankFacts
<1>2. \A b : One(b) \in {0, 1} BY DEF One
<1>3. /\ One(ctxDone) <= One(ctxDone') /\ One(expired) <= One(expired')
      /\ One(server.stored) <= One(server'.stored)
  BY DEF One
<1>4. \/ One(ctxDone) < One(ctxDone') \/ One(expired) < One(expired')
      \/ One(server.stored) < One(server'.stored)
  BY DEF One
<1>5. Progress' = Rank(pc) + rcpt + One(ctxDone') + One(expired') + One(server'.stored)
                    + One(watcher # "none") + One(watcher = "gone")
  BY DEF Progress
<1> QED BY <1>1, <1>2, <1>3, <1>4, <1>5 DEF Progress

LEMMA FailOnward ==
    ASSUME rcpt \in Nat, NEW e, Fail(e), Rank(pc) < 18, pc # "giveUp"
    PROVE  Progress < Progress'
BY Onward, RankFacts DEF Fail, ctxVars

LEMMA StageOnward ==
    ASSUME rcpt \in Nat, NEW from, NEW to, Stage(from, to), server'.stored = server.stored,
           \/ Rank(from) < Rank(to) /\ rcpt' \in {rcpt, rcpt + 1}
           \/ from = to /\ rcpt' = rcpt + 1,
           to = "greeting" => watcher = "none"
    PROVE  Progress < Progress'
BY Onward DEF Stage, Enter, ctxVars

LEMMA SessionAdvances == IInv /\ WatchInv /\ [Next]_vars => UNCHANGED vars \/ Progress < Progress'
<1> SUFFICES ASSUME IInv, WatchInv, Next, ~UNCHANGED vars PROVE Progress < Progress' OBVIOUS
<1>1. rcpt \in Nat /\ server.stored \in BOOLEAN BY TypeFacts DEF IInv
<1>2. ctxDone \in BOOLEAN /\ expired \in BOOLEAN BY DEF IInv, TypeOK
<1>3. CASE CtxEnds \/ Expire BY <1>1, <1>2, <1>3, Onwards DEF CtxEnds, Expire
<1>4. CASE ServerStores
  <2>1. server'.stored = TRUE /\ ~server.stored
    BY <1>4, TypeFacts DEF ServerStores, IInv
  <2> QED BY <1>1, <1>4, <2>1, Onwards DEF ServerStores, ctxVars
<1>5. CASE Begin \/ GiveUp \/ Close \/ Settle
  BY <1>1, <1>5, Onward, RankFacts DEF Begin, GiveUp, Close, Settle, ctxVars
<1>6. CASE Dial
  <2>1. pc = "dial" /\ watcher = "none" BY <1>6 DEF Dial, IInv, ConnInv
  <2>2. CASE \E e : Fail(e) BY <1>1, <2>1, <2>2, FailOnward, RankFacts
  <2>3. CASE pc' = "closing" /\ UNCHANGED <<rcpt, ctxVars, watcher, server>>
    BY <1>1, <2>1, <2>3, Onward, RankFacts DEF ctxVars
  <2>4. CASE \E stage \in {"proxyTLS", "connect", "implicitTLS", "greeting"} :
                 Enter(stage) /\ UNCHANGED <<rcpt, server>>
    BY <1>1, <2>1, <2>4, Onward, RankFacts DEF Enter, ctxVars
  <2>5. Connected(cfg) \in {"implicitTLS", "greeting"} BY DEF Connected
  <2> QED BY <1>6, <2>2, <2>3, <2>4, <2>5 DEF Dial
<1>7. CASE DialFails \/ CtxInterrupts \/ PeerRefuses \/ TimesOut \/ FindsClosed
  <2>1. pc \in {"dial"} \union Waiting
    BY <1>7 DEF DialFails, CtxInterrupts, PeerRefuses, TimesOut, FindsClosed, Waiting, Handshakes
  <2>2. Rank(pc) < 18 /\ pc # "giveUp" BY <2>1, RankFacts DEF Waiting, Handshakes, Commands
  <2> QED
    BY <1>1, <1>7, <2>2, FailOnward DEF DialFails, CtxInterrupts, PeerRefuses, TimesOut, FindsClosed
<1>8. CASE ProxySecured \/ TunnelOpen \/ ImplicitSecure
  <2>1. watcher = "none"
    BY <1>8 DEF ProxySecured, TunnelOpen, ImplicitSecure, Stage, WatchInv, Session, Over, Commands, Checks
  <2>2. Connected(cfg) \in {"implicitTLS", "greeting"} BY DEF Connected
  <2> QED
    BY <1>1, <1>8, <2>1, <2>2, StageOnward, RankFacts DEF ProxySecured, TunnelOpen, ImplicitSecure
<1>9. CASE Greeted \/ StartTLS \/ Auth \/ Mail \/ Data \/ Acknowledged
  BY <1>1, <1>9, StageOnward, RankFacts DEF Greeted, StartTLS, Auth, Mail, Data, Acknowledged
<1>10. CASE Rcpt \/ Write
  <2>1. server'.stored = server.stored BY <1>10, TypeFacts DEF Rcpt, Write, IInv
  <2>2. Rank("rcpt") < Rank("data") /\ Rank("write") < Rank("accept") BY RankFacts
  <2>3. CASE Rcpt BY <1>1, <2>1, <2>2, <2>3, StageOnward DEF Rcpt
  <2>4. CASE Write BY <1>1, <2>1, <2>2, <2>4, StageOnward DEF Write
  <2> QED BY <1>10, <2>3, <2>4
<1>11. CASE Hello
  <2>1. pc = "hello" BY <1>11 DEF Hello, Stage
  <2> QED BY <1>1, <1>11, <2>1, FailOnward, StageOnward, RankFacts DEF Hello
<1>12. CASE CheckCtx
  <2>1. pc \in Checks BY <1>12 DEF CheckCtx
  <2>2. CASE \E e : Fail(e) BY <1>1, <2>1, <2>2, FailOnward, RankFacts DEF Checks
  <2>3. CASE ~\E e : Fail(e)
    <3>1. /\ UNCHANGED <<ctxDone, expired, watcher, rcpt>>
          /\ \/ pc = "checkHello" /\ pc' = "hello"
             \/ pc = "checkAuth" /\ pc' \in {"auth", "checkMail"}
             \/ pc = "checkMail" /\ pc' = "mail"
      BY <1>12, <2>3 DEF CheckCtx, Enter, Checks, ctxVars
    <3>2. server'.stored = server.stored
      <4>1. server' \in {server, [server EXCEPT !.auth = Channel], [server EXCEPT !.mail = Channel]}
        BY <1>12, <2>3 DEF CheckCtx
      <4> QED BY <4>1, TypeFacts DEF IInv
    <3> QED BY <1>1, <3>1, <3>2, Onward, RankFacts
  <2> QED BY <2>2, <2>3
<1>13. CASE Watch
  <2>1. /\ watcher = "waiting" /\ watcher' = "gone" /\ UNCHANGED <<pc, rcpt, ctxDone, expired, server>>
    BY <1>13 DEF Watch, ctxVars
  <2>2. /\ One(watcher # "none") = 1 /\ One(watcher' # "none") = 1
        /\ One(watcher = "gone") = 0 /\ One(watcher' = "gone") = 1
    BY <2>1 DEF One
  <2>3. Rank(pc) \in 0..20 /\ \A b : One(b) \in {0, 1} BY RankFacts DEF One
  <2>4. Progress' = Rank(pc) + rcpt + One(ctxDone) + One(expired) + One(server.stored)
                      + One(watcher' # "none") + One(watcher' = "gone")
    BY <2>1 DEF Progress
  <2> QED BY <1>1, <2>2, <2>3, <2>4 DEF Progress
<1>14. CASE Terminated BY <1>14 DEF Terminated
<1> QED
  BY <1>3, <1>4, <1>5, <1>6, <1>7, <1>8, <1>9, <1>10, <1>11, <1>12, <1>13, <1>14
     DEF Next, Peer, Program, GivesUpAnswered, GivesUpAlone

\* email.go:383-386, 403-416, 515-525.  Whatever the peer, the proxy and the context do and
\* however many recipients there are, a session and its watcher have a bounded number of
\* steps, and stop only at their end or where a deadline that is still to pass will find them.
THEOREM SessionRunsToRest == Spec => SessionComesToRest
<1>1. IInv /\ WatchInv => RestIsExplained /\ NoConnectionLeft BY SessionRests DEF IInv, ConnInv
<1>2. IInv /\ WatchInv /\ [Next]_vars /\ IInv'
        => [Progress < Progress' /\ Progress' <= MostSteps']_vars
  <2>1. (IInv => Progress <= MostSteps)' BY ProgressBounded, PTL
  <2> QED BY <2>1, SessionAdvances
<1> QED BY <1>1, <1>2, Invariance, WatchInvariance, PTL DEF Spec, SessionComesToRest

-----------------------------------------------------------------------------
(***************************************************************************)
(* Text                                                                    *)
(***************************************************************************)
LineMarks == {"CR", "LF"}
Chars     == STRING \union LineMarks
Text      == Seq(Chars)

\* The places of a text that have one of some characters.
Places(s, C) == {i \in DOMAIN s : s[i] \in C}

LEMMA TextAppend ==
    ASSUME NEW s \in Text, NEW c \in Chars
    PROVE  /\ Append(s, c) \in Text /\ Len(s) \in Nat /\ DOMAIN s = 1..Len(s)
           /\ DOMAIN Append(s, c) = 1..(Len(s) + 1) /\ Len(Append(s, c)) = Len(s) + 1
           /\ Append(s, c)[Len(s) + 1] = c
           /\ \A i \in 1..Len(s) : Append(s, c)[i] = s[i]
<1>1. s \in Seq(Chars) BY DEF Text
<1> QED BY <1>1, AppendIs DEF Text

LEMMA TextConcat ==
    ASSUME NEW s \in Text
    PROVE  /\ s \o << >> = s
           /\ \A c \in Chars : s \o <<c>> = Append(s, c)
           /\ s \o <<"CR", "LF">> = Append(Append(s, "CR"), "LF")
<1>1. s \in Seq(Chars) BY DEF Text
<1>2. "CR" \in Chars /\ "LF" \in Chars BY DEF Chars, LineMarks
<1> QED BY <1>1, <1>2, ConcatIs

\* One more character is one more place, or none.
LEMMA PlacesAppend ==
    ASSUME NEW s \in Text, NEW c \in Chars, NEW C
    PROVE  /\ IsFiniteSet(Places(s, C)) /\ Cardinality(Places(s, C)) \in Nat
           /\ Cardinality(Places(Append(s, c), C))
                = Cardinality(Places(s, C)) + (IF c \in C THEN 1 ELSE 0)
<1> DEFINE n == Len(s)
           old == Places(s, C)
           new == Places(Append(s, c), C)
           yes == c \in C
           t == Append(s, c)
<1>1. /\ n \in Nat /\ DOMAIN s = 1..n /\ DOMAIN t = 1..(n + 1)
      /\ t[n + 1] = c /\ \A i \in 1..n : t[i] = s[i]
  BY TextAppend
<1> HIDE DEF n, t
<1>2. old \in SUBSET (1..n)
  BY <1>1 DEF Places
<1>3. n + 1 \notin old /\ n + 1 \in 1..(n + 1) BY <1>1, <1>2
<1>4. \A i \in 1..(n + 1) : i \in 1..n \/ i = n + 1 BY <1>1
<1>5. \A i \in 1..n : i \in 1..(n + 1) BY <1>1
<1>6. \A i : i \in old <=> i \in 1..n /\ s[i] \in C BY <1>1 DEF Places
<1>7. \A i : i \in Places(t, C) <=> i \in 1..(n + 1) /\ t[i] \in C BY <1>1, Zenon DEF Places
<1>8. \A i : i \in new <=> i \in Places(t, C) BY DEF t
<1> HIDE DEF old, new
<1>9. new = IF yes THEN old \union {n + 1} ELSE old
  <2>1. CASE yes
    <3>1. \A i : i \in new <=> i \in old \/ i = n + 1
      BY <1>1, <1>3, <1>4, <1>5, <1>6, <1>7, <1>8, <2>1, Zenon
    <3> QED BY <2>1, <3>1
  <2>2. CASE ~yes
    <3>1. \A i : i \in new <=> i \in old
      BY <1>1, <1>3, <1>4, <1>5, <1>6, <1>7, <1>8, <2>2, Zenon
    <3> QED BY <2>2, <3>1
  <2> QED BY <2>1, <2>2
<1>10. IsFiniteSet(old)
  <2>1. IsFiniteSet(1..n) BY <1>1, FS_Interval
  <2> QED BY <1>2, <2>1, FS_Subset, Zenon
<1>11. yes \in BOOLEAN OBVIOUS
<1> HIDE DEF yes
<1>12. Cardinality(old) \in Nat /\ Cardinality(new) = Cardinality(old) + (IF yes THEN 1 ELSE 0)
  BY <1>3, <1>9, <1>10, <1>11, OneMore, Zenon
<1> QED BY <1>10, <1>12 DEF old, new, yes, t

LEMMA PlacesEmpty == ASSUME NEW C PROVE Cardinality(Places(<< >>, C)) = 0
<1>1. Places(<< >>, C) = {} BY DEF Places
<1> QED BY <1>1, FS_EmptySet

(***************************************************************************)
(* Words                                                                   *)
(***************************************************************************)
WordPiece(c) == IF c \in LineMarks THEN << >> ELSE <<c>>

LEMMA WordsLoop ==
    ASSUME NEW b \in Text, NEW n, n = Len(b)
    PROVE  \E g \in [0..n -> Text] :
              /\ Pieces(g, n, [i \in 1..n |-> WordPiece(b[i])])
              /\ Words(b) = g[n]
<1> DEFINE p == [i \in 1..n |-> WordPiece(b[i])]
           S == Chars
<1>1. b \in Seq(S) BY DEF Text
<1>2. n \in Nat /\ DOMAIN b = 1..n /\ \A i \in 1..n : b[i] \in Chars
  BY <1>1, LenProperties, ElementOfSeq
<1>3. p \in [1..n -> Seq(S)]
  <2>1. ASSUME NEW i \in 1..n PROVE WordPiece(b[i]) \in Seq(S)
    <3>1. b[i] \in S BY <1>2
    <3>2. << >> \in Seq(S) /\ <<b[i]>> \in Seq(S) BY <3>1, EmptySeq
    <3> QED BY <3>2 DEF WordPiece
  <2> QED BY <2>1
<1>4. Words(b) = FlattenSeq(p)
  BY <1>2 DEF Words, WordPiece, LineMarks
<1> HIDE DEF p, S
<1>5. \E g \in [0..n -> Seq(S)] : Pieces(g, n, p) /\ FlattenSeq(p) = g[n]
  BY <1>2, <1>3, FlattenSeqIs
<1> QED BY <1>4, <1>5 DEF p, S, Text

LEMMA WordsEmpty == Words(<< >>) = << >>
<1>1. << >> \in Text /\ Len(<< >>) = 0 BY EmptySeq DEF Text
<1>2. PICK g : /\ Pieces(g, 0, [i \in 1..0 |-> WordPiece(<< >>[i])])
               /\ Words(<< >>) = g[0]
  BY <1>1, WordsLoop
<1> QED BY <1>2 DEF Pieces

LEMMA WordsAppend ==
    ASSUME NEW s \in Text, NEW c \in Chars
    PROVE  /\ Words(s) \in Text
           /\ Words(Append(s, c)) = Words(s) \o WordPiece(c)
<1> DEFINE n == Len(s)
           t == Append(s, c)
           p == [i \in 1..n |-> WordPiece(s[i])]
           q == [i \in 1..(n + 1) |-> WordPiece(t[i])]
<1>1. /\ n \in Nat /\ t \in Text /\ Len(t) = n + 1 /\ t[n + 1] = c
      /\ \A i \in 1..n : t[i] = s[i]
  BY TextAppend
<1> HIDE DEF t
<1>2. PICK f \in [0..n -> Text] : Pieces(f, n, p) /\ Words(s) = f[n]
  BY WordsLoop
<1>3. PICK g \in [0..(n + 1) -> Text] : Pieces(g, n + 1, q) /\ Words(t) = g[n + 1]
  BY <1>1, WordsLoop
<1>4. \A k \in 1..n : p[k] = q[k] BY <1>1
<1>5. q[n + 1] = WordPiece(c) BY <1>1
<1> HIDE DEF p, q, n
<1>6. f[n] = g[n]
  <2>1. n + 1 \in Nat /\ n <= n + 1 /\ n \in 0..n BY <1>1
  <2>2. Pieces(f, n, p) /\ Pieces(g, n + 1, q) BY <1>2, <1>3
  <2>3. Pieces(g, n, p)
    <3>1. \A k \in 1..n : k \in 1..(n + 1) BY <1>1
    <3> QED BY <1>4, <2>2, <3>1 DEF Pieces
  <2>4. \A k \in 0..n : f[k] = g[k]
    BY <1>1, <2>2, <2>3, SamePieces
  <2> QED BY <2>1, <2>4
<1>7. g[n + 1] = g[n] \o q[n + 1]
  <2>1. n + 1 \in 1..(n + 1) /\ (n + 1) - 1 = n BY <1>1
  <2> QED BY <1>3, <2>1 DEF Pieces
<1>8. n \in 0..n BY <1>1
<1> QED BY <1>2, <1>3, <1>5, <1>6, <1>7, <1>8 DEF t

(***************************************************************************)
(* The first pass: CRLF becomes LF                                         *)
(***************************************************************************)
Drops(b, i) == b[i] = "CR" /\ At(b, i + 1) = "LF"

LEMMA FirstPassLoop ==
    ASSUME NEW b \in Text, NEW n, n = Len(b)
    PROVE  \E f \in [0..n -> Text] :
              /\ Pieces(f, n, [i \in 1..n |-> IF Drops(b, i) THEN << >> ELSE <<b[i]>>])
              /\ crlfToLf(b) = f[n]
<1> DEFINE p == [i \in 1..n |-> IF Drops(b, i) THEN << >> ELSE <<b[i]>>]
           S == Chars
<1>1. b \in Seq(S) BY DEF Text
<1>2. n \in Nat /\ DOMAIN b = 1..n /\ \A i \in 1..n : b[i] \in Chars
  BY <1>1, LenProperties, ElementOfSeq
<1>3. p \in [1..n -> Seq(S)]
  <2>1. ASSUME NEW i \in 1..n
        PROVE (IF Drops(b, i) THEN << >> ELSE <<b[i]>>) \in Seq(S)
    <3>1. b[i] \in S BY <1>2
    <3> HIDE DEF S
    <3> QED BY <3>1, EmptySeq
  <2> QED BY <2>1
<1>4. crlfToLf(b) = FlattenSeq(p)
  BY <1>2 DEF crlfToLf, Drops
<1> HIDE DEF p, S
<1>5. \E f \in [0..n -> Seq(S)] : Pieces(f, n, p) /\ FlattenSeq(p) = f[n]
  BY <1>2, <1>3, FlattenSeqIs
<1> QED BY <1>4, <1>5 DEF p, S, Text

LEMMA EndsInside ==
    ASSUME NEW b \in Text
    PROVE  /\ Len(b) \in Nat /\ DOMAIN b = 1..Len(b) /\ Ends(b) \in SUBSET (1..Len(b))
           /\ \A i \in 1..Len(b) : b[i] \in Chars
           /\ \A i \in 1..Len(b) :
                i \in Ends(b) <=> b[i] \in LineMarks /\ ~Drops(b, i)
<1>1. b \in Seq(Chars) BY DEF Text
<1>2. Len(b) \in Nat /\ DOMAIN b = 1..Len(b) /\ \A i \in 1..Len(b) : b[i] \in Chars
  BY <1>1, LenProperties, ElementOfSeq
<1> QED BY <1>2 DEF Ends, LineMarks, Drops

\* The first pass keeps words and line ends, and the last character.
LEMMA FirstPass ==
    ASSUME NEW b \in Text
    PROVE  /\ crlfToLf(b) \in Text /\ Words(crlfToLf(b)) = Words(b)
           /\ Cardinality(Places(crlfToLf(b), LineMarks)) = Cardinality(Ends(b))
           /\ b = << >> => crlfToLf(b) = << >>
           /\ b # << >> => \E s \in Text : crlfToLf(b) = Append(s, b[Len(b)])
<1> DEFINE n == Len(b)
           E == Ends(b)
           p == [i \in 1..n |-> IF Drops(b, i) THEN << >> ELSE <<b[i]>>]
           w == [i \in 1..n |-> WordPiece(b[i])]
<1>1. /\ n \in Nat /\ DOMAIN b = 1..n /\ E \in SUBSET (1..n)
      /\ \A i \in 1..n : b[i] \in Chars
      /\ \A i \in 1..n : i \in E <=> b[i] \in LineMarks /\ ~Drops(b, i)
  BY EndsInside
<1>2. PICK f \in [0..n -> Text] : Pieces(f, n, p) /\ crlfToLf(b) = f[n]
  BY FirstPassLoop
<1>3. PICK g \in [0..n -> Text] : Pieces(g, n, w) /\ Words(b) = g[n]
  BY WordsLoop
<1>4. f[0] = << >> /\ g[0] = << >> BY <1>2, <1>3 DEF Pieces
<1>5. ASSUME NEW k \in 0..(n - 1)
      PROVE  /\ k \in 0..n /\ k + 1 \in 1..n /\ f[k] \in Text /\ b[k + 1] \in Chars
             /\ g[k + 1] = g[k] \o WordPiece(b[k + 1])
             /\ Drops(b, k + 1) => f[k + 1] = f[k]
             /\ ~Drops(b, k + 1) => f[k + 1] = Append(f[k], b[k + 1])
  <2>1. k + 1 \in 1..n /\ (k + 1) - 1 = k /\ k \in 0..n BY <1>1
  <2>2. f[k + 1] = f[k] \o p[k + 1] /\ g[k + 1] = g[k] \o w[k + 1]
    BY <1>2, <1>3, <2>1 DEF Pieces
  <2>3. f[k] \in Text /\ b[k + 1] \in Chars BY <1>1, <1>2, <2>1
  <2>4. w[k + 1] = WordPiece(b[k + 1]) BY <2>1
  <2>5. Drops(b, k + 1) => f[k + 1] = f[k]
    <3>1. Drops(b, k + 1) => p[k + 1] = << >> BY <2>1
    <3> QED BY <2>2, <2>3, <3>1, TextConcat
  <2>6. ~Drops(b, k + 1) => f[k + 1] = Append(f[k], b[k + 1])
    <3>1. ~Drops(b, k + 1) => p[k + 1] = <<b[k + 1]>> BY <2>1
    <3>2. f[k] \o <<b[k + 1]>> = Append(f[k], b[k + 1]) BY <2>3, TextConcat
    <3> HIDE DEF p
    <3> QED BY <2>2, <3>1, <3>2
  <2> QED BY <2>1, <2>2, <2>3, <2>4, <2>5, <2>6
<1> DEFINE T == {k \in 0..n : /\ Words(f[k]) = g[k]
                              /\ Cardinality(Places(f[k], LineMarks))
                                   = Cardinality(E \intersect (1..k))}
<1> HIDE DEF n, E, p, w
<1>6. 0 \in T
  <2>1. E \intersect (1..0) = {} OBVIOUS
  <2>2. Cardinality(E \intersect (1..0)) = 0 BY <2>1, FS_EmptySet
  <2>3. Cardinality(Places(<< >>, LineMarks)) = 0 BY PlacesEmpty
  <2> QED BY <1>1, <1>4, <2>2, <2>3, WordsEmpty
<1>7. ASSUME NEW k \in 0..(n - 1), k \in T PROVE k + 1 \in T
  <2> DEFINE c == b[k + 1]
  <2>1. Words(f[k]) = g[k]
        /\ Cardinality(Places(f[k], LineMarks)) = Cardinality(E \intersect (1..k))
    BY <1>7
  <2>2. /\ Cardinality(E \intersect (1..k)) \in Nat
        /\ Cardinality(E \intersect (1..(k + 1)))
             = Cardinality(E \intersect (1..k)) + (IF k + 1 \in E THEN 1 ELSE 0)
    BY <1>1, CountOneMore
  <2>3. k + 1 \in 0..n BY <1>1
  <2>4. k + 1 \in E <=> c \in LineMarks /\ ~Drops(b, k + 1) BY <1>1, <1>5
  <2> HIDE DEF T
  <2>5. CASE Drops(b, k + 1)
    <3>1. f[k + 1] = f[k] /\ k + 1 \notin E BY <1>5, <2>4, <2>5
    <3>2. WordPiece(c) = << >> BY <2>5 DEF Drops, WordPiece, LineMarks
    <3>3. g[k + 1] = g[k]
      <4>1. g[k] \in Text BY <1>3, <1>5
      <4> QED BY <1>5, <3>2, <4>1, TextConcat
    <3>4. Cardinality(E \intersect (1..(k + 1))) = Cardinality(E \intersect (1..k))
      BY <2>2, <3>1
    <3> QED BY <2>1, <2>3, <3>1, <3>3, <3>4 DEF T
  <2>6. CASE ~Drops(b, k + 1)
    <3>1. f[k + 1] = Append(f[k], c) /\ (k + 1 \in E <=> c \in LineMarks)
          /\ f[k] \in Text /\ c \in Chars
      BY <1>5, <2>4, <2>6
    <3>2. Words(Append(f[k], c)) = Words(f[k]) \o WordPiece(c) BY <3>1, WordsAppend
    <3>3. Words(f[k + 1]) = g[k + 1] BY <1>5, <2>1, <3>1, <3>2
    <3>4. Cardinality(Places(Append(f[k], c), LineMarks))
            = Cardinality(Places(f[k], LineMarks)) + (IF c \in LineMarks THEN 1 ELSE 0)
      <4> DEFINE s == f[k]
                 C == LineMarks
      <4>1. s \in Text /\ c \in Chars BY <3>1
      <4> HIDE DEF s, c, C
      <4>2. Cardinality(Places(Append(s, c), C))
              = Cardinality(Places(s, C)) + (IF c \in C THEN 1 ELSE 0)
        BY <4>1, PlacesAppend
      <4> QED BY <4>2 DEF s, C
    <3>5. Cardinality(Places(f[k + 1], LineMarks)) = Cardinality(E \intersect (1..(k + 1)))
      BY <2>1, <2>2, <3>1, <3>4
    <3> QED BY <2>3, <3>3, <3>5 DEF T
  <2> QED BY <2>5, <2>6
<1>8. n \in T
  <2> HIDE DEF T
  <2>1. \A k \in 0..(n - 1) : k \in T => k + 1 \in T BY <1>7
  <2>2. \A k \in 0..n : k \in T BY <1>1, <1>6, <2>1, UpTo, Zenon
  <2> QED BY <1>1, <2>2
<1>9. E \intersect (1..n) = E BY <1>1
<1>10. f[n] \in Text BY <1>1, <1>2
<1>11. ASSUME b = << >> PROVE f[n] = << >>
  <2>1. n = 0 BY <1>11 DEF n
  <2> QED BY <1>4, <2>1
<1>12. ASSUME b # << >> PROVE \E s \in Text : f[n] = Append(s, b[n])
  <2>1. n # 0 BY <1>12, EmptySeq DEF n, Text
  <2>2. n - 1 \in 0..(n - 1) /\ (n - 1) + 1 = n BY <1>1, <2>1
  <2>3. ~Drops(b, n)
    <3>1. n + 1 \notin DOMAIN b BY <1>1
    <3> QED BY <3>1 DEF Drops, At
  <2>4. f[n - 1] \in Text /\ (~Drops(b, n) => f[n] = Append(f[n - 1], b[n]))
    BY <1>5, <2>2
  <2> QED BY <2>3, <2>4
<1> HIDE DEF T
<1> QED BY <1>2, <1>3, <1>8, <1>9, <1>10, <1>11, <1>12 DEF T, E, n

(***************************************************************************)
(* The second pass: CR becomes LF                                          *)
(***************************************************************************)
NoCR(b) == \A i \in DOMAIN b : b[i] # "CR"

LEMMA SecondPass ==
    ASSUME NEW b \in Text
    PROVE  /\ crToLf(b) \in Text /\ Words(crToLf(b)) = Words(b) /\ NoCR(crToLf(b))
           /\ Places(crToLf(b), {"LF"}) = Places(b, LineMarks)
           /\ b = << >> => crToLf(b) = << >>
           /\ Len(crToLf(b)) = Len(b)
           /\ \A i \in DOMAIN b : crToLf(b)[i] = "LF" <=> b[i] \in LineMarks
<1> DEFINE n == Len(b)
           z == crToLf(b)
<1>1. n \in Nat /\ DOMAIN b = 1..n /\ \A i \in 1..n : b[i] \in Chars
  BY EndsInside
<1>2. /\ DOMAIN z = 1..n
      /\ \A i \in 1..n : z[i] = IF b[i] = "CR" THEN "LF" ELSE b[i]
      /\ z = [i \in 1..n |-> z[i]]
  BY <1>1 DEF crToLf
<1>3. "LF" \in Chars BY DEF Chars, LineMarks
<1> HIDE DEF n, z
<1>4. z \in Seq(Chars) /\ Len(z) = n
  <2>1. \A i \in 1..n : z[i] \in Chars BY <1>1, <1>2, <1>3
  <2>2. z \in [1..n -> Chars] BY <1>2, <2>1
  <2> QED BY <1>1, <2>2, FunctionIsSeq
<1>5. \A i \in 1..n : WordPiece(z[i]) = WordPiece(b[i])
  BY <1>2 DEF WordPiece, LineMarks
<1>6. Words(z) = Words(b)
  <2>1. Words(z) = FlattenSeq([i \in 1..n |-> WordPiece(z[i])])
    BY <1>2 DEF Words, WordPiece, LineMarks
  <2>2. Words(b) = FlattenSeq([i \in 1..n |-> WordPiece(b[i])])
    BY <1>1 DEF Words, WordPiece, LineMarks
  <2>3. [i \in 1..n |-> WordPiece(z[i])] = [i \in 1..n |-> WordPiece(b[i])]
    BY <1>5
  <2> QED BY <2>1, <2>2, <2>3
<1>7. NoCR(z) BY <1>2 DEF NoCR
<1>8. \A i \in 1..n : z[i] = "LF" <=> b[i] \in LineMarks BY <1>2 DEF LineMarks
<1>9. Places(z, {"LF"}) = Places(b, LineMarks) BY <1>1, <1>2, <1>8 DEF Places
<1>10. ASSUME b = << >> PROVE z = << >>
  <2>1. n = 0 BY <1>10 DEF n
  <2> QED BY <1>2, <2>1
<1> QED BY <1>1, <1>4, <1>6, <1>7, <1>8, <1>9, <1>10 DEF z, n, Text

(***************************************************************************)
(* The third pass: LF becomes CRLF                                         *)
(***************************************************************************)
LEMMA ThirdPassLoop ==
    ASSUME NEW b \in Text, NEW n, n = Len(b)
    PROVE  \E f \in [0..n -> Text] :
              /\ Pieces(f, n, [i \in 1..n |-> IF b[i] = "LF" THEN <<"CR", "LF">> ELSE <<b[i]>>])
              /\ lfToCrlf(b) = f[n]
<1> DEFINE p == [i \in 1..n |-> IF b[i] = "LF" THEN <<"CR", "LF">> ELSE <<b[i]>>]
           S == Chars
<1>1. n \in Nat /\ DOMAIN b = 1..n /\ \A i \in 1..n : b[i] \in Chars
  BY EndsInside
<1>2. p \in [1..n -> Seq(S)]
  <2>1. ASSUME NEW i \in 1..n
        PROVE (IF b[i] = "LF" THEN <<"CR", "LF">> ELSE <<b[i]>>) \in Seq(S)
    <3>1. b[i] \in S /\ "CR" \in S /\ "LF" \in S BY <1>1 DEF Chars, LineMarks
    <3> HIDE DEF S
    <3>2. <<"CR", "LF">> \in Seq(S) /\ <<b[i]>> \in Seq(S) BY <3>1
    <3> QED BY <3>2
  <2> QED BY <2>1
<1>3. lfToCrlf(b) = FlattenSeq(p)
  BY <1>1 DEF lfToCrlf
<1> HIDE DEF p, S
<1>4. \E f \in [0..n -> Seq(S)] : Pieces(f, n, p) /\ FlattenSeq(p) = f[n]
  BY <1>1, <1>2, FlattenSeqIs
<1> QED BY <1>3, <1>4 DEF p, S, Text

\* CRs and LFs come in pairs, the CR first, and the last character is known.
Paired(s) == /\ \A i \in DOMAIN s : (s[i] = "CR") <=> (At(s, i + 1) = "LF")
             /\ s # << >> => s[1] # "LF"
Closed(s) == s # << >> /\ s[Len(s)] = "LF"

LEMMA PairedWord ==
    ASSUME NEW s \in Text, Paired(s), NEW c \in Chars, c \notin LineMarks
    PROVE  Paired(Append(s, c)) /\ ~Closed(Append(s, c))
<1> DEFINE n == Len(s)
           t == Append(s, c)
<1>1. /\ n \in Nat /\ DOMAIN s = 1..n /\ DOMAIN t = 1..(n + 1) /\ Len(t) = n + 1
      /\ t[n + 1] = c /\ \A i \in 1..n : t[i] = s[i] /\ t \in Text
  BY TextAppend
<1>2. c # "CR" /\ c # "LF" BY DEF LineMarks
<1>3. s = << >> <=> n = 0 BY EmptySeq DEF Text
<1> HIDE DEF n, t
<1>4. ASSUME NEW i \in 1..(n + 1) PROVE (t[i] = "CR") <=> (At(t, i + 1) = "LF")
  <2>1. CASE i = n + 1
    <3>1. i + 1 \notin DOMAIN t BY <1>1, <2>1
    <3> QED BY <1>1, <1>2, <2>1, <3>1 DEF At
  <2>2. CASE i = n
    <3>1. i \in 1..n /\ i + 1 \notin DOMAIN s /\ i + 1 \in DOMAIN t /\ t[i + 1] = c
      BY <1>1, <2>2
    <3>2. At(s, i + 1) = "end" /\ At(t, i + 1) = c BY <3>1 DEF At
    <3>3. (s[i] = "CR") <=> (At(s, i + 1) = "LF") BY <1>1, <3>1 DEF Paired
    <3> QED BY <1>1, <1>2, <3>1, <3>2, <3>3
  <2>3. CASE i \in 1..(n - 1)
    <3>1. i \in 1..n /\ i + 1 \in 1..n /\ i + 1 \in 1..(n + 1) BY <1>1, <2>3
    <3>2. At(s, i + 1) = s[i + 1] /\ At(t, i + 1) = s[i + 1] BY <1>1, <3>1 DEF At
    <3>3. (s[i] = "CR") <=> (At(s, i + 1) = "LF") BY <1>1, <3>1 DEF Paired
    <3> QED BY <1>1, <3>1, <3>2, <3>3
  <2> QED BY <1>1, <2>1, <2>2, <2>3
<1>5. t[1] # "LF"
  <2>1. CASE n = 0 BY <1>1, <1>2, <2>1
  <2>2. CASE n # 0
    <3>1. 1 \in 1..n /\ s # << >> BY <1>1, <1>3, <2>2
    <3> QED BY <1>1, <3>1 DEF Paired
  <2> QED BY <2>1, <2>2
<1>6. Paired(t) BY <1>1, <1>4, <1>5 DEF Paired
<1>7. ~Closed(t) BY <1>1, <1>2 DEF Closed
<1> QED BY <1>6, <1>7 DEF t

LEMMA PairedEnd ==
    ASSUME NEW s \in Text, Paired(s)
    PROVE  /\ Paired(Append(Append(s, "CR"), "LF")) /\ Closed(Append(Append(s, "CR"), "LF"))
           /\ Append(Append(s, "CR"), "LF") \in Text
<1> DEFINE n == Len(s)
           r == Append(s, "CR")
           t == Append(r, "LF")
<1>1. "CR" \in Chars /\ "LF" \in Chars BY DEF Chars, LineMarks
<1>2. /\ n \in Nat /\ DOMAIN s = 1..n /\ DOMAIN r = 1..(n + 1) /\ Len(r) = n + 1
      /\ r[n + 1] = "CR" /\ \A i \in 1..n : r[i] = s[i] /\ r \in Text
  BY <1>1, TextAppend
<1>3. r \in Text
  BY <1>1, TextAppend
<1> HIDE DEF r
<1>4. /\ DOMAIN t = 1..((n + 1) + 1) /\ Len(t) = (n + 1) + 1 /\ t \in Text
      /\ t[(n + 1) + 1] = "LF" /\ \A i \in 1..(n + 1) : t[i] = r[i]
  <2>1. /\ DOMAIN t = 1..(Len(r) + 1) /\ Len(t) = Len(r) + 1 /\ t \in Text
        /\ t[Len(r) + 1] = "LF" /\ \A i \in 1..Len(r) : t[i] = r[i]
    BY <1>1, <1>3, TextAppend
  <2>2. Len(r) = n + 1 BY <1>2
  <2> HIDE DEF n, t
  <2> QED BY <2>1, <2>2
<1>5. s = << >> <=> n = 0 BY EmptySeq DEF Text
<1> HIDE DEF n, t
<1>6. /\ DOMAIN t = 1..(n + 2) /\ Len(t) = n + 2 /\ t[n + 2] = "LF" /\ t[n + 1] = "CR"
      /\ \A i \in 1..n : t[i] = s[i]
  BY <1>2, <1>4
<1>7. ASSUME NEW i \in 1..(n + 2) PROVE (t[i] = "CR") <=> (At(t, i + 1) = "LF")
  <2>1. CASE i = n + 2
    <3>1. i + 1 \notin DOMAIN t BY <1>2, <1>6, <2>1
    <3> QED BY <1>6, <2>1, <3>1 DEF At
  <2>2. CASE i = n + 1
    <3>1. i + 1 = n + 2 /\ i + 1 \in DOMAIN t BY <1>2, <1>6, <2>2
    <3> QED BY <1>6, <2>2, <3>1 DEF At
  <2>3. CASE i = n
    <3>1. i \in 1..n /\ i + 1 \notin DOMAIN s /\ i + 1 \in DOMAIN t /\ i + 1 = n + 1
      BY <1>2, <1>6, <2>3
    <3>2. At(s, i + 1) = "end" /\ At(t, i + 1) = "CR" BY <1>6, <3>1 DEF At
    <3>3. (s[i] = "CR") <=> (At(s, i + 1) = "LF") BY <1>2, <3>1 DEF Paired
    <3> QED BY <1>6, <3>1, <3>2, <3>3
  <2>4. CASE i \in 1..(n - 1)
    <3>1. i \in 1..n /\ i + 1 \in 1..n /\ i + 1 \in 1..(n + 2) BY <1>2, <2>4
    <3>2. At(s, i + 1) = s[i + 1] /\ At(t, i + 1) = s[i + 1] BY <1>2, <1>6, <3>1 DEF At
    <3>3. (s[i] = "CR") <=> (At(s, i + 1) = "LF") BY <1>2, <3>1 DEF Paired
    <3> QED BY <1>6, <3>1, <3>2, <3>3
  <2> QED BY <1>2, <2>1, <2>2, <2>3, <2>4
<1>8. t[1] # "LF"
  <2>1. CASE n = 0 BY <1>6, <2>1
  <2>2. CASE n # 0
    <3>1. 1 \in 1..n /\ s # << >> BY <1>2, <1>5, <2>2
    <3> QED BY <1>6, <3>1 DEF Paired
  <2> QED BY <2>1, <2>2
<1>9. Paired(t) BY <1>6, <1>7, <1>8 DEF Paired
<1>10. Closed(t)
  <2>1. t # << >> BY <1>2, <1>6
  <2> QED BY <1>6, <2>1 DEF Closed
<1> QED BY <1>4, <1>9, <1>10 DEF t, r

\* The third pass keeps words and line ends, and pairs every LF with a CR.
LEMMA ThirdPass ==
    ASSUME NEW b \in Text, NoCR(b)
    PROVE  /\ lfToCrlf(b) \in Text /\ Paired(lfToCrlf(b)) /\ Words(lfToCrlf(b)) = Words(b)
           /\ Cardinality(Places(lfToCrlf(b), {"LF"})) = Cardinality(Places(b, {"LF"}))
           /\ Closed(lfToCrlf(b)) <=> Closed(b)
<1> DEFINE n == Len(b)
           E == Places(b, {"LF"})
           p == [i \in 1..n |-> IF b[i] = "LF" THEN <<"CR", "LF">> ELSE <<b[i]>>]
           w == [i \in 1..n |-> WordPiece(b[i])]
<1>1. /\ n \in Nat /\ DOMAIN b = 1..n /\ \A i \in 1..n : b[i] \in Chars
  BY EndsInside
<1>2. E \in SUBSET (1..n) /\ \A i \in 1..n : i \in E <=> b[i] = "LF"
  BY <1>1 DEF Places
<1>3. \A i \in 1..n : b[i] # "LF" => b[i] \notin LineMarks
  BY <1>1 DEF NoCR, LineMarks
<1>4. PICK f \in [0..n -> Text] : Pieces(f, n, p) /\ lfToCrlf(b) = f[n]
  BY ThirdPassLoop
<1>5. PICK g \in [0..n -> Text] : Pieces(g, n, w) /\ Words(b) = g[n]
  BY WordsLoop
<1>6. f[0] = << >> /\ g[0] = << >> BY <1>4, <1>5 DEF Pieces
<1>7. ASSUME NEW k \in 0..(n - 1)
      PROVE  /\ k \in 0..n /\ k + 1 \in 1..n /\ f[k] \in Text /\ g[k] \in Text
             /\ b[k + 1] \in Chars
             /\ g[k + 1] = g[k] \o WordPiece(b[k + 1])
             /\ b[k + 1] = "LF" => f[k + 1] = Append(Append(f[k], "CR"), "LF")
             /\ b[k + 1] # "LF" => f[k + 1] = Append(f[k], b[k + 1])
  <2>1. k + 1 \in 1..n /\ (k + 1) - 1 = k /\ k \in 0..n BY <1>1
  <2>2. f[k + 1] = f[k] \o p[k + 1] /\ g[k + 1] = g[k] \o w[k + 1]
    BY <1>4, <1>5, <2>1 DEF Pieces
  <2>3. f[k] \in Text /\ g[k] \in Text /\ b[k + 1] \in Chars BY <1>1, <1>4, <1>5, <2>1
  <2>4. w[k + 1] = WordPiece(b[k + 1]) BY <2>1
  <2>5. /\ b[k + 1] = "LF" => p[k + 1] = <<"CR", "LF">>
        /\ b[k + 1] # "LF" => p[k + 1] = <<b[k + 1]>>
    BY <2>1
  <2>6. f[k] \o <<b[k + 1]>> = Append(f[k], b[k + 1])
        /\ f[k] \o <<"CR", "LF">> = Append(Append(f[k], "CR"), "LF")
    BY <2>3, TextConcat
  <2> HIDE DEF p, w
  <2> QED BY <2>1, <2>2, <2>3, <2>4, <2>5, <2>6
<1> DEFINE T == {k \in 0..n : /\ Paired(f[k]) /\ Words(f[k]) = g[k]
                              /\ Cardinality(Places(f[k], {"LF"}))
                                   = Cardinality(E \intersect (1..k))}
<1> HIDE DEF n, E, p, w
<1>8. 0 \in T
  <2>1. E \intersect (1..0) = {} OBVIOUS
  <2>2. Cardinality(E \intersect (1..0)) = 0 BY <2>1, FS_EmptySet
  <2>3. Cardinality(Places(<< >>, {"LF"})) = 0 BY PlacesEmpty
  <2>4. Paired(<< >>) BY DEF Paired
  <2> QED BY <1>1, <1>6, <2>2, <2>3, <2>4, WordsEmpty
<1>9. ASSUME NEW k \in 0..(n - 1), k \in T PROVE k + 1 \in T
  <2> DEFINE c == b[k + 1]
             s == f[k]
  <2>1. /\ Paired(s) /\ Words(s) = g[k]
        /\ Cardinality(Places(s, {"LF"})) = Cardinality(E \intersect (1..k))
    BY <1>9
  <2>2. /\ Cardinality(E \intersect (1..k)) \in Nat
        /\ Cardinality(E \intersect (1..(k + 1)))
             = Cardinality(E \intersect (1..k)) + (IF k + 1 \in E THEN 1 ELSE 0)
    BY <1>1, <1>2, CountOneMore
  <2>3. k + 1 \in 0..n /\ s \in Text /\ g[k] \in Text /\ c \in Chars BY <1>1, <1>7
  <2>4. k + 1 \in E <=> c = "LF" BY <1>1, <1>2, <1>7
  <2>5. "CR" \in Chars /\ "LF" \in Chars BY DEF Chars, LineMarks
  <2> HIDE DEF T
  <2>6. CASE c = "LF"
    <3> DEFINE r == Append(s, "CR")
    <3>1. f[k + 1] = Append(r, "LF") BY <1>7, <2>6
    <3>2. Paired(f[k + 1]) BY <2>1, <2>3, <3>1, PairedEnd
    <3>3. r \in Text BY <2>3, <2>5, TextAppend
    <3>4. WordPiece("CR") = << >> /\ WordPiece("LF") = << >> /\ WordPiece(c) = << >>
      BY <2>6 DEF WordPiece, LineMarks
    <3>5. Words(r) = Words(s)
      <4>1. Words(r) = Words(s) \o WordPiece("CR") /\ Words(s) \in Text
        BY <2>3, <2>5, WordsAppend
      <4> QED BY <3>4, <4>1, TextConcat
    <3>6. Words(f[k + 1]) = Words(s)
      <4>1. Words(Append(r, "LF")) = Words(r) \o WordPiece("LF") /\ Words(r) \in Text
        BY <2>5, <3>3, WordsAppend
      <4> HIDE DEF r
      <4> QED BY <3>1, <3>4, <3>5, <4>1, TextConcat
    <3>7. g[k + 1] = g[k]
      <4>1. g[k] \o << >> = g[k] BY <2>3, TextConcat
      <4> QED BY <1>7, <3>4, <4>1
    <3>8. Cardinality(Places(r, {"LF"})) = Cardinality(Places(s, {"LF"}))
      <4>1. Cardinality(Places(r, {"LF"}))
              = Cardinality(Places(s, {"LF"})) + (IF "CR" \in {"LF"} THEN 1 ELSE 0)
            /\ Cardinality(Places(s, {"LF"})) \in Nat
        BY <2>3, <2>5, PlacesAppend
      <4> QED BY <4>1
    <3>9. Cardinality(Places(Append(r, "LF"), {"LF"})) = Cardinality(Places(r, {"LF"})) + 1
      <4>1. Cardinality(Places(Append(r, "LF"), {"LF"}))
              = Cardinality(Places(r, {"LF"})) + (IF "LF" \in {"LF"} THEN 1 ELSE 0)
        BY <2>5, <3>3, PlacesAppend
      <4> QED BY <4>1
    <3>10. Cardinality(Places(f[k + 1], {"LF"})) = Cardinality(E \intersect (1..(k + 1)))
      BY <2>1, <2>2, <2>4, <2>6, <3>1, <3>8, <3>9
    <3> QED BY <2>1, <2>3, <3>2, <3>6, <3>7, <3>10 DEF T
  <2>7. CASE c # "LF"
    <3>1. f[k + 1] = Append(s, c) /\ k + 1 \notin E /\ c \notin LineMarks
      BY <1>3, <1>7, <2>4, <2>7
    <3>2. Paired(f[k + 1]) BY <2>1, <2>3, <3>1, PairedWord
    <3>3. Words(Append(s, c)) = Words(s) \o WordPiece(c) BY <2>3, WordsAppend
    <3>4. Words(f[k + 1]) = g[k + 1] BY <1>7, <2>1, <3>1, <3>3
    <3>5. Cardinality(Places(Append(s, c), {"LF"})) = Cardinality(Places(s, {"LF"}))
      <4> DEFINE C == {"LF"}
      <4>1. c \notin C BY <2>7
      <4> HIDE DEF C, c, s
      <4>2. /\ Cardinality(Places(s, C)) \in Nat
            /\ Cardinality(Places(Append(s, c), C))
                 = Cardinality(Places(s, C)) + (IF c \in C THEN 1 ELSE 0)
        BY <2>3, PlacesAppend
      <4>3. Cardinality(Places(Append(s, c), C)) = Cardinality(Places(s, C)) BY <4>1, <4>2
      <4> QED BY <4>3 DEF C
    <3>6. Cardinality(Places(f[k + 1], {"LF"})) = Cardinality(E \intersect (1..(k + 1)))
      BY <2>1, <2>2, <2>7, <3>1, <3>5
    <3> QED BY <2>3, <3>2, <3>4, <3>6 DEF T
  <2> QED BY <2>6, <2>7
<1>10. \A k \in 0..n : k \in T
  <2> HIDE DEF T
  <2>1. \A k \in 0..(n - 1) : k \in T => k + 1 \in T BY <1>9
  <2> QED BY <1>1, <1>8, <2>1, UpTo, Zenon
<1>11. E \intersect (1..n) = E BY <1>2
<1>12. n \in 0..n /\ f[n] \in Text BY <1>1, <1>4
<1>13. Closed(f[n]) <=> Closed(b)
  <2>1. CASE n = 0
    <3>1. b = << >> BY <2>1, EmptySeq DEF n, Text
    <3> QED BY <1>6, <2>1, <3>1 DEF Closed
  <2>2. CASE n # 0
    <3>1. n - 1 \in 0..(n - 1) /\ n - 1 \in 0..n /\ (n - 1) + 1 = n BY <1>1, <2>2
    <3>2. /\ f[n - 1] \in Text /\ b[n] \in Chars
          /\ b[n] = "LF" => f[n] = Append(Append(f[n - 1], "CR"), "LF")
          /\ b[n] # "LF" => f[n] = Append(f[n - 1], b[n])
      BY <1>7, <3>1
    <3>3. Paired(f[n - 1]) BY <1>10, <3>1
    <3>4. b # << >>
      <4>1. Len(<< >>) = 0 OBVIOUS
      <4> QED BY <2>2, <4>1 DEF n
    <3>5. Closed(b) <=> b[n] = "LF" BY <3>4 DEF Closed, n
    <3>6. CASE b[n] = "LF" BY <3>2, <3>3, <3>5, <3>6, PairedEnd
    <3>7. CASE b[n] # "LF"
      <4>1. b[n] \notin LineMarks BY <1>3, <3>1, <3>7, <1>1, <2>2
      <4>2. ~Closed(Append(f[n - 1], b[n])) BY <3>2, <3>3, <4>1, PairedWord
      <4> QED BY <3>2, <3>5, <3>7, <4>2
    <3> QED BY <3>6, <3>7
  <2> QED BY <2>1, <2>2
<1>14. Paired(f[n]) /\ Words(f[n]) = g[n]
       /\ Cardinality(Places(f[n], {"LF"})) = Cardinality(E \intersect (1..n))
  BY <1>10, <1>12
<1> HIDE DEF T
<1> QED BY <1>4, <1>5, <1>11, <1>12, <1>13, <1>14 DEF E

(***************************************************************************)
(* The text of the message                                                 *)
(***************************************************************************)
LEMMA EndsOfPaired ==
    ASSUME NEW t \in Text, Paired(t)
    PROVE  Ends(t) = Places(t, {"LF"})
BY DEF Paired, Ends, Places

LEMMA SuffixIs ==
    ASSUME NEW t \in Text, Paired(t)
    PROVE  IsSuffix(<<"CR", "LF">>, t) <=> Closed(t)
<1> DEFINE n == Len(t)
           u == <<"LF", "CR">>
           v == Reverse(t)
<1>1. n \in Nat /\ DOMAIN t = 1..n /\ \A i \in 1..n : t[i] \in Chars
  BY EndsInside
<1>2. t = << >> <=> n = 0 BY EmptySeq DEF Text
<1>3. Reverse(<<"CR", "LF">>) = u BY DEF Reverse
<1>4. v \in [1..n -> Chars] /\ \A i \in 1..n : v[i] = t[(n - i) + 1]
  <2>1. \A i \in 1..n : (n - i) + 1 \in 1..n BY <1>1
  <2> QED BY <1>1, <2>1 DEF Reverse
<1> HIDE DEF n, v
<1>5. v \in Seq(Chars) /\ Len(v) = n BY <1>1, <1>4, FunctionIsSeq
<1>6. IsSuffix(<<"CR", "LF">>, t) <=> 2 <= n /\ SubSeq(u, 1, 2) = SubSeq(v, 1, 2)
  <2>1. Len(u) = 2 OBVIOUS
  <2> QED BY <1>3, <1>5, <2>1 DEF IsSuffix, IsPrefix, v
<1>7. SubSeq(u, 1, 2) = u
  <2>1. "LF" \in LineMarks /\ "CR" \in LineMarks BY DEF LineMarks
  <2>2. u \in Seq(LineMarks) /\ Len(u) = 2 /\ u[1] = "LF" /\ u[2] = "CR" BY <2>1
  <2>3. u = <<u[1], u[2]>> OBVIOUS
  <2> HIDE DEF u
  <2>4. SubSeq(u, 1, 2) = <<u[1], u[2]>> BY <2>2, FirstTwo
  <2> QED BY <2>3, <2>4
<1>8. ASSUME 2 <= n PROVE SubSeq(v, 1, 2) = u <=> t[n] = "LF" /\ t[n - 1] = "CR"
  <2>1. v[1] = t[n] /\ v[2] = t[n - 1]
    <3>1. 1 \in 1..n /\ 2 \in 1..n /\ (n - 1) + 1 = n /\ (n - 2) + 1 = n - 1 BY <1>1, <1>8
    <3> QED BY <1>4, <3>1
  <2>2. SubSeq(v, 1, 2) = <<v[1], v[2]>> BY <1>5, <1>8, FirstTwo
  <2> QED BY <2>1, <2>2
<1>9. ASSUME Closed(t) PROVE 2 <= n /\ t[n] = "LF" /\ t[n - 1] = "CR"
  <2>1. t # << >> /\ t[n] = "LF" /\ t[1] # "LF" BY <1>9 DEF Closed, Paired, n
  <2>2. 2 <= n BY <1>1, <1>2, <2>1
  <2>3. n - 1 \in DOMAIN t /\ (n - 1) + 1 = n /\ n \in DOMAIN t BY <1>1, <2>2
  <2>4. At(t, (n - 1) + 1) = "LF" BY <2>1, <2>3 DEF At
  <2>5. t[n - 1] = "CR" BY <2>3, <2>4 DEF Paired
  <2> QED BY <2>1, <2>2, <2>5
<1>10. ASSUME 2 <= n, t[n] = "LF" PROVE Closed(t)
  <2>1. t # << >> BY <1>1, <1>2, <1>10
  <2> QED BY <1>10, <2>1 DEF Closed, n
<1> QED BY <1>6, <1>7, <1>8, <1>9, <1>10

\* What normalizeBody makes of a body.
LEMMA Normalized ==
    ASSUME NEW b \in Text
    PROVE  /\ normalizeBody(b) \in Text /\ Paired(normalizeBody(b))
           /\ Words(normalizeBody(b)) = Words(b)
           /\ Cardinality(Ends(normalizeBody(b))) = Cardinality(Ends(b))
           /\ Closed(normalizeBody(b)) <=> b # << >> /\ b[Len(b)] \in LineMarks
<1> DEFINE c == crlfToLf(b)
           z == crToLf(c)
           t == lfToCrlf(z)
<1>1. /\ c \in Text /\ Words(c) = Words(b)
      /\ Cardinality(Places(c, LineMarks)) = Cardinality(Ends(b))
      /\ b = << >> => c = << >>
      /\ b # << >> => \E s \in Text : c = Append(s, b[Len(b)])
  BY FirstPass
<1> HIDE DEF c
<1>2. /\ z \in Text /\ Words(z) = Words(c) /\ NoCR(z)
      /\ Places(z, {"LF"}) = Places(c, LineMarks)
      /\ c = << >> => z = << >>
      /\ Len(z) = Len(c) /\ \A i \in DOMAIN c : z[i] = "LF" <=> c[i] \in LineMarks
  BY <1>1, SecondPass
<1> HIDE DEF z
<1>3. /\ t \in Text /\ Paired(t) /\ Words(t) = Words(z)
      /\ Cardinality(Places(t, {"LF"})) = Cardinality(Places(z, {"LF"}))
      /\ Closed(t) <=> Closed(z)
  BY <1>2, ThirdPass
<1> HIDE DEF t
<1>4. Ends(t) = Places(t, {"LF"}) BY <1>3, EndsOfPaired
<1>5. CASE b = << >>
  <2>1. ~Closed(z) BY <1>1, <1>2, <1>5 DEF Closed
  <2> QED BY <1>1, <1>2, <1>3, <1>4, <1>5, <2>1 DEF t, z, c, normalizeBody
<1>6. CASE b # << >>
  <2> DEFINE n == Len(b)
  <2>1. n \in Nat /\ n # 0 /\ DOMAIN b = 1..n /\ \A i \in 1..n : b[i] \in Chars
    BY <1>6, EndsInside, EmptySeq DEF Text
  <2>2. n \in 1..n BY <2>1
  <2>3. b[n] \in Chars BY <2>1, <2>2
  <2> HIDE DEF n
  <2>4. PICK s \in Text : c = Append(s, b[n]) BY <1>1, <1>6 DEF n
  <2>5. /\ Len(s) \in Nat /\ Len(c) = Len(s) + 1 /\ c[Len(s) + 1] = b[n]
        /\ DOMAIN c = 1..(Len(s) + 1)
    BY <2>3, <2>4, TextAppend
  <2>6. z[Len(z)] = "LF" <=> b[n] \in LineMarks
    <3>1. Len(c) \in DOMAIN c /\ c[Len(c)] = b[n] BY <2>5
    <3> QED BY <1>2, <3>1
  <2>7. z # << >>
    <3>1. Len(z) # 0 BY <1>2, <2>5
    <3>2. Len(<< >>) = 0 OBVIOUS
    <3> QED BY <3>1, <3>2
  <2>8. Closed(z) <=> b[n] \in LineMarks BY <2>6, <2>7 DEF Closed
  <2> QED BY <1>1, <1>2, <1>3, <1>4, <1>6, <2>8 DEF t, z, c, normalizeBody, n
<1> QED BY <1>5, <1>6

\* What LinesPreserved says of a text and the body it was made of.
Preserves(text, body) ==
    LET missing == body = << >> \/ At(body, Len(body)) \notin {"CR", "LF"} IN
        /\ \A i \in DOMAIN text : (text[i] = "CR") <=> (At(text, i + 1) = "LF")
        /\ text[1] # "LF" /\ IsSuffix(<<"CR", "LF">>, text)
        /\ Words(text) = Words(body)
        /\ Cardinality(Ends(text)) = Cardinality(Ends(body)) + (IF missing THEN 1 ELSE 0)

FinalText(b) == LET text == normalizeBody(b) IN
                IF IsSuffix(<<"CR", "LF">>, text) THEN text ELSE text \o <<"CR", "LF">>

LEMMA TextIsPreserved ==
    ASSUME NEW b \in Text
    PROVE  Preserves(FinalText(b), b)
<1> DEFINE t == normalizeBody(b)
           r == Append(t, "CR")
           u == Append(r, "LF")
           missing == b = << >> \/ At(b, Len(b)) \notin {"CR", "LF"}
<1>1. /\ t \in Text /\ Paired(t) /\ Words(t) = Words(b)
      /\ Cardinality(Ends(t)) = Cardinality(Ends(b))
      /\ Closed(t) <=> b # << >> /\ b[Len(b)] \in LineMarks
  BY Normalized
<1>2. missing <=> ~Closed(t)
  <2>1. CASE b = << >> BY <1>1, <2>1
  <2>2. CASE b # << >>
    <3>1. Len(b) \in DOMAIN b BY <2>2, EndsInside, EmptySeq DEF Text
    <3>2. At(b, Len(b)) = b[Len(b)] BY <3>1 DEF At
    <3> QED BY <1>1, <2>2, <3>2 DEF LineMarks
  <2> QED BY <2>1, <2>2
<1>3. FinalText(b) = IF IsSuffix(<<"CR", "LF">>, t) THEN t ELSE t \o <<"CR", "LF">>
  BY DEF FinalText
<1> HIDE DEF t, missing
<1>4. IsSuffix(<<"CR", "LF">>, t) <=> Closed(t) BY <1>1, SuffixIs
<1>5. Ends(t) = Places(t, {"LF"}) BY <1>1, EndsOfPaired
<1>6. "CR" \in Chars /\ "LF" \in Chars BY DEF Chars, LineMarks
<1>7. CASE Closed(t)
  <2>1. FinalText(b) = t /\ ~missing BY <1>2, <1>3, <1>4, <1>7
  <2>2. t # << >> BY <1>7 DEF Closed
  <2>3. Cardinality(Ends(b)) \in Nat
    <3>1. Cardinality(Places(t, {"LF"})) \in Nat BY <1>1, <1>6, PlacesAppend
    <3> QED BY <1>1, <1>5, <3>1
  <2>4. \A i \in DOMAIN t : (t[i] = "CR") <=> (At(t, i + 1) = "LF")
    BY <1>1 DEF Paired
  <2>5. t[1] # "LF" BY <1>1, <2>2 DEF Paired
  <2>6. Cardinality(Ends(t)) = Cardinality(Ends(b)) + (IF missing THEN 1 ELSE 0)
    BY <1>1, <2>1, <2>3
  <2>7. Preserves(t, b)
    BY <1>1, <1>4, <1>7, <2>4, <2>5, <2>6, Zenon DEF Preserves, missing
  <2> QED BY <2>1, <2>7
<1>8. CASE ~Closed(t)
  <2>1. FinalText(b) = u /\ missing
    <3>1. t \o <<"CR", "LF">> = u BY <1>1, TextConcat
    <3> QED BY <1>2, <1>3, <1>4, <1>8, <3>1
  <2>2. Paired(u) /\ Closed(u) /\ u \in Text BY <1>1, PairedEnd
  <2>3. r \in Text BY <1>1, <1>6, TextAppend
  <2>4. WordPiece("CR") = << >> /\ WordPiece("LF") = << >> BY DEF WordPiece, LineMarks
  <2>5. Words(r) = Words(t)
    <3>1. Words(r) = Words(t) \o WordPiece("CR") /\ Words(t) \in Text
      BY <1>1, <1>6, WordsAppend
    <3> QED BY <2>4, <3>1, TextConcat
  <2>6. Cardinality(Places(r, {"LF"})) = Cardinality(Places(t, {"LF"}))
        /\ Cardinality(Places(t, {"LF"})) \in Nat
    <3>1. Cardinality(Places(r, {"LF"}))
            = Cardinality(Places(t, {"LF"})) + (IF "CR" \in {"LF"} THEN 1 ELSE 0)
          /\ Cardinality(Places(t, {"LF"})) \in Nat
      BY <1>1, <1>6, PlacesAppend
    <3> QED BY <3>1
  <2> HIDE DEF r
  <2>7. Words(u) = Words(t)
    <3>1. Words(u) = Words(r) \o WordPiece("LF") /\ Words(r) \in Text
      BY <1>6, <2>3, WordsAppend
    <3> QED BY <2>4, <2>5, <3>1, TextConcat
  <2>8. Cardinality(Places(u, {"LF"})) = Cardinality(Places(r, {"LF"})) + 1
    <3>1. Cardinality(Places(u, {"LF"}))
            = Cardinality(Places(r, {"LF"})) + (IF "LF" \in {"LF"} THEN 1 ELSE 0)
      BY <1>6, <2>3, PlacesAppend
    <3> QED BY <3>1
  <2> HIDE DEF u
  <2>9. Ends(u) = Places(u, {"LF"}) BY <2>2, EndsOfPaired
  <2>10. IsSuffix(<<"CR", "LF">>, u) BY <2>2, SuffixIs
  <2>11. \A i \in DOMAIN u : (u[i] = "CR") <=> (At(u, i + 1) = "LF")
    BY <2>2 DEF Paired
  <2>12. u[1] # "LF" BY <2>2 DEF Paired, Closed
  <2>13. Cardinality(Ends(u)) = Cardinality(Ends(b)) + (IF missing THEN 1 ELSE 0)
    BY <1>1, <1>5, <2>1, <2>6, <2>8, <2>9
  <2>14. Words(u) = Words(b) BY <1>1, <2>7
  <2>15. Preserves(u, b)
    BY <2>10, <2>11, <2>12, <2>13, <2>14, Zenon DEF Preserves, missing
  <2> QED BY <2>1, <2>15
<1> QED BY <1>7, <1>8

(***************************************************************************)
(* The headers of the message                                              *)
(***************************************************************************)
\* buildEmail's own lines, before the configured ones.
Own(l) == <<Line("From", <<l.from>>), Line("To", l.to), Line("Subject", << >>),
            Line("MIME-Version", << >>), Line("Content-Type", << >>),
            Line("Content-Transfer-Encoding", << >>)>>
              \o (IF l.cc = << >> THEN << >> ELSE <<Line("Cc", l.cc)>>)

Configured(names) == [i \in 1..Cardinality(names) |-> Line(SetToSeq(names)[i], << >>)]

Unique(lines) == \A i, j \in DOMAIN lines : lines[i].name = lines[j].name => i = j

LEMMA NothingShown == ToSet(<< >>) = {}
BY DEF ToSet

LEMMA Seventh ==
    ASSUME NEW S, NEW u \in Seq(S), NEW g \in S
    PROVE  Len(u) = 6 => /\ Append(u, g) \in Seq(S) /\ Len(Append(u, g)) = 7
                         /\ Append(u, g)[7] = g
                         /\ \A i \in 1..6 : Append(u, g)[i] = u[i]
<1> DEFINE v == Append(u, g)
<1>1. /\ v \in Seq(S) /\ Len(v) = Len(u) + 1
      /\ v[Len(u) + 1] = g /\ \A i \in 1..Len(u) : v[i] = u[i]
  BY AppendIs
<1> HIDE DEF v
<1>2. ASSUME Len(u) = 6
      PROVE  v \in Seq(S) /\ Len(v) = 7 /\ v[7] = g /\ \A i \in 1..6 : v[i] = u[i]
  BY <1>1, <1>2
<1> QED BY <1>2 DEF v

LEMMA SevenLines ==
    ASSUME NEW a, NEW b, NEW c, NEW d, NEW e, NEW f, NEW g
    PROVE  /\ <<a, b, c, d, e, f>> \o <<g>> = <<a, b, c, d, e, f, g>>
           /\ <<a, b, c, d, e, f>> \o << >> = <<a, b, c, d, e, f>>
<1> DEFINE S == {a, b, c, d, e, f, g}
<1>0. a \in S /\ b \in S /\ c \in S /\ d \in S /\ e \in S /\ f \in S /\ g \in S
  OBVIOUS
<1> HIDE DEF S
<1>1. <<a, b, c, d, e, f>> \in Seq(S)
  <2>1. <<a, b, c, d, e, f>> \in [1..6 -> S] BY <1>0
  <2> QED BY <2>1, FunctionIsSeq
<1>2. Append(<<a, b, c, d, e, f>>, g) = <<a, b, c, d, e, f, g>>
  <2> DEFINE u == <<a, b, c, d, e, f>>
             v == Append(u, g)
             w == <<a, b, c, d, e, f, g>>
  <2>1. w \in [1..7 -> S] BY <1>0
  <2>2. w \in Seq(S) /\ Len(w) = 7 BY <2>1, FunctionIsSeq
  <2>3. Len(u) = 6 /\ u \in Seq(S) BY <1>1
  <2>4. u[1] = a /\ u[2] = b /\ u[3] = c /\ u[4] = d /\ u[5] = e /\ u[6] = f OBVIOUS
  <2>5. w[1] = a /\ w[2] = b /\ w[3] = c /\ w[4] = d /\ w[5] = e /\ w[6] = f /\ w[7] = g
    OBVIOUS
  <2> HIDE DEF u, w
  <2>6. v \in Seq(S) /\ Len(v) = 7 /\ v[7] = g /\ \A i \in 1..6 : v[i] = u[i]
    BY <1>0, <2>3, Seventh
  <2> HIDE DEF v
  <2>7. v[1] = a /\ v[2] = b /\ v[3] = c /\ v[4] = d /\ v[5] = e /\ v[6] = f
    BY <2>4, <2>6
  <2>8. \A i \in 1..7 : i = 1 \/ i = 2 \/ i = 3 \/ i = 4 \/ i = 5 \/ i = 6 \/ i = 7
    OBVIOUS
  <2>9. \A i \in 1..7 : v[i] = w[i] BY <2>5, <2>6, <2>7, <2>8
  <2>10. v = w BY <2>2, <2>6, <2>9, SeqEqual
  <2> QED BY <2>10 DEF v, w, u
<1>3. <<a, b, c, d, e, f>> \o <<g>> = Append(<<a, b, c, d, e, f>>, g)
  BY <1>0, <1>1, AppendIsConcat
<1>4. <<a, b, c, d, e, f>> \o << >> = <<a, b, c, d, e, f>> BY <1>1, ConcatEmptySeq
<1> QED BY <1>2, <1>3, <1>4

LEMMA OwnLines ==
    ASSUME NEW l
    PROVE  /\ Own(l) \in Seq({Own(l)[i] : i \in DOMAIN Own(l)})
           /\ \A i \in DOMAIN Own(l) : isReservedHeader(Own(l)[i].name)
           /\ Unique(Own(l))
           /\ UNION {Own(l)[i].shown : i \in DOMAIN Own(l)}
                = {l.from} \union ToSet(l.to) \union ToSet(l.cc)
<1> DEFINE a == Line("From", <<l.from>>)
           b == Line("To", l.to)
           c == Line("Subject", << >>)
           d == Line("MIME-Version", << >>)
           e == Line("Content-Type", << >>)
           f == Line("Content-Transfer-Encoding", << >>)
           g == Line("Cc", l.cc)
           B == Own(l)
<1>1. /\ a.name = "From" /\ b.name = "To" /\ c.name = "Subject" /\ d.name = "MIME-Version"
      /\ e.name = "Content-Type" /\ f.name = "Content-Transfer-Encoding" /\ g.name = "Cc"
  BY DEF Line
<1>2. /\ a.shown = {l.from} /\ b.shown = ToSet(l.to) /\ c.shown = {} /\ d.shown = {}
      /\ e.shown = {} /\ f.shown = {} /\ g.shown = ToSet(l.cc)
  <2>1. ToSet(<<l.from>>) = {l.from} BY DEF ToSet
  <2> QED BY <2>1, NothingShown DEF Line
<1> HIDE DEF a, b, c, d, e, f, g
<1>6. /\ <<a, b, c, d, e, f>> \o <<g>> = <<a, b, c, d, e, f, g>>
      /\ <<a, b, c, d, e, f>> \o << >> = <<a, b, c, d, e, f>>
  BY SevenLines
<1>7. B = <<a, b, c, d, e, f>> \o (IF l.cc = << >> THEN << >> ELSE <<g>>)
  BY DEF Own, a, b, c, d, e, f, g
<1> HIDE DEF B
<1>3. CASE l.cc = << >>
  <2>1. B = <<a, b, c, d, e, f>> BY <1>3, <1>6, <1>7
  <2>2. DOMAIN B = 1..6 /\ B[1] = a /\ B[2] = b /\ B[3] = c /\ B[4] = d /\ B[5] = e /\ B[6] = f
    BY <2>1
  <2>3. \A i \in 1..6 : i = 1 \/ i = 2 \/ i = 3 \/ i = 4 \/ i = 5 \/ i = 6 OBVIOUS
  <2>4. \A i \in DOMAIN B : isReservedHeader(B[i].name)
    BY <1>1, <2>2, <2>3 DEF isReservedHeader
  <2>5. Unique(B) BY <1>1, <2>2, <2>3 DEF Unique
  <2>6. UNION {B[i].shown : i \in DOMAIN B} = {l.from} \union ToSet(l.to) \union ToSet(l.cc)
    <3>1. ToSet(l.cc) = {} BY <1>3, NothingShown
    <3>2. /\ 1 \in DOMAIN B /\ 2 \in DOMAIN B
          /\ \A i \in DOMAIN B : B[i].shown \in {{}, {l.from}, ToSet(l.to)}
      BY <1>2, <2>2, <2>3
    <3>3. B[1].shown = {l.from} /\ B[2].shown = ToSet(l.to) BY <1>2, <2>2
    <3> QED BY <3>1, <3>2, <3>3
  <2>7. B \in Seq({B[i] : i \in DOMAIN B})
    <3>1. B \in [1..6 -> {B[i] : i \in DOMAIN B}] BY <2>1, <2>2
    <3> QED BY <3>1, FunctionIsSeq
  <2> QED BY <2>4, <2>5, <2>6, <2>7 DEF B
<1>4. CASE l.cc # << >>
  <2>1. B = <<a, b, c, d, e, f, g>> BY <1>4, <1>6, <1>7
  <2>2. /\ DOMAIN B = 1..7 /\ B[1] = a /\ B[2] = b /\ B[3] = c /\ B[4] = d /\ B[5] = e
        /\ B[6] = f /\ B[7] = g
    BY <2>1
  <2>3. \A i \in 1..7 : i = 1 \/ i = 2 \/ i = 3 \/ i = 4 \/ i = 5 \/ i = 6 \/ i = 7 OBVIOUS
  <2>4. \A i \in DOMAIN B : isReservedHeader(B[i].name)
    BY <1>1, <2>2, <2>3 DEF isReservedHeader
  <2>5. Unique(B) BY <1>1, <2>2, <2>3 DEF Unique
  <2>6. UNION {B[i].shown : i \in DOMAIN B} = {l.from} \union ToSet(l.to) \union ToSet(l.cc)
    <3>1. /\ 1 \in DOMAIN B /\ 2 \in DOMAIN B /\ 7 \in DOMAIN B
          /\ \A i \in DOMAIN B : B[i].shown \in {{}, {l.from}, ToSet(l.to), ToSet(l.cc)}
      BY <1>2, <2>2, <2>3
    <3>2. B[1].shown = {l.from} /\ B[2].shown = ToSet(l.to) /\ B[7].shown = ToSet(l.cc)
      BY <1>2, <2>2
    <3> QED BY <3>1, <3>2
  <2>7. B \in Seq({B[i] : i \in DOMAIN B})
    <3>1. B \in [1..7 -> {B[i] : i \in DOMAIN B}] BY <2>1, <2>2
    <3> QED BY <3>1, FunctionIsSeq
  <2> QED BY <2>4, <2>5, <2>6, <2>7 DEF B
<1> QED BY <1>3, <1>4

\* Two lists of lines without a common name.
LEMMA LinesTogether ==
    ASSUME NEW S, NEW B \in Seq(S), NEW H \in Seq(S), Unique(B), Unique(H),
           \A i \in DOMAIN B : \A j \in DOMAIN H : B[i].name # H[j].name,
           \A j \in DOMAIN H : H[j].shown = {}
    PROVE  /\ Unique(B \o H)
           /\ UNION {(B \o H)[i].shown : i \in DOMAIN (B \o H)}
                = UNION {B[i].shown : i \in DOMAIN B}
<1> DEFINE L == B \o H
           m == Len(B)
           n == Len(H)
<1>1. /\ m \in Nat /\ n \in Nat /\ DOMAIN B = 1..m /\ DOMAIN H = 1..n /\ DOMAIN L = 1..(m + n)
      /\ \A i \in 1..m : L[i] = B[i]
      /\ \A i \in (m + 1)..(m + n) : L[i] = H[i - m]
  OBVIOUS
<1> HIDE DEF L, m, n
<1>2. \A i \in 1..(m + n) : i \in 1..m \/ i \in (m + 1)..(m + n) BY <1>1
<1>3. \A i \in (m + 1)..(m + n) : i - m \in 1..n BY <1>1
<1>4. ASSUME NEW i \in 1..(m + n), NEW j \in 1..(m + n), L[i].name = L[j].name PROVE i = j
  <2>1. CASE i \in 1..m /\ j \in 1..m BY <1>1, <1>4, <2>1 DEF Unique
  <2>2. CASE i \in 1..m /\ j \in (m + 1)..(m + n)
    <3>1. j - m \in 1..n /\ B[i].name = H[j - m].name BY <1>1, <1>3, <1>4, <2>2
    <3> QED BY <1>1, <2>2, <3>1
  <2>3. CASE i \in (m + 1)..(m + n) /\ j \in 1..m
    <3>1. i - m \in 1..n /\ H[i - m].name = B[j].name BY <1>1, <1>3, <1>4, <2>3
    <3> QED BY <1>1, <2>3, <3>1
  <2>4. CASE i \in (m + 1)..(m + n) /\ j \in (m + 1)..(m + n)
    <3>1. i - m \in 1..n /\ j - m \in 1..n /\ H[i - m].name = H[j - m].name
      BY <1>1, <1>3, <1>4, <2>4
    <3>2. i - m = j - m BY <1>1, <3>1 DEF Unique
    <3> QED BY <1>1, <3>2
  <2> QED BY <1>2, <2>1, <2>2, <2>3, <2>4
<1>5. Unique(L) BY <1>1, <1>4 DEF Unique
<1>6. \A i \in 1..m : i \in 1..(m + n) /\ L[i].shown = B[i].shown BY <1>1
<1>7. \A i \in (m + 1)..(m + n) : L[i].shown = {} BY <1>1, <1>3
<1>8. UNION {L[i].shown : i \in 1..(m + n)} = UNION {B[i].shown : i \in 1..m}
  BY <1>2, <1>6, <1>7
<1> QED BY <1>1, <1>5, <1>8 DEF L

LEMMA ConfiguredLines ==
    ASSUME NEW names, IsFiniteSet(names)
    PROVE  /\ Configured(names) \in Seq({Line(x, << >>) : x \in names}) /\ Unique(Configured(names))
           /\ \A j \in DOMAIN Configured(names) : /\ Configured(names)[j].name \in names
                                              /\ Configured(names)[j].shown = {}
<1> DEFINE n == Cardinality(names)
           H == Configured(names)
           s == SetToSeq(names)
<1>1. n \in Nat /\ s \in [1..n -> names] /\ \A i, j \in 1..n : s[i] = s[j] => i = j
  BY SetToSeqLists
<1>2. H = [i \in 1..n |-> Line(s[i], << >>)] BY DEF Configured
<1> HIDE DEF n, H, s
<1>3. /\ DOMAIN H = 1..n
      /\ \A i \in 1..n : H[i] = Line(s[i], << >>) /\ s[i] \in names
  BY <1>1, <1>2
<1>4. \A i \in 1..n : H[i].name = s[i] /\ H[i].shown = {} BY <1>3, NothingShown DEF Line
<1>5. H \in Seq({Line(x, << >>) : x \in names})
  <2>1. H \in [1..n -> {Line(x, << >>) : x \in names}] BY <1>1, <1>2
  <2> QED BY <1>1, <2>1, FunctionIsSeq
<1>6. Unique(H) BY <1>1, <1>3, <1>4 DEF Unique
<1> QED BY <1>3, <1>4, <1>5, <1>6 DEF H

LEMMA HeadersAreTruthful ==
    ASSUME NEW l, IsFiniteSet(l.headers), \A name \in l.headers : ~isReservedHeader(name)
    PROVE  /\ Unique(buildEmail(l).lines)
           /\ UNION {buildEmail(l).lines[i].shown : i \in DOMAIN buildEmail(l).lines}
                = {l.from} \union ToSet(l.to) \union ToSet(l.cc)
<1> DEFINE B == Own(l)
           H == Configured(l.headers)
           S == {B[i] : i \in DOMAIN B} \union {Line(x, << >>) : x \in l.headers}
<1>1. buildEmail(l).lines = B \o H
  BY DEF buildEmail, appendHeaders, Own, Configured
<1>2. /\ B \in Seq({B[i] : i \in DOMAIN B}) /\ Unique(B)
      /\ \A i \in DOMAIN B : isReservedHeader(B[i].name)
      /\ UNION {B[i].shown : i \in DOMAIN B} = {l.from} \union ToSet(l.to) \union ToSet(l.cc)
  BY OwnLines
<1>3. /\ H \in Seq({Line(x, << >>) : x \in l.headers}) /\ Unique(H)
      /\ \A j \in DOMAIN H : H[j].name \in l.headers /\ H[j].shown = {}
  BY ConfiguredLines
<1> HIDE DEF B, H
<1>4. B \in Seq(S) /\ H \in Seq(S) BY <1>2, <1>3
<1>5. \A i \in DOMAIN B : \A j \in DOMAIN H : B[i].name # H[j].name BY <1>2, <1>3
<1> HIDE DEF S
<1>6. /\ Unique(B \o H)
      /\ UNION {(B \o H)[i].shown : i \in DOMAIN (B \o H)} = UNION {B[i].shown : i \in DOMAIN B}
  BY <1>2, <1>3, <1>4, <1>5, LinesTogether
<1> QED BY <1>1, <1>2, <1>6

(***************************************************************************)
(* The invariant                                                           *)
(***************************************************************************)
MInv ==
    /\ letter \in Letters
    /\ pc = "begin" => cfg \in Configs /\ msg = Unbuilt /\ Fits(cfg, letter)
    /\ HeadersTruthful /\ LinesPreserved

\* Only SendResult's start leaves the first stage.
LEMMA StepFromBegin ==
    ASSUME Next
    PROVE  UNCHANGED <<cfg, pc>> \/ Begin \/ (pc # "begin" /\ pc' # "begin")
<1>1. CASE CtxEnds \/ Expire \/ Watch \/ ServerStores \/ Terminated
  BY <1>1 DEF CtxEnds, Expire, Watch, ServerStores, Terminated, vars
<1>2. CASE \E e : (pc # "begin" /\ Fail(e))
  BY <1>2 DEF Fail
<1>3. CASE \E from, to : from # "begin" /\ to # "begin" /\ Stage(from, to)
  BY <1>3 DEF Stage, Enter
<1>4. CASE DialFails \/ CtxInterrupts \/ PeerRefuses \/ TimesOut \/ FindsClosed
  <2>1. "begin" \notin Waiting /\ "begin" \notin Commands BY DEF Waiting, Handshakes, Commands
  <2>2. CASE DialFails BY <1>2, <2>2 DEF DialFails
  <2>3. CASE CtxInterrupts BY <1>2, <2>3 DEF CtxInterrupts
  <2>4. CASE PeerRefuses BY <1>2, <2>1, <2>4 DEF PeerRefuses
  <2>5. CASE TimesOut BY <1>2, <2>1, <2>5 DEF TimesOut
  <2>6. CASE FindsClosed BY <1>2, <2>1, <2>6 DEF FindsClosed
  <2> QED BY <1>4, <2>2, <2>3, <2>4, <2>5, <2>6
<1>5. Connected(cfg) # "begin" BY DEF Connected
<1>6. CASE Dial BY <1>5, <1>6 DEF Dial, Fail, Enter
<1>7. CASE ProxySecured \/ TunnelOpen \/ ImplicitSecure \/ Greeted \/ StartTLS
  BY <1>3, <1>5, <1>7 DEF ProxySecured, TunnelOpen, ImplicitSecure, Greeted, StartTLS
<1>8. CASE Auth \/ Mail \/ Rcpt \/ Data \/ Write \/ Acknowledged
  BY <1>3, <1>8 DEF Auth, Mail, Rcpt, Data, Write, Acknowledged
<1>9. CASE Hello BY <1>9 DEF Hello, Stage, Enter, Fail
<1>10. CASE CheckCtx BY <1>10 DEF CheckCtx, Enter, Fail, Checks
<1>11. CASE GiveUp \/ Close \/ Settle BY <1>11 DEF GiveUp, Close, Settle
<1>12. CASE GivesUpAnswered \/ GivesUpAlone BY <1>11, <1>12 DEF GivesUpAnswered, GivesUpAlone
<1> QED BY <1>1, <1>4, <1>6, <1>7, <1>8, <1>9, <1>10, <1>11, <1>12, Zenon DEF Next, Peer, Program

\* A configuration is dialed only if it is valid, and then has no reserved header.
LEMMA DialsWithoutReserved ==
    ASSUME cfg \in Configs, Fits(cfg, letter), Next, pc = "begin", pc' = "dial"
    PROVE  \A name \in letter.headers : ~isReservedHeader(name)
<1>1. Begin BY StepFromBegin
<1>2. cfg' = applyDefaults(cfg) /\ Valid(cfg') BY <1>1 DEF Begin
<1>3. cfg \in Config BY ConfigsAssumption
<1>4. applyDefaults(cfg).headers = cfg.headers BY <1>3 DEF applyDefaults, Config
<1>5. \A h \in cfg.headers : h.name # "reserved"
  BY <1>2, <1>4 DEF Valid, validateSMTPConfig, validateHeaders
<1> QED BY <1>5 DEF Fits

LEMMA BuiltIsTruthful ==
    ASSUME letter \in Letters, \A name \in letter.headers : ~isReservedHeader(name),
           msg = buildEmail(letter)
    PROVE  HeadersTruthful /\ LinesPreserved
<1>1. IsFiniteSet(letter.headers) /\ letter.body \in Seq(STRING) BY LettersAssumption
<1>2. letter.body \in Text
  <2>1. STRING \subseteq Chars BY DEF Chars
  <2> QED BY <1>1, <2>1, SeqMonotonic DEF Text
<1>3. /\ Unique(msg.lines)
      /\ UNION {msg.lines[i].shown : i \in DOMAIN msg.lines}
           = {letter.from} \union ToSet(letter.to) \union ToSet(letter.cc)
  BY <1>1, HeadersAreTruthful
<1>4. msg.text = FinalText(letter.body) BY DEF buildEmail, FinalText
<1>5. Preserves(msg.text, letter.body) BY <1>2, <1>4, TextIsPreserved
<1>6. HeadersTruthful
  BY <1>3, Zenon DEF HeadersTruthful, BccStaysHidden, HeadersUnique, Unique
<1>7. LinesPreserved BY <1>5, Zenon DEF LinesPreserved, Preserves
<1> QED BY <1>6, <1>7

LEMMA BuiltPrimed ==
    ASSUME letter' \in Letters, \A name \in letter'.headers : ~isReservedHeader(name),
           msg' = buildEmail(letter')
    PROVE  HeadersTruthful' /\ LinesPreserved'
<1>1. (letter \in Letters /\ (\A name \in letter.headers : ~isReservedHeader(name))
         /\ msg = buildEmail(letter) => HeadersTruthful /\ LinesPreserved)'
  BY BuiltIsTruthful, PTL
<1> QED BY <1>1

LEMMA UnbuiltIsFine == msg = Unbuilt => HeadersTruthful /\ LinesPreserved
BY Zenon DEF HeadersTruthful, BccStaysHidden, HeadersUnique, LinesPreserved, Built

LEMMA SameMessage ==
    ASSUME HeadersTruthful, LinesPreserved, UNCHANGED <<letter, msg>>
    PROVE  HeadersTruthful' /\ LinesPreserved'
<1>1. letter' = letter /\ msg' = msg OBVIOUS
<1>2. HeadersTruthful'
  BY <1>1 DEF HeadersTruthful, BccStaysHidden, HeadersUnique, Built
<1>3. LinesPreserved'
  BY <1>1 DEF LinesPreserved, Built
<1> QED BY <1>2, <1>3

LEMMA MessageStep == MInv /\ [MNext]_<<vars, letter, msg>> => MInv'
<1> SUFFICES ASSUME MInv, [MNext]_<<vars, letter, msg>> PROVE MInv'
  OBVIOUS
<1>1. CASE UNCHANGED <<vars, letter, msg>>
  <2>1. /\ letter' = letter /\ msg' = msg /\ pc' = pc /\ cfg' = cfg BY <1>1 DEF vars
  <2>2. HeadersTruthful' /\ LinesPreserved' BY <2>1, SameMessage DEF MInv
  <2>3. Fits(cfg, letter)' <=> Fits(cfg, letter) BY <2>1 DEF Fits
  <2> QED BY <2>1, <2>2, <2>3 DEF MInv, Unbuilt
<1>2. CASE MNext /\ pc = "begin" /\ pc' = "dial"
  <2>1. Next /\ letter' = letter /\ msg' = buildEmail(letter) BY <1>2 DEF MNext
  <2>2. cfg \in Configs /\ Fits(cfg, letter) /\ letter \in Letters BY <1>2 DEF MInv
  <2>3. \A name \in letter.headers : ~isReservedHeader(name)
    BY <1>2, <2>1, <2>2, DialsWithoutReserved
  <2>4. letter' \in Letters /\ msg' = buildEmail(letter') BY <2>1, <2>2
  <2>5. \A name \in letter'.headers : ~isReservedHeader(name) BY <2>1, <2>3
  <2>6. HeadersTruthful' /\ LinesPreserved'
    BY <2>4, <2>5, BuiltPrimed, Zenon
  <2> QED BY <1>2, <2>4, <2>6 DEF MInv
<1>3. CASE MNext /\ ~(pc = "begin" /\ pc' = "dial")
  <2>1. Next /\ letter' = letter /\ msg' = msg BY <1>3 DEF MNext
  <2>2. HeadersTruthful' /\ LinesPreserved' BY <2>1, SameMessage DEF MInv
  <2>3. pc' = "begin" => pc = "begin" /\ cfg' = cfg
    <3>1. Begin => pc' # "begin" BY DEF Begin
    <3> QED BY <2>1, <3>1, StepFromBegin
  <2>4. (pc' = "begin") => (Fits(cfg, letter)' <=> Fits(cfg, letter)) BY <2>1, <2>3 DEF Fits
  <2> QED BY <2>1, <2>2, <2>3, <2>4 DEF MInv, Unbuilt
<1> QED BY <1>1, <1>2, <1>3

LEMMA MessageInvariance == MSpec => []MInv
<1>1. MInit => MInv
  <2> SUFFICES ASSUME MInit PROVE MInv
    OBVIOUS
  <2>1. msg = Unbuilt /\ letter \in Letters /\ Fits(cfg, letter) BY DEF MInit
  <2>2. cfg \in Configs BY DEF MInit, Init
  <2> QED BY <2>1, <2>2, UnbuiltIsFine DEF MInv
<1> QED BY <1>1, MessageStep, PTL DEF MSpec

\* email.go:601-609, 675-690.  Whatever letter is sent, its headers show the sender, the
\* recipients in To and Cc and nobody else, and no header occurs twice.
THEOREM HeadersAreHonest == MSpec => []HeadersTruthful
<1>1. MInv => HeadersTruthful BY DEF MInv
<1> QED BY <1>1, MessageInvariance, PTL

\* email.go:700-705, 754-758.  Whatever the body, of any length, every line of the
\* text ends with CRLF, and the lines and words are those of the body.
THEOREM LinesArePreserved == MSpec => []LinesPreserved
<1>1. MInv => LinesPreserved BY DEF MInv
<1> QED BY <1>1, MessageInvariance, PTL
=============================================================================
