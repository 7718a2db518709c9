------------------------------- MODULE MCSmtp -------------------------------
(***************************************************************************)
(* Small instances of Smtp and MailMessage for TLC.                        *)
(***************************************************************************)
EXTENDS MailMessage

Direct == [http |-> "none", https |-> "none"]
Plain  == [mode |-> "plaintext", format |-> "", creds |-> FALSE, host |-> "name", port |-> 0,
           from |-> "mailbox", to |-> <<"mailbox">>, cc |-> << >>, bcc |-> << >>,
           headers |-> {[name |-> "token", value |-> "plain"]}, render |-> "ok",
           optIn |-> FALSE, env |-> Direct]
Secured(mode) == [Plain EXCEPT !.mode = mode, !.creds = TRUE, !.bcc = <<"mailbox">>]

\* Every mode, with and without credentials, through no proxy and through each kind.
Usable ==
    {Plain, Secured(""), Secured("implicit")}
      \union {[Secured(mode) EXCEPT !.optIn = TRUE, !.env.http = "http", !.env.https = proxy] :
                mode \in {"", "implicit"}, proxy \in {"none", "https"}}
      \union {[Plain EXCEPT !.optIn = TRUE, !.env.http = proxy] :
                proxy \in {"https", "socks", "socks:port", "broken"}}

\* One defect each.
Defective ==
    {[Plain EXCEPT !.mode = "bogus"], [Plain EXCEPT !.format = "bogus"],
     [Plain EXCEPT !.creds = TRUE], [Plain EXCEPT !.host = "blank"],
     [Plain EXCEPT !.port = -1], [Plain EXCEPT !.port = 65536],
     [Plain EXCEPT !.from = "list"], [Plain EXCEPT !.to = << >>],
     [Plain EXCEPT !.bcc = <<"mailbox", "newline">>],
     [Plain EXCEPT !.headers = {[name |-> "reserved", value |-> "plain"]}],
     [Plain EXCEPT !.headers = {[name |-> "token", value |-> "newline"]}],
     [Plain EXCEPT !.headers = {[name |-> "padded", value |-> "plain"]}],
     [Plain EXCEPT !.render = "fails"]}

\* Nothing is dialed, so only the message varies: every number of recipients but
\* those above.
Sizes == {<<t, c, b>> \in (0..2) \X (0..2) \X (0..2) :
             t + c + b > 0 /\ <<t, c, b>> \notin {<<1, 0, 0>>, <<1, 0, 1>>}}
Times(n) == [i \in 1..n |-> "mailbox"]
Undialed == {[Plain EXCEPT !.to = Times(s[1]), !.cc = Times(s[2]), !.bcc = Times(s[3]),
                           !.optIn = TRUE, !.env.http = "broken"] : s \in Sizes}

MCConfigs == Usable \union Defective \union Undialed

Letter(to, cc, bcc, headers, body) ==
    [from |-> "ops", to |-> to, cc |-> cc, bcc |-> bcc, headers |-> headers, body |-> body]
Lists(n) == [1..n -> {"ops", "lead"}]

\* One letter each for the sessions and for what is refused; every way to name two
\* mailboxes; every body of at most four characters.
MCLetters ==
    {Letter(<<"lead">>, << >>, bcc, {"X-Tag"}, <<"x">>) : bcc \in {<< >>, <<"ops">>}}
      \union {Letter(<<"lead">>, << >>, << >>, {"Cc"}, <<"x">>),
              Letter(<< >>, << >>, << >>, {}, <<"x">>)}
      \union UNION {{Letter(to, cc, bcc, headers, <<"x">>) :
                        to \in Lists(s[1]), cc \in Lists(s[2]), bcc \in Lists(s[3]),
                        headers \in {{}, {"Cc"}, {"Reply-To", "X-Tag"}}} : s \in Sizes}
      \union {Letter(<<"ops", "lead">>, << >>, << >>, {}, body) :
                body \in UNION {[1..n -> {"CR", "LF", "x"}] : n \in 0..4}}

\* Both sides of every boundary that classifySMTPError draws, and of a refusal.
MCCodes   == {99, 250, 399, 408, 429, 499, 500, 550, 600}
=============================================================================
