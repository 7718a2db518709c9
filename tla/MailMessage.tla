---------------------------- MODULE MailMessage ----------------------------
(***************************************************************************)
(* The message the email target hands to the server (targets/email,        *)
(* buildEmail and normalizeBody): who is named in it, which headers it     *)
(* has, and how its lines end.  Text is a sequence of "CR", "LF" and other *)
(* characters; addresses and headers are names.                            *)
(***************************************************************************)
EXTENDS Smtp, FiniteSets, SequencesExt

CONSTANT Letters    \* who is named, the configured headers and the rendered body

ASSUME LettersAssumption ==
    \A l \in Letters : IsFiniteSet(l.headers) /\ l.body \in Seq(STRING)

VARIABLES
    letter,     \* what the message is made of
    msg         \* the message

\* The switch is over lower-case names; header names are compared so here.
isReservedHeader(name) ==
    name \in {"From", "To", "Cc", "Bcc", "Subject", "MIME-Version", "Content-Type",
              "Content-Transfer-Encoding"}

At(b, i) == IF i \in DOMAIN b THEN b[i] ELSE "end"

\* strings.ReplaceAll, three times
crlfToLf(b) == FlattenSeq([i \in DOMAIN b |->
                 IF b[i] = "CR" /\ At(b, i + 1) = "LF" THEN << >> ELSE <<b[i]>>])
crToLf(b)   == [i \in DOMAIN b |-> IF b[i] = "CR" THEN "LF" ELSE b[i]]
lfToCrlf(b) == FlattenSeq([i \in DOMAIN b |-> IF b[i] = "LF" THEN <<"CR", "LF">> ELSE <<b[i]>>])

\* Mutant: single CRs are replaced first.
normalizeBodySwapped(b) == lfToCrlf(crlfToLf(crToLf(b)))

normalizeBody(b) == lfToCrlf(crToLf(crlfToLf(b)))

\* Each header line: its name and the addresses it shows.
Line(name, shown) == [name |-> name, shown |-> ToSet(shown)]

\* Sorted by name; the order of two names does not matter here.
appendHeaders(lines, names) == lines \o [i \in 1..Cardinality(names) |->
                                          Line(SetToSeq(names)[i], << >>)]

\* Mutant: everyone who is sent the message is shown in Cc.
buildEmailShowsAll(t) ==
    LET text == normalizeBody(t.body) IN
    [lines |-> appendHeaders(
        <<Line("From", <<t.from>>), Line("To", t.to), Line("Subject", << >>),
          Line("MIME-Version", << >>), Line("Content-Type", << >>),
          Line("Content-Transfer-Encoding", << >>)>>
          \o (IF t.cc = << >> THEN << >> ELSE <<Line("Cc", t.cc \o t.bcc)>>), t.headers),
     text |-> IF IsSuffix(<<"CR", "LF">>, text) THEN text ELSE text \o <<"CR", "LF">>]

buildEmail(t) ==
    LET text == normalizeBody(t.body) IN
    [lines |-> appendHeaders(
        <<Line("From", <<t.from>>), Line("To", t.to), Line("Subject", << >>),
          Line("MIME-Version", << >>), Line("Content-Type", << >>),
          Line("Content-Transfer-Encoding", << >>)>>
          \o (IF t.cc = << >> THEN << >> ELSE <<Line("Cc", t.cc)>>), t.headers),
     text |-> IF IsSuffix(<<"CR", "LF">>, text) THEN text ELSE text \o <<"CR", "LF">>]

Unbuilt == [lines |-> << >>, text |-> << >>]

\* The letters that a configuration may stand for: Smtp has only classes of
\* addresses and of headers.
Fits(c, l) ==
    /\ \A list \in {"to", "cc", "bcc"} : Len(l[list]) = Len(c[list])
    /\ (\E h \in c.headers : h.name = "reserved")
         <=> (\E name \in l.headers : isReservedHeader(name))

MInit ==
    /\ Init
    /\ letter \in {l \in Letters : Fits(cfg, l)}
    /\ msg = Unbuilt

\* sendSMTP builds the message before it dials.
MNext ==
    /\ Next
    /\ msg' = IF pc = "begin" /\ pc' = "dial" THEN buildEmail(letter) ELSE msg
    /\ UNCHANGED letter

MSpec == MInit /\ [][MNext]_<<vars, letter, msg>>

\* Goroutines run, as in Smtp.
MSpecRuns == MSpec /\ WF_vars(Program) /\ WF_vars(Watch)

-----------------------------------------------------------------------------
(***************************************************************************)
(* Properties                                                              *)
(***************************************************************************)
Built == msg # Unbuilt

\* docs/content/email.md:34-35.  To, From and Cc are shown and nobody else:
\* a BCC recipient is in the envelope only.
BccStaysHidden ==
    Built => UNION {msg.lines[i].shown : i \in DOMAIN msg.lines}
               = {letter.from} \union ToSet(letter.to) \union ToSet(letter.cc)

\* email.go:602-609.  No header occurs twice: a configured header never repeats one
\* that the message has anyway (names that differ in case only count as different
\* here, unless they are reserved).
HeadersUnique ==
    Built => \A i, j \in DOMAIN msg.lines : msg.lines[i].name = msg.lines[j].name => i = j

\* The headers say who else has the message, once, and nothing of the rest.
HeadersTruthful == BccStaysHidden /\ HeadersUnique

\* A line ends with CRLF, CR or LF, whichever is longest.
Ends(b) == {i \in DOMAIN b : b[i] = "LF" \/ (b[i] = "CR" /\ At(b, i + 1) # "LF")}
Words(b) == FlattenSeq([i \in DOMAIN b |-> IF b[i] \in {"CR", "LF"} THEN << >> ELSE <<b[i]>>])

\* email.go:700-705, 754-758.  Every line of the text ends with CRLF and no CR or
\* LF is left alone; there are as many lines as in the rendered body, with the
\* same words, and a last line end is added if it was missing.
LinesPreserved ==
    Built => LET text == msg.text
                 body == letter.body
                 missing == body = << >> \/ At(body, Len(body)) \notin {"CR", "LF"} IN
        /\ \A i \in DOMAIN text : (text[i] = "CR") <=> (At(text, i + 1) = "LF")
        /\ text[1] # "LF" /\ IsSuffix(<<"CR", "LF">>, text)
        /\ Words(text) = Words(body)
        /\ Cardinality(Ends(text)) = Cardinality(Ends(body)) + (IF missing THEN 1 ELSE 0)
=============================================================================
