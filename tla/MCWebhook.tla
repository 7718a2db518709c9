------------------------------ MODULE MCWebhook ------------------------------
(***************************************************************************)
(* Small instances of Webhook for TLC: six-bit integers, seconds of ten    *)
(* units and a default limit of three bytes.                               *)
(***************************************************************************)
EXTENDS Webhook

MCMaxInt == 31
MCSecond == 10
MCDefaultLimit == 3

Usable == [title |-> "ok", body |-> "ok", json |-> TRUE, checkJSON |-> TRUE,
           headers |-> {[name |-> "token", value |-> "plain"]}, method |-> "",
           url |-> "absolute", log |-> "", limit |-> 0]

\* Every way to log; limits at both ends; a header only net/http refuses.
MCConfigs ==
    {[Usable EXCEPT !.log = mode, !.limit = n] :
        mode \in LogModes, n \in {-1, 0, 1, MCMaxInt - 1, MCMaxInt}}
      \union {[Usable EXCEPT !.headers = {[name |-> name, value |-> value]}] :
                name \in {"badChar", "reserved", "token"}, value \in Values}
      \union {[Usable EXCEPT !.title = "fails"], [Usable EXCEPT !.body = "nil"],
              [Usable EXCEPT !.json = FALSE], [Usable EXCEPT !.json = FALSE, !.checkJSON = FALSE],
              [Usable EXCEPT !.method = "bad"]}
      \union {[Usable EXCEPT !.url = url] : url \in {"unparsable", "otherScheme", "noHost"}}

Asks(form, n) == [form |-> form, n |-> n]
MCResponses ==
    [status : {199, 200, 299, 300, 404, 500}, retryAfter : {Asks("none", 0)},
     size : {0, 3, 4, 30, 31, 40}]
      \union [status : {204, 429}, size : {1},
              retryAfter : {Asks("seconds", n) : n \in {-1, 0, 1, 3, 4, 5, 31, 32}}
                             \union {Asks("date", n) : n \in {-5, 0, 5, 31, 50}}
                             \union {Asks("other", 0)}]
=============================================================================
