----------------------------- MODULE Templates -----------------------------
(***************************************************************************)
(* Parsing templates (templates/templates.go, html.go): what a list of     *)
(* options makes of the missing-key policy and of the functions a template *)
(* may call.  Function maps are Go maps, shared by whoever holds them; the *)
(* application parses one template after another from the same maps.       *)
(***************************************************************************)
EXTENDS Integers, SequencesExt

CONSTANTS
    Names,        \* function names
    DefaultNames, \* those of DefaultFuncs
    Fns,          \* the functions of the application
    Maps,         \* its function maps
    Options,      \* the options it uses
    MaxOptions,   \* bound on the length of a list of options
    Absent

\* The map that options makes for itself.
Own  == "own"

ASSUME TemplatesAssumption ==
    /\ Own \notin Maps \union {Absent}
    /\ DefaultNames \subseteq Names /\ MaxOptions \in Nat
    /\ Options \subseteq
         [kind : {"nil", "defaultFuncs"}]
           \union [kind : {"missingKey"}, policy : {"", "default", "zero", "error", "bad"}]
           \union [kind : {"func"}, name : Names, fn : Fns]
           \union [kind : {"funcs"}, map : Maps]

NoFn == [n \in {} |-> Absent]
DefaultFuncs == [n \in DefaultNames |-> "helper"]

VARIABLES
    heap,   \* the function maps by reference
    tmpl    \* what became of the template parsed last, or Absent

parseVars == <<heap, tmpl>>

-----------------------------------------------------------------------------
(* Options *)

\* maps.Copy: what dst is afterwards.
MapsCopy(dst, src) ==
    [n \in DOMAIN dst \union DOMAIN src |-> IF n \in DOMAIN src THEN src[n] ELSE dst[n]]

MakeOwn(cfg) ==
    IF cfg.funcs # Absent THEN cfg ELSE [cfg EXCEPT !.funcs = Own, !.heap[Own] = NoFn]

\* Mutant: the first map is taken over instead of copied.
CopyFuncsShared(cfg, ref) ==
    IF cfg.funcs = Absent THEN [cfg EXCEPT !.funcs = ref]
    ELSE [cfg EXCEPT !.heap[cfg.funcs] = MapsCopy(@, cfg.heap[ref])]

\* maps.Copy into the options' own map.
CopyFuncs(cfg, ref) ==
    IF DOMAIN cfg.heap[ref] = {} THEN cfg
    ELSE [MakeOwn(cfg) EXCEPT !.heap[MakeOwn(cfg).funcs] = MapsCopy(@, cfg.heap[ref])]

\* WithMissingKey, WithDefaultFuncs, WithFunc, WithFuncs
apply(cfg, opt) ==
    CASE opt.kind = "nil"          -> cfg
      [] opt.kind = "missingKey"   -> [cfg EXCEPT !.missingKey = opt.policy]
      [] opt.kind = "defaultFuncs" -> [cfg EXCEPT !.useDefaultFuncs = TRUE]
      [] opt.kind = "func"         ->
           [MakeOwn(cfg) EXCEPT !.heap[MakeOwn(cfg).funcs] = MapsCopy(@, [n \in {opt.name} |-> opt.fn])]
      [] opt.kind = "funcs"        -> CopyFuncs(cfg, opt.map)

NoOptions == [missingKey |-> "error", funcs |-> Absent, useDefaultFuncs |-> FALSE, heap |-> heap]

parseOptions(opts) ==
    LET cfg == FoldLeft(apply, NoOptions, opts) IN
    [cfg EXCEPT !.missingKey = IF @ = "" THEN "error" ELSE @]

validateMissingKey(policy) == policy \in {"default", "zero", "error"}

\* Mutant: the helpers are copied over the functions of the application.
templateFuncsHelpersFirst(cfg) ==
    MapsCopy(IF cfg.funcs = Absent THEN NoFn ELSE cfg.heap[cfg.funcs],
             IF cfg.useDefaultFuncs THEN DefaultFuncs ELSE NoFn)

\* The map that parse and ParseHTMLTemplate hand to the template.
templateFuncs(cfg) ==
    MapsCopy(IF cfg.useDefaultFuncs THEN DefaultFuncs ELSE NoFn,
             IF cfg.funcs = Absent THEN NoFn ELSE cfg.heap[cfg.funcs])

-----------------------------------------------------------------------------
(* Parsing *)

MapValues == UNION {[S -> Fns] : S \in SUBSET Names}

ParseInit ==
    /\ heap \in [Maps \union {Own} -> MapValues] /\ heap[Own] = NoFn
    /\ tmpl = Absent

\* parse, or ParseHTMLTemplate, of a text that calls the functions in uses; a
\* function it does not have is a parse error.
Parse(opts, uses) ==
    LET cfg == parseOptions(opts)
        funcs == templateFuncs(cfg)
    IN  /\ tmpl = Absent
        /\ heap' = [cfg.heap EXCEPT ![Own] = NoFn]
        /\ tmpl' = [opts |-> opts, given |-> heap, uses |-> uses,
                    parsed |-> IF validateMissingKey(cfg.missingKey) /\ uses \subseteq DOMAIN funcs
                               THEN [missingKey |-> cfg.missingKey,
                                     calls |-> [n \in uses |-> funcs[n]]]
                               ELSE Absent]

\* The application goes on: it changes a map of its own, or parses another text.
ChangeMap ==
    /\ tmpl = Absent /\ UNCHANGED tmpl
    /\ \E m \in Maps, f \in MapValues : heap' = [heap EXCEPT ![m] = f]
GoOn == tmpl # Absent /\ tmpl' = Absent /\ UNCHANGED heap

Lists == UNION {[1..k -> Options] : k \in 0..MaxOptions}

ParseNext == ChangeMap \/ GoOn \/ \E opts \in Lists, uses \in SUBSET Names : Parse(opts, uses)

ParseSpec == ParseInit /\ [][ParseNext]_parseVars

-----------------------------------------------------------------------------
(***************************************************************************)
(* Properties                                                              *)
(***************************************************************************)
\* The places in a list of options that say something of a function.
Says(opts, maps, n) ==
    {i \in DOMAIN opts :
       \/ opts[i].kind = "func" /\ opts[i].name = n
       \/ opts[i].kind = "funcs" /\ n \in DOMAIN maps[opts[i].map]}
Said(opt, maps, n) == IF opt.kind = "func" THEN opt.fn ELSE maps[opt.map][n]
Enabled(opts) == \E i \in DOMAIN opts : opts[i].kind = "defaultFuncs"

\* docs/content/templates.md:3, 37.  A template calls the last function that the
\* application gave under a name, wherever in the list WithDefaultFuncs stands; a
\* helper only if none was given and helpers were asked for.
LastFunctionWins ==
    tmpl # Absent => LET t == tmpl IN t.parsed # Absent => \A n \in t.uses :
        LET places == Says(t.opts, t.given, n) IN
        IF places = {} THEN Enabled(t.opts) /\ t.parsed.calls[n] = "helper"
        ELSE t.parsed.calls[n] = Said(t.opts[Max(places)], t.given, n)

\* templates.go:24, 354-362; docs/content/templates.md:10.  Missing keys fail
\* unless the last WithMissingKey asks for something else by a valid policy.
StrictByDefault ==
    tmpl # Absent => LET t == tmpl
                      asks == {i \in DOMAIN t.opts : t.opts[i].kind = "missingKey"}
                      last == IF asks = {} THEN "" ELSE t.opts[Max(asks)].policy
                  IN  t.parsed # Absent =>
                        /\ last # "bad"
                        /\ t.parsed.missingKey = IF last = "" THEN "error" ELSE last

\* What a template can do follows from its options alone, as documented.
OptionsAsDocumented == LastFunctionWins /\ StrictByDefault

\* templates.go:63-73.  However options are combined, parsing writes to no map of
\* the application, which another template may be parsed from.
MapsUntouched == [][tmpl' # Absent => \A m \in Maps : heap'[m] = heap[m]]_parseVars
=============================================================================
