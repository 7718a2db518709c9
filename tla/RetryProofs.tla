--------------------------- MODULE RetryProofs ----------------------------
(***************************************************************************)
(* Proofs about Policies, for error trees of every size and all status     *)
(* codes, and about Backoff, for every wait.  TypeOK and MarksDecide are   *)
(* inductive together; what the policies decide follows from them.         *)
(***************************************************************************)
EXTENDS Policies, Backoff, DataLemmas

-----------------------------------------------------------------------------
(* What errors.As finds in trees that are put together *)

\* A single error is found by its own kind only.
LEMMA HasOne == ASSUME NEW x, NEW k PROVE Has(<<x>>, k) <=> x = k
BY DEF Has

\* A join or a wrapper is found by what either part is found by.
LEMMA HasJoin ==
    ASSUME NEW a \in Seq(Kinds), NEW b \in Seq(Kinds), NEW k
    PROVE  Has(a \o b, k) <=> Has(a, k) \/ Has(b, k)
<1>1. ASSUME Has(a, k) PROVE Has(a \o b, k)
  <2>1. PICK i \in 1..Len(a) : a[i] = k BY <1>1 DEF Has
  <2>2. i \in 1..Len(a \o b) /\ (a \o b)[i] = k BY <2>1
  <2> QED BY <2>2 DEF Has
<1>2. ASSUME Has(b, k) PROVE Has(a \o b, k)
  <2>1. PICK i \in 1..Len(b) : b[i] = k BY <1>2 DEF Has
  <2>2. Len(a) + i \in 1..Len(a \o b) /\ (a \o b)[Len(a) + i] = k BY <2>1
  <2> QED BY <2>2 DEF Has
<1>3. ASSUME Has(a \o b, k) PROVE Has(a, k) \/ Has(b, k)
  <2>1. PICK i \in 1..Len(a \o b) : (a \o b)[i] = k BY <1>3 DEF Has
  <2>2. CASE i <= Len(a)
    <3>1. i \in 1..Len(a) /\ a[i] = k BY <2>1, <2>2
    <3> QED BY <3>1 DEF Has
  <2>3. CASE i > Len(a)
    <3>1. i - Len(a) \in 1..Len(b) /\ b[i - Len(a)] = k BY <2>1, <2>3
    <3> QED BY <3>1 DEF Has
  <2> QED BY <2>1, <2>2, <2>3
<1> QED BY <1>1, <1>2, <1>3

\* The end of a join is the end of its second part.
LEMMA LastOfJoin ==
    ASSUME NEW a \in Seq(Kinds), NEW b \in Seq(Kinds), b # << >>
    PROVE  /\ a \o b \in Seq(Kinds) /\ a \o b # << >>
           /\ (a \o b)[Len(a \o b)] = b[Len(b)]
OBVIOUS

\* An error of which Raw is at the end.
Ended(e) == e \in Seq(Kinds) /\ (e # << >> => e[Len(e)] \in Raw)

\* A raw error, and what a wrapper makes of an error.
LEMMA Wrapped ==
    ASSUME NEW x \in Kinds, NEW e, Ended(e), e # << >>
    PROVE  /\ Ended(<<x>> \o e) /\ <<x>> \o e # << >>
           /\ \A k : Has(<<x>> \o e, k) <=> x = k \/ Has(e, k)
<1>1. <<x>> \in Seq(Kinds) /\ e \in Seq(Kinds) BY DEF Ended
<1>2. Ended(<<x>> \o e) /\ <<x>> \o e # << >> BY <1>1, LastOfJoin DEF Ended
<1>3. ASSUME NEW k PROVE Has(<<x>> \o e, k) <=> x = k \/ Has(e, k)
  BY <1>1, HasJoin, HasOne
<1> QED BY <1>2, <1>3

\* ... and errors.Join of two errors.
LEMMA Joined ==
    ASSUME NEW a, Ended(a), a # << >>, NEW b, Ended(b), b # << >>
    PROVE  /\ Ended(<<"other">> \o (a \o b)) /\ <<"other">> \o (a \o b) # << >>
           /\ \A k : Has(<<"other">> \o (a \o b), k) <=> k = "other" \/ Has(a, k) \/ Has(b, k)
<1>1. a \in Seq(Kinds) /\ b \in Seq(Kinds) /\ "other" \in Kinds BY DEF Ended, Kinds, Raw
<1>2. Ended(a \o b) /\ a \o b # << >> BY <1>1, LastOfJoin DEF Ended
<1>3. \A k : Has(a \o b, k) <=> Has(a, k) \/ Has(b, k) BY <1>1, HasJoin
<1> QED BY <1>1, <1>2, <1>3, Wrapped

-----------------------------------------------------------------------------
(* The invariant *)

IInv == TypeOK /\ MarksDecide

\* What MarksDecide says of an error e and its marks ms.
Decided(e, ms) ==
    /\ Ended(e) /\ ms \subseteq {"permanent", "transport"}
    /\ IsPermanent(e) <=> "permanent" \in ms
    /\ IsTransport(e) <=> ms = {"transport"}

LEMMA DecidedIsIInv ==
    IInv <=> Decided(err, marked) /\ Len(err) <= MaxErrors /\ status \in StatusCodes
BY DEF IInv, Decided, TypeOK, MarksDecide, Ended

\* In terms of the tree: without a permanent mark, the transport marks are those
\* found in it.
LEMMA DecidedByTree ==
    ASSUME NEW e, NEW ms, Ended(e), ms \subseteq {"permanent", "transport"}
    PROVE  Decided(e, ms) <=>
             /\ Has(e, "permanent") <=> "permanent" \in ms
             /\ "permanent" \notin ms => (Has(e, "transport") <=> "transport" \in ms)
<1>1. ms = {"transport"} <=> "transport" \in ms /\ "permanent" \notin ms OBVIOUS
<1>2. Has(e, "transport") => e # << >> BY DEF Has
<1> QED BY <1>1, <1>2, Zenon DEF Decided, IsPermanent, IsTransport

LEMMA InitDecided == ErrInit => IInv
<1> SUFFICES ASSUME ErrInit PROVE IInv OBVIOUS
<1>1. ~Has(<< >>, "permanent") /\ ~Has(<< >>, "transport") BY DEF Has
<1>2. Ended(<< >>) BY DEF Ended
<1>3. Decided(err, marked) BY <1>1, <1>2, DecidedByTree DEF ErrInit
<1>4. Len(err) <= MaxErrors /\ status \in StatusCodes BY BoundAssumption DEF ErrInit
<1> QED BY <1>3, <1>4, DecidedIsIInv

\* One mark, in the code's words.
LEMMA PermanentDecided ==
    ASSUME NEW e, NEW ms, Decided(e, ms), e # << >>
    PROVE  Decided(Permanent(e), ms \union {"permanent"})
<1>1. Ended(e) /\ ms \subseteq {"permanent", "transport"} BY DEF Decided
<1>2. CASE IsPermanent(e)
  BY <1>1, <1>2, DecidedByTree DEF Permanent, IsPermanent
<1>3. CASE ~IsPermanent(e)
  <2>1. Permanent(e) = <<"permanent">> \o e BY <1>3 DEF Permanent
  <2>2. Ended(Permanent(e)) /\ Has(Permanent(e), "permanent")
    BY <1>1, <2>1, Wrapped DEF Kinds
  <2> QED BY <1>1, <2>2, DecidedByTree
<1> QED BY <1>2, <1>3

LEMMA TransportDecided ==
    ASSUME NEW e, NEW ms, Decided(e, ms), e # << >>
    PROVE  Decided(Transport(e), ms \union {"transport"})
<1>1. Ended(e) /\ ms \subseteq {"permanent", "transport"} BY DEF Decided
<1>2. CASE IsPermanent(e) \/ IsTransport(e)
  <2>1. Transport(e) = e BY <1>2 DEF Transport
  <2> QED BY <1>1, <1>2, <2>1, DecidedByTree DEF IsPermanent, IsTransport
<1>3. CASE ~(IsPermanent(e) \/ IsTransport(e))
  <2>1. Transport(e) = <<"transport">> \o e BY <1>3 DEF Transport
  <2>2. Ended(Transport(e)) /\ Has(Transport(e), "transport")
        /\ (Has(Transport(e), "permanent") <=> Has(e, "permanent"))
    BY <1>1, <2>1, Wrapped DEF Kinds
  <2>3. ~Has(e, "permanent") /\ "permanent" \notin ms
    BY <1>1, <1>3, DecidedByTree DEF IsPermanent
  <2> QED BY <1>1, <2>2, <2>3, DecidedByTree
<1> QED BY <1>2, <1>3

\* The errors that others contribute to a join carry exactly the marks joined.
LEMMA OthersDecided ==
    ASSUME NEW other \in Others
    PROVE  /\ other # << >>
           /\ Decided(other, {k \in {"permanent", "transport"} : Has(other, k)})
<1>1. ASSUME NEW x \in Raw PROVE Ended(<<x>>) /\ <<x>> # << >>
  BY DEF Ended, Kinds
<1>2. ASSUME NEW x \in Raw PROVE ~IsPermanent(<<x>>) /\ ~IsTransport(<<x>>)
  BY HasOne DEF IsPermanent, IsTransport, Raw
<1>3. ASSUME NEW x \in Raw
      PROVE  Permanent(<<x>>) = <<"permanent">> \o <<x>> /\ Transport(<<x>>) = <<"transport">> \o <<x>>
  BY <1>1, <1>2 DEF Permanent, Transport
<1>4. ASSUME NEW x \in Raw, NEW mark \in {"permanent", "transport"}
      PROVE  Ended(<<mark>> \o <<x>>) /\ <<mark>> \o <<x>> # << >>
  BY <1>1, Wrapped DEF Kinds
<1>5. Ended(other) /\ other # << >> BY <1>1, <1>3, <1>4 DEF Others, Raw
<1> QED BY <1>5, DecidedByTree

LEMMA NextDecided == IInv /\ ErrNext => IInv'
<1> SUFFICES ASSUME IInv, ErrNext PROVE IInv' OBVIOUS
<1>1. Decided(err, marked) /\ status \in StatusCodes BY DecidedIsIInv
<1>2. ASSUME NEW e, NEW ms, Build(e, ms), Decided(e, marked \union ms) PROVE IInv'
  <2>1. err' = e /\ marked' = marked \union ms /\ Len(e) <= MaxErrors /\ status' = status
    BY <1>2 DEF Build
  <2>2. Decided(err, marked)' BY <1>2, <2>1 DEF Decided, Ended, IsPermanent, IsTransport, Has
  <2>3. Len(err') <= MaxErrors /\ status' \in StatusCodes BY <1>1, <2>1
  <2> QED BY <2>2, <2>3 DEF IInv, TypeOK, MarksDecide, Decided, Ended
<1>3. Ended(err) /\ marked \subseteq {"permanent", "transport"}
      /\ (Has(err, "permanent") <=> "permanent" \in marked)
      /\ ("permanent" \notin marked => (Has(err, "transport") <=> "transport" \in marked))
  <2>1. Ended(err) /\ marked \subseteq {"permanent", "transport"} BY <1>1 DEF Decided
  <2> QED BY <1>1, <2>1, DecidedByTree
<1>4. CASE Fails
  <2>1. PICK k \in Raw : Build(<<k>>, {}) BY <1>4 DEF Fails
  <2>2. Ended(<<k>>) BY DEF Ended, Kinds
  <2>3. ~Has(<<k>>, "permanent") /\ ~Has(<<k>>, "transport") BY HasOne DEF Raw
  <2>4. ~Has(err, "permanent") /\ ~Has(err, "transport") BY <1>4 DEF Fails, Has
  <2>5. marked = {} BY <1>3, <2>4
  <2>6. Decided(<<k>>, marked \union {}) BY <2>2, <2>3, <2>5, DecidedByTree
  <2> QED BY <1>2, <2>1, <2>6
<1>5. CASE MarkPermanent
  <2>1. CASE err = << >>
    <3>1. Build(err, {}) BY <1>5, <2>1 DEF MarkPermanent, Permanent
    <3>2. marked \union {} = marked OBVIOUS
    <3> QED BY <1>1, <1>2, <3>1, <3>2
  <2>2. CASE err # << >>
    <3>1. Build(Permanent(err), {"permanent"}) BY <1>5, <2>2 DEF MarkPermanent
    <3> QED BY <1>1, <1>2, <2>2, <3>1, PermanentDecided
  <2> QED BY <2>1, <2>2
<1>6. CASE MarkTransport
  <2>1. CASE err = << >>
    <3>1. Build(err, {}) BY <1>6, <2>1 DEF MarkTransport, Transport
    <3>2. marked \union {} = marked OBVIOUS
    <3> QED BY <1>1, <1>2, <3>1, <3>2
  <2>2. CASE err # << >>
    <3>1. Build(Transport(err), {"transport"}) BY <1>6, <2>2 DEF MarkTransport
    <3> QED BY <1>1, <1>2, <2>2, <3>1, TransportDecided
  <2> QED BY <2>1, <2>2
<1>7. CASE Wraps
  <2>1. PICK k \in Raw : Build(<<k>> \o err, {}) BY <1>7 DEF Wraps
  <2>2. k \in Kinds /\ k # "permanent" /\ k # "transport" /\ err # << >>
    BY <1>7 DEF Wraps, Kinds, Raw
  <2>3. Ended(<<k>> \o err)
        /\ \A x : Has(<<k>> \o err, x) <=> k = x \/ Has(err, x)
    BY <1>3, <2>2, Wrapped
  <2>4. Decided(<<k>> \o err, marked \union {}) BY <1>3, <2>2, <2>3, DecidedByTree
  <2> QED BY <1>2, <2>1, <2>4
<1>8. CASE Joins
  <2>1. PICK other \in Others, first \in BOOLEAN :
          Build(<<"other">> \o (IF first THEN other \o err ELSE err \o other),
                {k \in {"permanent", "transport"} : Has(other, k)})
    BY <1>8 DEF Joins
  <2> DEFINE e  == <<"other">> \o (IF first THEN other \o err ELSE err \o other)
             ms == {k \in {"permanent", "transport"} : Has(other, k)}
  <2>2. err # << >> /\ other # << >> /\ Ended(other)
    BY <1>8, OthersDecided DEF Joins, Decided
  <2>3. Ended(e) /\ \A k : Has(e, k) <=> k = "other" \/ Has(other, k) \/ Has(err, k)
    BY <1>3, <2>2, Joined
  <2>4. Decided(e, marked \union ms) BY <1>3, <2>3, DecidedByTree
  <2> QED BY <1>2, <2>1, <2>4
<1>9. CASE UNCHANGED errVars
  BY <1>9 DEF IInv, TypeOK, MarksDecide, errVars, IsPermanent, IsTransport, Has
<1> QED BY <1>4, <1>5, <1>6, <1>7, <1>8, <1>9 DEF ErrNext, Complete

LEMMA Invariance == ErrSpec => []IInv
<1>1. IInv /\ UNCHANGED errVars => IInv'
  BY DEF IInv, TypeOK, MarksDecide, errVars, IsPermanent, IsTransport, Has
<1> QED BY <1>1, InitDecided, NextDecided, PTL DEF ErrSpec

-----------------------------------------------------------------------------
(* Theorems *)

\* error.go.  Every error is well formed, and no mark is put on nil.
THEOREM PolicyTypeCorrect == ErrSpec => []TypeOK
<1>1. IInv => TypeOK BY DEF IInv
<1> QED BY <1>1, Invariance, PTL

\* error.go:26-67.  The order of marking, wrapping and joining does not matter:
\* permanent wins, and transport is what was marked so.
THEOREM MarksAlwaysDecide == ErrSpec => []MarksDecide
<1>1. IInv => MarksDecide BY DEF IInv
<1> QED BY <1>1, Invariance, PTL

\* retry_policy.go.  No built-in policy retries what was ever marked permanent,
\* or a success, whatever the status.
THEOREM PermanentIsNeverRetried == ErrSpec => []PermanentNeverRetried
<1>1. ASSUME IInv, err = << >> \/ "permanent" \in marked, NEW p \in Policies
      PROVE  ~Retries(status, err)[p]
  <2>1. err = << >> \/ IsPermanent(err) BY <1>1 DEF IInv, MarksDecide
  <2>2. ~RetryOnError(err) /\ ~RetryOnStatusCode({408, 429}, status, err)
        /\ ~RetryOnServerError(status, err)
    <3>1. ~RetryOnError(err) BY <2>1, Zenon DEF RetryOnError
    <3>2. ~RetryOnStatusCode({408, 429}, status, err) BY <2>1, Zenon DEF RetryOnStatusCode
    <3>3. ~RetryOnServerError(status, err) BY <2>1, Zenon DEF RetryOnServerError
    <3> QED BY <3>1, <3>2, <3>3, Zenon
  <2>3. ~IsTransport(err) BY <2>1, Zenon DEF IsTransport
  <2>4. ~RetryOnTimeout(err) /\ ~RetryOnNetworkError(err)
    BY <2>3, Zenon DEF RetryOnTimeout, RetryOnNetworkError
  <2> HIDE DEF RetryOnError, RetryOnStatusCode, RetryOnServerError, RetryOnTimeout, RetryOnNetworkError
  <2> QED BY <2>2, <2>4 DEF Retries, Policies
<1>2. IInv => PermanentNeverRetried BY <1>1, Zenon DEF PermanentNeverRetried
<1> QED BY <1>2, Invariance, PTL

\* A timeout that no plain network error precedes is one that errors.As finds: the
\* first of all of them is a timeout.
LEMMA FirstNetError ==
    ASSUME NEW e \in Seq(Kinds)
    PROVE  isTimeoutError(e) <=> TimesOut(e)
<1>1. Len(e) \in Nat /\ DOMAIN e = 1..Len(e) OBVIOUS
<1>2. ASSUME NEW i \in 1..Len(e), e[i] = "netTimeout", \A j \in 1..(i - 1) : e[j] # "net"
      PROVE  TimesOut(e)
  <2>1. NetErrors(e) \subseteq Nat /\ i \in NetErrors(e) BY <1>1, <1>2 DEF NetErrors
  <2>2. PICK k \in NetErrors(e) : \A j \in NetErrors(e) : k <= j BY <2>1, Least
  <2>3. k <= i /\ k \in 1..Len(e) /\ e[k] \in {"net", "netTimeout"} BY <1>1, <2>1, <2>2 DEF NetErrors
  <2>4. k = i \/ k \in 1..(i - 1) BY <1>1, <2>3
  <2>5. e[k] = "netTimeout" BY <1>2, <2>3, <2>4
  <2> QED BY <2>2, <2>5 DEF TimesOut
<1>3. ASSUME NEW i \in NetErrors(e), e[i] = "netTimeout", \A j \in NetErrors(e) : i <= j
      PROVE  isTimeoutError(e)
  <2>1. i \in 1..Len(e) BY <1>1, <1>3 DEF NetErrors
  <2>2. ASSUME NEW j \in 1..(i - 1) PROVE e[j] # "net"
    <3>1. j \in DOMAIN e /\ ~(i <= j) BY <1>1, <2>1
    <3> QED BY <1>3, <3>1 DEF NetErrors
  <2> QED BY <1>3, <2>1, <2>2 DEF isTimeoutError
<1>4. Has(e, "deadline") => isTimeoutError(e) /\ TimesOut(e) BY DEF isTimeoutError, TimesOut
<1> QED BY <1>2, <1>3, <1>4 DEF isTimeoutError, TimesOut

\* retry_policy.go:42-56, 86-94.  Which transport failures are timeouts, and that the
\* rest are network errors, for error trees of every size.
THEOREM TimeoutsAndNetworkErrors == ErrSpec => []TimeoutOrNetwork
<1>1. IInv => TimeoutOrNetwork
  <2> SUFFICES ASSUME IInv PROVE TimeoutOrNetwork OBVIOUS
  <2>1. IsTransport(err) <=> marked = {"transport"} BY DEF IInv, MarksDecide
  <2>2. IsTransport(err) => err # << >> BY DEF IsTransport
  <2>3. isTimeoutError(err) <=> TimesOut(err) BY FirstNetError DEF IInv, TypeOK
  <2>4. RetryOnTimeout(err) <=> marked = {"transport"} /\ TimesOut(err)
    BY <2>1, <2>2, <2>3, Zenon DEF RetryOnTimeout
  <2>5. RetryOnNetworkError(err) <=> marked = {"transport"} /\ ~TimesOut(err)
    BY <2>1, <2>2, <2>3, Zenon DEF RetryOnNetworkError
  <2> QED BY <2>4, <2>5 DEF TimeoutOrNetwork
<1> QED BY <1>1, Invariance, PTL

\* retry_policy.go:10-39.  What the policies that ask for no classification retry: every
\* failure that is not permanent, or every one with their status.
THEOREM UnclassifiedFailures == ErrSpec => []FailuresByStatus
<1>1. IInv => FailuresByStatus
  <2> SUFFICES ASSUME IInv PROVE FailuresByStatus OBVIOUS
  <2>1. IsPermanent(err) <=> "permanent" \in marked BY DEF IInv, MarksDecide
  <2>2. /\ Retries(status, err)["error"] <=> RetryOnError(err)
        /\ Retries(status, err)["codes"] <=> RetryOnStatusCode({408, 429}, status, err)
        /\ Retries(status, err)["server"] <=> RetryOnServerError(status, err)
    BY DEF Retries, Policies
  <2> QED
    BY <2>1, <2>2 DEF FailuresByStatus, RetryOnError, RetryOnStatusCode, RetryOnServerError
<1> QED BY <1>1, Invariance, PTL

\* docs/content/retries.md:60.  The default policy is the documented one.
THEOREM DefaultIsAsDocumented == ErrSpec => []DefaultAsDocumented
<1>1. IInv => DefaultAsDocumented
  <2> SUFFICES ASSUME IInv PROVE DefaultAsDocumented OBVIOUS
  <2>1. /\ IsPermanent(err) <=> "permanent" \in marked
        /\ IsTransport(err) <=> marked = {"transport"}
        /\ marked \subseteq {"permanent", "transport"}
    BY DEF IInv, MarksDecide, TypeOK
  <2>2. "transport" \in marked /\ "permanent" \notin marked <=> marked = {"transport"}
    BY <2>1
  <2>3. DefaultRetryPolicy(status, err) <=>
          \/ RetryOnTimeout(err) \/ RetryOnNetworkError(err)
          \/ RetryOnStatusCode({408, 429}, status, err) \/ RetryOnServerError(status, err)
    BY DEF DefaultRetryPolicy, AnyRetryPolicy, Retries, Policies
  <2>4. RetryOnTimeout(err) \/ RetryOnNetworkError(err) <=> IsTransport(err)
    BY DEF RetryOnTimeout, RetryOnNetworkError, IsTransport
  <2> DEFINE retryable == status \in {408, 429} \union 500..599
  <2> HIDE DEF retryable
  <2>5. RetryOnStatusCode({408, 429}, status, err) \/ RetryOnServerError(status, err)
          <=> err # << >> /\ ~IsPermanent(err) /\ retryable
    BY DEF RetryOnStatusCode, RetryOnServerError, retryable
  <2>6. IsTransport(err) => err # << >> BY DEF IsTransport
  <2>7. DefaultRetryPolicy(status, err) <=>
          \/ IsTransport(err) \/ (err # << >> /\ ~IsPermanent(err) /\ retryable)
    BY <2>3, <2>4, <2>5, Zenon
  <2>8. DefaultAsDocumented <=>
          (DefaultRetryPolicy(status, err) <=>
             err # << >> /\ "permanent" \notin marked /\ ("transport" \in marked \/ retryable))
    BY Zenon DEF DefaultAsDocumented, retryable
  <2> QED BY <2>1, <2>2, <2>6, <2>7, <2>8, Zenon
<1> QED BY <1>1, Invariance, PTL

\* Together, what every built-in policy makes of every result: which failures it
\* retries, and which it does not.
THEOREM PoliciesAreAsDocumented == ErrSpec => []PoliciesAsDocumented
BY PermanentIsNeverRetried, TimeoutsAndNetworkErrors, UnclassifiedFailures, DefaultIsAsDocumented, PTL
   DEF PoliciesAsDocumented

(***************************************************************************)
(* The powers of two that the documentation speaks of                      *)
(***************************************************************************)
\* The recursion has a solution, so PowerOfTwo is one.
LEMMA PowersOfTwo ==
    /\ PowerOfTwo[0] = 1
    /\ \A n \in Nat : PowerOfTwo[n] \in Nat \ {0} /\ PowerOfTwo[n + 1] = 2 * PowerOfTwo[n]
<1> DEFINE S == Nat \ {0}
           step == [k \in Nat |-> [v \in S |-> 2 * v]]
           Def(h) == h = [n \in Nat |-> IF n = 0 THEN 1 ELSE 2 * h[n - 1]]
<1>1. PICK f \in [Nat -> S] : Endless(f, 1, step)
  <2>1. step \in [Nat -> [S -> S]] /\ 1 \in S OBVIOUS
  <2> HIDE DEF S, step
  <2> QED BY <2>1, EndlessLoopExists
<1>2. ASSUME NEW n \in Nat \ {0} PROVE f[n] = 2 * f[n - 1]
  <2>1. n - 1 \in Nat /\ (n - 1) + 1 = n OBVIOUS
  <2>2. f[n] = step[n][f[n - 1]] BY <1>1, <2>1 DEF Endless
  <2> QED BY <2>1, <2>2
<1>3. Def(f)
  <2>1. \A n \in Nat : f[n] = IF n = 0 THEN 1 ELSE 2 * f[n - 1] BY <1>1, <1>2 DEF Endless
  <2> QED BY <2>1
<1>4. Def(PowerOfTwo)
  <2>1. PowerOfTwo = CHOOSE h : Def(h) BY DEF PowerOfTwo
  <2> HIDE DEF Def
  <2> QED BY <1>3, <2>1
<1> DEFINE p == PowerOfTwo
<1>5. p = [n \in Nat |-> IF n = 0 THEN 1 ELSE 2 * p[n - 1]] BY <1>4
<1> HIDE DEF p
<1>6. p[0] = 1 /\ \A n \in Nat : p[n + 1] = 2 * p[n]
  <2>1. ASSUME NEW n \in Nat PROVE p[n + 1] = 2 * p[n]
    <3>1. n + 1 \in Nat /\ n + 1 # 0 /\ (n + 1) - 1 = n OBVIOUS
    <3>2. p[n + 1] = IF n + 1 = 0 THEN 1 ELSE 2 * p[(n + 1) - 1] BY <1>5, <3>1
    <3> QED BY <3>1, <3>2
  <2> QED BY <1>5, <2>1
<1>7. ASSUME NEW n \in Nat PROVE p[n] \in S
  <2> DEFINE T == {k \in Nat : p[k] \in S}
  <2>1. 0 \in T BY <1>6
  <2>2. ASSUME NEW k \in 0..(n - 1), k \in T PROVE k + 1 \in T
    <3>1. p[k + 1] = 2 * p[k] BY <1>6
    <3> QED BY <2>2, <3>1
  <2>3. \A k \in 0..n : k \in T
    <3> HIDE DEF T
    <3>1. \A k \in 0..(n - 1) : k \in T => k + 1 \in T BY <2>2
    <3> QED BY <2>1, <3>1, UpTo, Zenon
  <2> QED BY <2>3
<1> QED BY <1>6, <1>7 DEF p

(***************************************************************************)
(* Doubling in a fixed width                                               *)
(***************************************************************************)
\* One round of retryBackoff's loop.
Round(d) == LET e == DoubleDuration(d) IN
            IF cfg.maxBackoff > 0 /\ e >= cfg.maxBackoff THEN cfg.maxBackoff ELSE e

Limit == IF cfg.maxBackoff > 0 THEN cfg.maxBackoff ELSE MaxDuration

CfgOK == /\ cfg.backoff \in Durations /\ cfg.maxBackoff \in Durations
         /\ cfg.jitter \in BOOLEAN

\* The exact product, cut at the limit, is doubled to the exact product, cut at the
\* limit, and no more than an int of this width is needed for it.
LEMMA RoundDoubles ==
    ASSUME CfgOK, NEW exact \in Nat \ {0}, NEW d \in 1..MaxDuration,
           Smaller(d, Limit) = Smaller(exact, Limit), d <= exact
    PROVE  /\ Round(d) \in 1..MaxDuration
           /\ Smaller(Round(d), Limit) = Smaller(2 * exact, Limit)
           /\ Round(d) <= 2 * exact
<1>1. MaxDuration \in Nat \ {0} /\ cfg.maxBackoff \in Int /\ cfg.maxBackoff <= MaxDuration
  BY BackoffAssumption DEF CfgOK, Durations
<1>2. Limit \in 1..MaxDuration BY <1>1 DEF Limit
<1>3. DoubleDuration(d) = Smaller(2 * d, MaxDuration)
  BY <1>1 DEF DoubleDuration, Smaller
<1>4. Round(d) = Smaller(2 * d, Limit) \/ Round(d) = Smaller(2 * d, MaxDuration)
  BY <1>1, <1>3 DEF Round, Limit, Smaller
<1>5. Smaller(Round(d), Limit) = Smaller(2 * d, Limit)
  BY <1>1, <1>2, <1>4 DEF Smaller
<1>6. Smaller(2 * d, Limit) = Smaller(2 * exact, Limit)
  BY <1>2 DEF Smaller
<1> QED BY <1>1, <1>2, <1>4, <1>5, <1>6 DEF Smaller

\* retryBackoff is the documented backoff, and within the width.
LEMMA BackoffIsExact ==
    ASSUME CfgOK, NEW n \in Nat \ {0}
    PROVE  RetryBackoff(n) = Documented(n) /\ RetryBackoff(n) \in 0..MaxDuration
<1> USE DEF CfgOK
<1>1. CASE cfg.backoff <= 0
  <2>1. RetryBackoff(n) = 0 BY <1>1 DEF RetryBackoff
  <2>2. Documented(n) = 0 BY <1>1 DEF Documented
  <2> QED BY <2>1, <2>2, BackoffAssumption
<1>2. CASE cfg.backoff > 0
  <2> DEFINE N == n - 1
             S == 1..MaxDuration
             exact(k) == cfg.backoff * PowerOfTwo[k]
             step == [k \in 1..N |-> [d \in S |-> Round(d)]]
             Def(h) == h = [k \in 0..N |-> IF k = 0 THEN cfg.backoff ELSE Round(h[k - 1])]
             doubled == CHOOSE h : Def(h)
  <2>1. cfg.backoff \in S /\ N \in Nat /\ MaxDuration \in Nat
    BY <1>2, BackoffAssumption DEF Durations
  <2>2. ASSUME NEW d \in S PROVE Round(d) \in S
    BY <2>1, RoundDoubles
  <2>3. PICK f \in [0..N -> S] : Loop(f, N, cfg.backoff, step)
    <3>1. step \in [1..N -> [S -> S]] BY <2>2
    <3> HIDE DEF S, step, N
    <3> QED BY <2>1, <3>1, LoopExists
  <2>4. Def(f)
    <3>1. ASSUME NEW k \in 0..N PROVE f[k] = IF k = 0 THEN cfg.backoff ELSE Round(f[k - 1])
      <4>1. CASE k = 0 BY <4>1, <2>3 DEF Loop
      <4>2. CASE k # 0
        <5>1. k \in 1..N /\ k - 1 \in 0..N BY <4>2, <2>1
        <5>2. f[k - 1] \in S BY <5>1
        <5>3. f[k] = step[k][f[k - 1]]
          <6> HIDE DEF step, N
          <6> QED BY <5>1, <2>3 DEF Loop
        <5>4. step[k][f[k - 1]] = Round(f[k - 1])
          <6> HIDE DEF S, N
          <6> QED BY <5>1, <5>2
        <5> QED BY <4>2, <5>3, <5>4
      <4> QED BY <4>1, <4>2
    <3> HIDE DEF N
    <3> QED BY <3>1
  <2>5. Def(doubled)
    <3> HIDE DEF Def
    <3> QED BY <2>4
  <2>6. RetryBackoff(n) = Capped(doubled[N])
    <3>1. ~(cfg.backoff <= 0) /\ ~(n <= 0) BY <1>2, <2>1
    <3> QED BY <3>1, Zenon DEF RetryBackoff, Round
  <2> HIDE DEF doubled
  <2>7. doubled[0] = cfg.backoff /\ \A k \in 1..N : doubled[k] = Round(doubled[k - 1])
    <3> HIDE DEF N
    <3> QED BY <2>1, <2>5
  <2> DEFINE T == {k \in 0..N : /\ doubled[k] \in S /\ exact(k) \in Nat \ {0}
                                /\ Smaller(doubled[k], Limit) = Smaller(exact(k), Limit)
                                /\ doubled[k] <= exact(k)}
  <2>8. 0 \in T
    <3>1. PowerOfTwo[0] = 1 /\ 0 \in 0..N BY <2>1, PowersOfTwo
    <3>2. exact(0) = cfg.backoff BY <2>1, <3>1
    <3> HIDE DEF exact
    <3> QED BY <2>1, <2>7, <3>1, <3>2
  <2>9. ASSUME NEW k \in 0..(N - 1), k \in T PROVE k + 1 \in T
    <3>1. k + 1 \in 1..N /\ (k + 1) - 1 = k BY <2>1
    <3>2. doubled[k + 1] = Round(doubled[k]) BY <2>7, <3>1
    <3>3. exact(k + 1) = 2 * exact(k)
      <4> k \in Nat BY <2>1
      <4>1. PowerOfTwo[k + 1] = 2 * PowerOfTwo[k] /\ PowerOfTwo[k] \in Nat BY PowersOfTwo
      <4> QED BY <2>1, <4>1
    <3> HIDE DEF exact
    <3>4. /\ Round(doubled[k]) \in S
          /\ Smaller(Round(doubled[k]), Limit) = Smaller(2 * exact(k), Limit)
          /\ Round(doubled[k]) <= 2 * exact(k)
      BY <2>9, RoundDoubles
    <3>5. k + 1 \in 0..N BY <2>1, <3>1
    <3>6. exact(k) \in Nat \ {0} BY <2>9
    <3>7. 2 * exact(k) \in Nat \ {0} BY <3>6
    <3>8. doubled[k + 1] \in S /\ exact(k + 1) \in Nat \ {0} /\ doubled[k + 1] <= exact(k + 1)
      BY <3>2, <3>3, <3>4, <3>7
    <3>9. Smaller(doubled[k + 1], Limit) = Smaller(exact(k + 1), Limit)
      BY <3>2, <3>3, <3>4
    <3> HIDE DEF S, N
    <3> QED BY <3>5, <3>8, <3>9
  <2>10. N \in T
    <3> HIDE DEF T, N
    <3>1. \A k \in 0..(N - 1) : k \in T => k + 1 \in T BY <2>9
    <3>2. \A k \in 0..N : k \in T BY <2>1, <2>8, <3>1, UpTo, Zenon
    <3> QED BY <2>1, <3>2
  <2>11. Documented(n) = Smaller(exact(N), Limit)
    <3>1. ~(cfg.backoff <= 0) BY <1>2, <2>1
    <3> QED BY <3>1, Zenon DEF Documented, Limit
  <2>12. Capped(doubled[N]) = Smaller(doubled[N], Limit)
    BY <2>1, <2>10 DEF Capped, Limit, Smaller
  <2>13. Capped(doubled[N]) \in 0..MaxDuration
    <3>1. doubled[N] \in S BY <2>10
    <3>2. cfg.maxBackoff \in Int BY BackoffAssumption DEF Durations
    <3> HIDE DEF N
    <3> QED BY <2>1, <3>1, <3>2 DEF Capped, Smaller
  <2> QED BY <2>6, <2>10, <2>11, <2>12, <2>13
<1> QED BY <1>1, <1>2, BackoffAssumption DEF Durations

(***************************************************************************)
(* The waits                                                               *)
(***************************************************************************)
LEMMA WaitInitOK == WaitInit => WaitsAsDocumented
<1> SUFFICES ASSUME WaitInit PROVE WaitsAsDocumented OBVIOUS
<1>1. WaitsFit
  BY BackoffAssumption DEF WaitInit, WaitsFit, Durations
<1> QED BY <1>1 DEF WaitInit, WaitsAsDocumented, BackoffAsDocumented, WaitWithinBounds

\* Jitter takes something off a wait, unless it is zero already.
LEMMA JitterShortens ==
    ASSUME CfgOK, NEW d \in 0..MaxDuration, NEW e \in JitterBackoff(d)
    PROVE  e \in 0..MaxDuration /\ e <= d /\ (~cfg.jitter => e = d)
BY BackoffAssumption DEF JitterBackoff, CfgOK

LEMMA RetryKeeps == WaitsAsDocumented /\ Retry => WaitsAsDocumented'
<1> SUFFICES ASSUME WaitsAsDocumented, Retry PROVE WaitsAsDocumented' OBVIOUS
<1>1. WaitsFit BY DEF WaitsAsDocumented
<1>2. CfgOK BY <1>1, BackoffAssumption DEF WaitsFit, CfgOK
<1>3. /\ cfg' = cfg /\ retry' = retry + 1 /\ retry' \in Nat \ {0} /\ retry' \in 0..MaxRetries
      /\ after' \in RetryAfters /\ after' \in Durations
  BY <1>1, BackoffAssumption DEF Retry, WaitsFit
<1>4. base' = RetryBackoff(retry') /\ base' = Documented(retry') /\ base' \in 0..MaxDuration
  BY <1>2, <1>3, BackoffIsExact DEF Retry
<1>5. PICK d \in JitterBackoff(base') : wait' = RetryDelay(d, after')
  BY DEF Retry
<1>6. d \in 0..MaxDuration /\ d <= base' /\ (~cfg.jitter => d = base')
  BY <1>2, <1>4, JitterShortens
<1>7. /\ wait' \in Durations /\ wait' >= after' /\ wait' >= 0
      /\ wait' <= Larger(base', after') /\ (~cfg.jitter => wait' = Larger(base', after'))
  BY <1>3, <1>4, <1>5, <1>6, BackoffAssumption DEF RetryDelay, Larger, Durations
<1>8. Documented(retry)' = Documented(retry')
  BY <1>3 DEF Documented
<1>9. WaitsFit'
  BY <1>1, <1>3, <1>4, <1>7, BackoffAssumption DEF WaitsFit, Durations
<1>10. BackoffAsDocumented'
  BY <1>4, <1>8 DEF BackoffAsDocumented
<1>11. WaitWithinBounds'
  BY <1>3, <1>4, <1>7, <1>8 DEF WaitWithinBounds
<1> QED BY <1>9, <1>10, <1>11 DEF WaitsAsDocumented

\* retry.go:85-136.  For every width of a duration, every configuration and every
\* number of retries, the wait before a retry is the documented one: the backoff
\* doubled per retry, cut at MaxBackoff or the largest duration without an overflow
\* on the way, shortened by nothing but jitter, and never below RetryAfter.
THEOREM WaitsAreAsDocumented == WaitSpec => []WaitsAsDocumented
<1>1. ASSUME WaitsAsDocumented, [WaitNext]_waitVars PROVE WaitsAsDocumented'
  <2>1. CASE Retry BY <1>1, <2>1, RetryKeeps
  <2>2. CASE UNCHANGED waitVars
    <3>1. UNCHANGED <<cfg, retry, after, base, wait>> BY <2>2 DEF waitVars
    <3>2. Documented(retry)' = Documented(retry) BY <3>1 DEF Documented
    <3> QED BY <1>1, <3>1, <3>2
         DEF WaitsAsDocumented, WaitsFit, BackoffAsDocumented, WaitWithinBounds
  <2> QED BY <1>1, <2>1, <2>2 DEF WaitNext
<1> QED BY WaitInitOK, <1>1, PTL DEF WaitSpec
=============================================================================
